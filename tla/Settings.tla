------------------------------ MODULE Settings ------------------------------
(***************************************************************************)
(* The settings every request reads: systemConfig.service.ts, with the     *)
(* cache in Redis in front of the one row and the history of its versions. *)
(* Two settings stand for those a patch changes, one for the address book. *)
(***************************************************************************)
EXTENDS Integers, FiniteSets

CONSTANTS
  Readers,       \* calls of getConfig at a time
  Admins,        \* calls of updateConfig or of the address book at a time
  NoSnapshot,    \* the cache is empty
  MaxVersion     \* bound: versions of the settings

SettingsAssumption == MaxVersion \in Nat \ {0}

Patched == {"rate", "clock"}
Keys == Patched \cup {"addresses"}
Values == 0..1
Versions == 1..MaxVersion
Snapshots == [values : [Keys -> Values], version : Versions]

VARIABLES
  config,        \* the SystemConfig row
  history,       \* history[v]: the SystemConfigVersion row of v, or NoSnapshot
  cache,         \* CACHE_KEY: a snapshot or NoSnapshot
  cacheDies,     \* it was set with a time to live
  calls          \* calls[c]: where the call is, the copy it holds, what it patches

vars == <<config, history, cache, cacheDies, calls>>

Callers == Readers \cup Admins
Call == [pc : {"idle", "read", "keep", "cache", "patch", "save", "record", "invalidate"},
         copy : Snapshots \cup {NoSnapshot}, key : Keys]
Idle == [pc |-> "idle", copy |-> NoSnapshot, key |-> "rate"]

At(c, pc) == calls[c].pc = pc
GoTo(c, pc) == calls' = [calls EXCEPT ![c].pc = pc]
Return(c) == calls' = [calls EXCEPT ![c] = Idle]
Written(snapshot, key, value, version) ==
  [values |-> [snapshot.values EXCEPT ![key] = value], version |-> version]

\* The record of a version; a second one for it, or a failure, is swallowed.
RecordConfigVersion(copy) ==
  \/ history[copy.version] = NoSnapshot /\ history' = [history EXCEPT ![copy.version] = copy]
  \/ UNCHANGED history

\* ensureSystemConfig has run: the row exists, and the record of its version.
Init ==
  /\ config = [values |-> [k \in Keys |-> 0], version |-> 1]
  /\ history = [v \in Versions |-> IF v = 1 THEN config ELSE NoSnapshot]
  /\ cache = NoSnapshot /\ cacheDies = FALSE
  /\ calls = [c \in Callers |-> Idle]

-----------------------------------------------------------------------------
(* getConfig *)

\* The cache is empty, slow or down.  When it answers nothing changes.
CacheMissed(r) ==
  /\ At(r, "idle") /\ GoTo(r, "read")
  /\ UNCHANGED <<config, history, cache, cacheDies>>

\* ensureSystemConfig reads the row, for getConfig or updateConfig ...
EnsureConfig(c) ==
  /\ IF c \in Admins THEN At(c, "idle") /\ config.version < MaxVersion ELSE At(c, "read")
  /\ calls' = [calls EXCEPT ![c] = [@ EXCEPT !.pc = "keep", !.copy = config]]
  /\ UNCHANGED <<config, history, cache, cacheDies>>

\* ... and keeps a record of its version if none was kept.
KeepVersion(c) ==
  /\ At(c, "keep")
  /\ RecordConfigVersion(calls[c].copy)
  /\ GoTo(c, IF c \in Admins THEN "patch" ELSE "cache")
  /\ UNCHANGED <<config, cache, cacheDies>>

CachePut(copy) == cache' = copy /\ cacheDies' = FALSE

\* SET with EX, not awaited: it may come late, or fail.
CacheSet(copy) == cache' = copy /\ cacheDies' = TRUE

FillCache(r) ==
  /\ At(r, "cache")
  /\ CacheSet(calls[r].copy) \/ UNCHANGED <<cache, cacheDies>>
  /\ Return(r)
  /\ UNCHANGED <<config, history>>

CacheExpires ==
  /\ cache # NoSnapshot /\ cacheDies
  /\ cache' = NoSnapshot /\ cacheDies' = FALSE
  /\ UNCHANGED <<config, history, calls>>

-----------------------------------------------------------------------------
(* updateConfig and the address book *)

\* The copy is patched in memory; a patch that changes nothing only drops the
\* cache.
Patch(a) ==
  LET copy == calls[a].copy IN
  /\ At(a, "patch")
  /\ \/ \E k \in Patched : \E x \in Values \ {copy.values[k]} :
          calls' = [calls EXCEPT ![a] =
            [pc |-> "save", copy |-> Written(copy, k, x, copy.version + 1), key |-> k]]
     \/ GoTo(a, "invalidate")
  /\ UNCHANGED <<config, history, cache, cacheDies>>

SaveWhole(a) ==
  /\ At(a, "save")
  /\ config' = calls[a].copy
  /\ GoTo(a, "record")
  /\ UNCHANGED <<history, cache, cacheDies>>

\* save writes the paths that were set: the setting, and the version as the
\* copy counted it; or it fails.
Save(a) ==
  LET c == calls[a] IN
  /\ At(a, "save")
  /\ \/ config' = Written(config, c.key, c.copy.values[c.key], c.copy.version) /\ GoTo(a, "record")
     \/ UNCHANGED config /\ Return(a)
  /\ UNCHANGED <<history, cache, cacheDies>>

RecordSaved(a) ==
  /\ At(a, "record")
  /\ RecordConfigVersion(calls[a].copy)
  /\ GoTo(a, "invalidate")
  /\ UNCHANGED <<config, cache, cacheDies>>

\* addDepositAddress and setDepositAddressActive write and count in one update
\* and record no version (the getConfig one begins with is a reader's call).
ChangeAddresses(a) ==
  /\ At(a, "idle") /\ config.version < MaxVersion
  /\ \E x \in Values : config' = Written(config, "addresses", x, config.version + 1)
  /\ GoTo(a, "invalidate")
  /\ UNCHANGED <<history, cache, cacheDies>>

\* DEL, or Redis is down.
InvalidateConfigCache(a) ==
  /\ At(a, "invalidate")
  /\ \/ cache' = NoSnapshot /\ cacheDies' = FALSE
     \/ UNCHANGED <<cache, cacheDies>>
  /\ Return(a)
  /\ UNCHANGED <<config, history>>

-----------------------------------------------------------------------------
Next ==
  \/ \E r \in Readers : CacheMissed(r) \/ FillCache(r)
  \/ \E c \in Callers : EnsureConfig(c) \/ KeepVersion(c)
  \/ \E a \in Admins :
       \/ Patch(a) \/ Save(a) \/ RecordSaved(a)
       \/ ChangeAddresses(a) \/ InvalidateConfigCache(a)
  \/ CacheExpires

\* Redis expires what was set with a time to live.
Fairness == WF_vars(CacheExpires)
Spec == Init /\ [][Next]_vars
FairSpec == Spec /\ Fairness

-----------------------------------------------------------------------------
(* Properties *)

\* Every variable has its type.
TypeOK ==
  /\ config \in Snapshots
  /\ history \in [Versions -> Snapshots \cup {NoSnapshot}]
  /\ cache \in Snapshots \cup {NoSnapshot}
  /\ cacheDies \in BOOLEAN
  /\ calls \in [Callers -> Call]

\* A copy in Redis that differs from the row, left by an invalidation that
\* failed or by a reader that filled the cache late, does not serve for ever.
StaleCacheDies == cache # NoSnapshot /\ cache # config ~> cache \in {NoSnapshot, config}

\* Two changes at once do not undo each other: a write changes the setting its
\* call is about and no other, however old the copy it was computed from.
NoLostUpdate ==
  [][\A k \in Keys : config'.values[k] # config.values[k] =>
       \E a \in Admins : calls'[a] # calls[a] /\
         IF k = "addresses" THEN At(a, "idle") ELSE At(a, "save") /\ calls[a].key = k]_vars

\* What the history says of a version is what the row held in it: "a gap then
\* shows up honestly ... rather than as a snapshot that is wrong"
\* (systemConfig.service.ts:102).
HistoryIsTrue == history[config.version] \in {NoSnapshot, config}
=============================================================================
