------------------------------ MODULE ClaimLock ------------------------------
(***************************************************************************)
(* The Redis lock around a claim: lock.service.ts, one key.  It is a       *)
(* courtesy: PayoutWorkflow does not rely on it.                           *)
(***************************************************************************)
EXTENDS Integers, FiniteSets

CONSTANTS
  Clients,   \* requests that want the key
  NoToken    \* the key is not set

LockAssumption == NoToken \notin Clients

VARIABLES
  token,     \* the value of the key: whose acquisition set it
  client,    \* idle, waiting, inside, releasing; or refused
  handle,    \* REAL: release runs the script; NONE: the fallback, release does nothing
  outlived   \* outlived[c]: the key's time to live ran out while c was inside

vars == <<token, client, handle, outlived>>

States == {"idle", "waiting", "inside", "releasing", "refused"}

Init ==
  /\ token = NoToken
  /\ client = [c \in Clients |-> "idle"]
  /\ handle = [c \in Clients |-> "NONE"]
  /\ outlived = [c \in Clients |-> FALSE]

Enter(c, h) ==
  /\ client' = [client EXCEPT ![c] = "inside"]
  /\ handle' = [handle EXCEPT ![c] = h]
  /\ outlived' = [outlived EXCEPT ![c] = FALSE]

WithLock(c) ==
  /\ client[c] \in {"idle", "refused"}
  /\ client' = [client EXCEPT ![c] = "waiting"]
  /\ UNCHANGED <<token, handle, outlived>>

\* SET key token NX, and its answer.  While the key is set the client polls,
\* which changes nothing.
AcquireLock(c) ==
  /\ client[c] = "waiting" /\ token = NoToken
  /\ token' = c
  /\ Enter(c, "REAL")

\* Redis does not answer in time: the client goes on without the lock, and the
\* SET may have been done all the same.
AcquireUnanswered(c) ==
  /\ client[c] = "waiting"
  /\ token' \in IF token = NoToken THEN {NoToken, c} ELSE {token}
  /\ Enter(c, "NONE")

\* LOCK_ACQUISITION_FAILED, once waitMs have passed.
GiveUp(c) ==
  /\ client[c] = "waiting" /\ token # NoToken
  /\ client' = [client EXCEPT ![c] = "refused"]
  /\ UNCHANGED <<token, handle, outlived>>

\* The body returns or throws.
Finish(c) ==
  /\ client[c] = "inside"
  /\ client' = [client EXCEPT ![c] = "releasing"]
  /\ UNCHANGED <<token, handle, outlived>>

DeleteKey(c) == token' = NoToken

\* RELEASE_SCRIPT: only a key that still holds this acquisition's token.
DeleteOwnKey(c) == token' = IF token = c THEN NoToken ELSE token

\* A script that fails leaves the key to its time to live.
Release(c) ==
  /\ client[c] = "releasing"
  /\ \/ handle[c] = "REAL" /\ DeleteOwnKey(c)
     \/ UNCHANGED token
  /\ client' = [client EXCEPT ![c] = "idle"]
  /\ handle' = [handle EXCEPT ![c] = "NONE"]
  /\ UNCHANGED outlived

\* PX ttl: the key goes, whatever its owner is doing.
TimeToLiveEnds ==
  /\ token # NoToken
  /\ token' = NoToken
  /\ outlived' = [c \in Clients |-> outlived[c] \/ (c = token /\ client[c] \in {"inside", "releasing"})]
  /\ UNCHANGED <<client, handle>>

Next ==
  \/ \E c \in Clients :
       WithLock(c) \/ AcquireLock(c) \/ AcquireUnanswered(c) \/ GiveUp(c) \/ Finish(c) \/ Release(c)
  \/ TimeToLiveEnds

Spec == Init /\ [][Next]_vars

-----------------------------------------------------------------------------
(* Properties *)

\* Every variable has its type.
TypeOK ==
  /\ token \in Clients \cup {NoToken}
  /\ client \in [Clients -> States]
  /\ handle \in [Clients -> {"REAL", "NONE"}]
  /\ outlived \in [Clients -> BOOLEAN]

\* Two requests are inside with the lock only if one outstayed its time to live:
\* nobody's release takes the lock from somebody else, though locks run out,
\* answers are lost and a request goes on without one.
ExclusiveInTime ==
  \A c, d \in Clients :
    c # d /\ client[c] = "inside" /\ client[d] = "inside"
      /\ handle[c] = "REAL" /\ handle[d] = "REAL"
      => outlived[c] \/ outlived[d]
=============================================================================
