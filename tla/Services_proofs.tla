-------------------------- MODULE Services_proofs --------------------------
(***************************************************************************)
(* What holds of the services around the payments for any number of        *)
(* requests, codes, sessions, attempts and versions: who is inside the     *)
(* lock, what a code opens, what a party is told, what a change changes.   *)
(* And of the desk: what an application leaves behind, for any number of   *)
(* applications and administrators, and that each of the desk's parts      *)
(* behaves as it does alone.                                               *)
(***************************************************************************)
EXTENDS Services, Desk, Funding_proofs, PlatformWithdrawal_proofs, TLAPS

-----------------------------------------------------------------------------
(* The lock around a claim *)

LockClients == ServedRequests \cup {Sweeper}

\* A client inside, or on its way out.
Inside(c) == client[c] \in {"inside", "releasing"}

\* Who took the lock and has not outstayed its time to live still has it.
LockInv ==
  /\ Lock!TypeOK
  /\ \A c \in LockClients : Inside(c) /\ handle[c] = "REAL" /\ ~outlived[c] => token = c

LEMMA LockStep ==
  Lock!LockAssumption /\ LockInv /\ [Lock!Next]_Lock!vars => LockInv'
<1> SUFFICES ASSUME Lock!LockAssumption, LockInv, [Lock!Next]_Lock!vars
             PROVE  LockInv'
  OBVIOUS
<1> USE DEF LockInv, LockClients, Inside, Lock!LockAssumption, Lock!TypeOK, Lock!States
<1>1. ASSUME NEW c \in LockClients, Lock!WithLock(c)
      PROVE  LockInv'
  BY <1>1 DEF Lock!WithLock
<1>2. ASSUME NEW c \in LockClients, Lock!AcquireLock(c)
      PROVE  LockInv'
  BY <1>2 DEF Lock!AcquireLock, Lock!Enter
<1>3. ASSUME NEW c \in LockClients, Lock!AcquireUnanswered(c)
      PROVE  LockInv'
  BY <1>3 DEF Lock!AcquireUnanswered, Lock!Enter
<1>4. ASSUME NEW c \in LockClients, Lock!GiveUp(c)
      PROVE  LockInv'
  BY <1>4 DEF Lock!GiveUp
<1>5. ASSUME NEW c \in LockClients, Lock!Finish(c)
      PROVE  LockInv'
  BY <1>5 DEF Lock!Finish
<1>6. ASSUME NEW c \in LockClients, Lock!Release(c)
      PROVE  LockInv'
  BY <1>6 DEF Lock!Release, Lock!DeleteOwnKey
<1>7. CASE Lock!TimeToLiveEnds
  BY <1>7 DEF Lock!TimeToLiveEnds
<1>8. CASE UNCHANGED Lock!vars
  BY <1>8 DEF Lock!vars
<1> QED
  BY <1>1, <1>2, <1>3, <1>4, <1>5, <1>6, <1>7, <1>8 DEF Lock!Next

\* For any number of clients of one key, whatever Redis loses or forgets: two are
\* inside with the lock only if one of them outstayed its time to live.
THEOREM LockIsExclusive == Lock!LockAssumption /\ Lock!Spec => []ExclusiveInTime
<1> SUFFICES ASSUME Lock!LockAssumption
             PROVE  Lock!Spec => []ExclusiveInTime
  OBVIOUS
<1>1. Lock!Init => LockInv
  BY DEF Lock!LockAssumption, Lock!Init, LockInv, LockClients, Inside, Lock!TypeOK, Lock!States
<1>2. LockInv => ExclusiveInTime
  BY DEF LockInv, LockClients, Inside, Lock!TypeOK, ExclusiveInTime, Lock!ExclusiveInTime
<1>3. LockInv /\ [Lock!Next]_Lock!vars => LockInv'
  BY LockStep
<1> QED
  BY <1>1, <1>2, <1>3, PTL DEF Lock!Spec

-----------------------------------------------------------------------------
(* Sign-ins *)

Signers == ServedRequests \cup {Sweeper}

\* A code that was taken opens a session, or is on its way to.
Entering(w) == sessionJobs[w].pc \in {"account", "open"}

\* A code that was consumed stays so.  One handler at most has consumed a given
\* code and not yet opened its session; once it has, nobody else will.
SessionInv ==
  /\ Presence!TypeOK
  /\ \A k \in Codes : purpose[k] = "none" => codeStatus[k] = "EXPIRED"
  /\ \A w \in Signers : sessionJobs[w].pc = "consume" \/ Entering(w) =>
       /\ sessionJobs[w].code \in Codes
       /\ purpose[sessionJobs[w].code] # "none"
  /\ \A w \in Signers : Entering(w) => codeStatus[sessionJobs[w].code] = "CONSUMED"
  /\ \A v, w \in Signers :
       Entering(v) /\ Entering(w) /\ sessionJobs[v].code = sessionJobs[w].code => v = w
  /\ \A s \in SessionIds : openedWith[s] \in Codes =>
       /\ codeStatus[openedWith[s]] = "CONSUMED"
       /\ \A w \in Signers : Entering(w) => sessionJobs[w].code # openedWith[s]
  /\ OneSessionPerCode

\* What only moves presence, and handlers that are on no sign-in, keeps it.
LEMMA PresenceKeepsSessions ==
  ASSUME SessionInv, UNCHANGED <<purpose, codeStatus, session, openedWith>>,
         active' \in BOOLEAN, isOnline' \in BOOLEAN,
         sessionJobs' \in [Signers -> Presence!Job],
         \A v \in Signers :
           \/ sessionJobs'[v] = sessionJobs[v]
           \/ sessionJobs'[v].pc \notin {"consume", "account", "open"}
  PROVE  SessionInv'
<1>1. \A v \in Signers : Entering(v)' =>
        Entering(v) /\ sessionJobs'[v].code = sessionJobs[v].code
  BY DEF Entering
<1>2. Presence!TypeOK'
  BY DEF SessionInv, Presence!TypeOK, Presence!Workers, Signers
<1>3. OneSessionPerCode'
  BY DEF SessionInv, OneSessionPerCode, Presence!OneSessionPerCode
<1>4. \A w \in Signers : sessionJobs'[w].pc = "consume" =>
        sessionJobs[w].pc = "consume" /\ sessionJobs'[w].code = sessionJobs[w].code
  OBVIOUS
<1> QED
  BY <1>1, <1>2, <1>3, <1>4 DEF SessionInv

LEMMA SessionStep ==
  Presence!SessionsAssumption /\ SessionInv /\ [Presence!Next]_Presence!vars => SessionInv'
<1> SUFFICES ASSUME Presence!SessionsAssumption, SessionInv, [Presence!Next]_Presence!vars
             PROVE  SessionInv'
  OBVIOUS
<1> USE DEF SessionInv, Signers, Entering, OneSessionPerCode, Presence!OneSessionPerCode,
            Presence!SessionsAssumption, Presence!TypeOK, Presence!Purposes, Presence!Pcs,
            Presence!Job, Presence!Idle, Presence!Workers, Presence!At, Presence!GoTo,
            Presence!EndJob, Presence!Begin
<1>1. ASSUME NEW k \in Codes, Presence!IssueCode(k)
      PROVE  SessionInv'
  BY <1>1 DEF Presence!IssueCode, Presence!sessionVars
<1>2. ASSUME NEW k \in Codes, Presence!ResendCode(k)
      PROVE  SessionInv'
  BY <1>2 DEF Presence!ResendCode, Presence!sessionVars
<1>3. ASSUME NEW k \in Codes, Presence!CodeExpires(k)
      PROVE  SessionInv'
  BY <1>3 DEF Presence!CodeExpires, Presence!sessionVars
<1>4. ASSUME NEW w \in ServedRequests, NEW k \in Codes, Presence!ReadCode(w, k)
      PROVE  SessionInv'
  BY <1>4 DEF Presence!ReadCode, Presence!sessionVars, Presence!codeVars
<1>5. ASSUME NEW w \in ServedRequests, Presence!ConsumeCode(w)
      PROVE  SessionInv'
  BY <1>5 DEF Presence!ConsumeCode, Presence!sessionVars
<1>6. ASSUME NEW w \in ServedRequests, Presence!ReadAccount(w)
      PROVE  SessionInv'
  <2>1. /\ sessionJobs[w].pc = "account" /\ w \in Signers
        /\ purpose[sessionJobs[w].code] \in Presence!Purposes
    BY <1>6 DEF Presence!ReadAccount
  <2>2. \E pc \in {"idle", "open", "endAll"} :
          sessionJobs' = [sessionJobs EXCEPT ![w] =
            IF pc = "idle" THEN Presence!Idle ELSE [@ EXCEPT !.pc = pc]]
    BY <1>6, <2>1 DEF Presence!ReadAccount
  <2>3. \A v \in Signers \ {w} : sessionJobs'[v] = sessionJobs[v]
    BY <2>2
  <2>4. /\ sessionJobs' \in [Signers -> Presence!Job]
        /\ sessionJobs'[w] = Presence!Idle
           \/ /\ sessionJobs'[w].code = sessionJobs[w].code
              /\ sessionJobs'[w].pc \in {"open", "endAll"}
    BY <2>1, <2>2
  <2>5. UNCHANGED <<purpose, codeStatus, session, openedWith, active, isOnline>>
    BY <1>6 DEF Presence!ReadAccount, Presence!sessionVars, Presence!codeVars
  <2>6. \A v \in Signers : Entering(v)' => Entering(v) /\ sessionJobs'[v].code = sessionJobs[v].code
    BY <2>1, <2>3, <2>4
  <2> QED
    BY <2>1, <2>3, <2>4, <2>5, <2>6
<1>7. ASSUME NEW w \in ServedRequests, Presence!OpenSession(w)
      PROVE  SessionInv'
  BY <1>7 DEF Presence!OpenSession, Presence!codeVars
<1>8. ASSUME NEW w \in ServedRequests, Presence!EndAllSessions(w)
      PROVE  SessionInv'
  BY <1>8 DEF Presence!EndAllSessions, Presence!codeVars
<1>9. ASSUME NEW w \in ServedRequests, Presence!WritePresence(w)
      PROVE  SessionInv'
  <2>1. /\ sessionJobs' = [sessionJobs EXCEPT ![w] = Presence!Idle] /\ isOnline' \in BOOLEAN
        /\ UNCHANGED <<purpose, codeStatus, session, openedWith, active>>
    BY <1>9 DEF Presence!WritePresence, Presence!sessionVars, Presence!codeVars
  <2>2. /\ sessionJobs' \in [Signers -> Presence!Job]
        /\ \A v \in Signers \ {w} : sessionJobs'[v] = sessionJobs[v]
        /\ sessionJobs'[w].pc = "idle"
    BY <2>1
  <2> QED
    BY <2>1, <2>2, PresenceKeepsSessions
<1>10. ASSUME NEW w \in ServedRequests, Presence!SetPresence(w)
       PROVE  SessionInv'
  BY <1>10 DEF Presence!SetPresence, Presence!sessionVars, Presence!codeVars
<1>11. ASSUME NEW w \in ServedRequests, Presence!SetUserStatus(w)
       PROVE  SessionInv'
  BY <1>11 DEF Presence!SetUserStatus, Presence!sessionVars, Presence!codeVars
<1>12. ASSUME NEW w \in ServedRequests, NEW s \in SessionIds, Presence!Logout(w, s)
       PROVE  SessionInv'
  BY <1>12 DEF Presence!Logout, Presence!codeVars
<1>13. ASSUME NEW s \in SessionIds, Presence!SessionExpires(s)
       PROVE  SessionInv'
  BY <1>13 DEF Presence!SessionExpires, Presence!codeVars
<1>14. CASE Presence!SocketPresence
  BY <1>14 DEF Presence!SocketPresence, Presence!sessionVars, Presence!codeVars
<1>15. CASE Presence!SweepOnline
  BY <1>15 DEF Presence!SweepOnline, Presence!sessionVars, Presence!codeVars
<1>16. CASE Presence!SweepSessions
  <2>1. PICK pc \in {"idle", "clear"} : sessionJobs' = [sessionJobs EXCEPT ![Sweeper] =
          IF pc = "idle" THEN Presence!Idle ELSE [@ EXCEPT !.pc = pc]]
    BY <1>16 DEF Presence!SweepSessions
  <2>2. UNCHANGED <<purpose, codeStatus, session, openedWith, active, isOnline>>
    BY <1>16 DEF Presence!SweepSessions, Presence!sessionVars, Presence!codeVars
  <2>3. /\ sessionJobs' \in [Signers -> Presence!Job]
        /\ \A v \in Signers \ {Sweeper} : sessionJobs'[v] = sessionJobs[v]
        /\ sessionJobs'[Sweeper].pc = pc
    BY <2>1
  <2> QED
    BY <2>2, <2>3, PresenceKeepsSessions
<1>17. CASE Presence!SweepClear
  <2>1. /\ sessionJobs' = [sessionJobs EXCEPT ![Sweeper] = Presence!Idle] /\ isOnline' = FALSE
        /\ UNCHANGED <<purpose, codeStatus, session, openedWith, active>>
    BY <1>17 DEF Presence!SweepClear, Presence!sessionVars, Presence!codeVars
  <2>2. /\ sessionJobs' \in [Signers -> Presence!Job]
        /\ \A v \in Signers \ {Sweeper} : sessionJobs'[v] = sessionJobs[v]
        /\ sessionJobs'[Sweeper].pc = "idle"
    BY <2>1
  <2> QED
    BY <2>1, <2>2, PresenceKeepsSessions
<1>18. CASE UNCHANGED Presence!vars
  BY <1>18 DEF Presence!vars, Presence!sessionVars, Presence!codeVars
<1> QED
  BY <1>1, <1>2, <1>3, <1>4, <1>5, <1>6, <1>7, <1>8, <1>9, <1>10, <1>11, <1>12, <1>13,
     <1>14, <1>15, <1>16, <1>17, <1>18
  DEF Presence!Next, Presence!JobStep, Presence!SweepStep

\* For any number of codes, sessions and requests: one correct code, submitted any
\* number of times at once, opens one session.
THEOREM CodesOpenOnce == Presence!SessionsAssumption /\ Presence!Spec => []OneSessionPerCode
<1> SUFFICES ASSUME Presence!SessionsAssumption
             PROVE  Presence!Spec => []OneSessionPerCode
  OBVIOUS
<1>1. ASSUME Presence!Init
      PROVE  SessionInv
  <2> USE <1>1 DEF Presence!Init
  <2>1. Presence!TypeOK
    BY DEF Presence!TypeOK, Presence!Purposes, Presence!Pcs, Presence!Job, Presence!Idle,
           Presence!Workers
  <2>2. \A w \in Signers : sessionJobs[w].pc = "idle" /\ ~Entering(w)
    BY DEF Signers, Entering, Presence!Workers, Presence!Idle
  <2>3. \A s \in SessionIds : openedWith[s] \notin Codes
    BY DEF Presence!SessionsAssumption
  <2>4. OneSessionPerCode
    BY <2>3 DEF OneSessionPerCode, Presence!OneSessionPerCode
  <2> QED
    BY <2>1, <2>2, <2>3, <2>4 DEF SessionInv
<1>2. SessionInv => OneSessionPerCode
  BY DEF SessionInv
<1>3. SessionInv /\ [Presence!Next]_Presence!vars => SessionInv'
  BY SessionStep
<1> QED
  BY <1>1, <1>2, <1>3, PTL DEF Presence!Spec

-----------------------------------------------------------------------------
(* Callbacks *)

Senders == ServedRequests \cup {Sweeper}

\* An ending that was told, or is being told, is the one the payment has; and an
\* answer or a record of a delivery comes after something was told.
CallbackInv ==
  /\ Callback!TypeOK
  /\ \A s \in told : s \in Callback!Final => s = paymentStatus
  /\ \A w \in Senders :
       /\ callbackJobs[w].pc = "post" /\ callbackJobs[w].payload \in Callback!Final
            => callbackJobs[w].payload = paymentStatus
       /\ callbackJobs[w].pc = "record" /\ callbackJobs[w].answered => told # {}
  /\ delivered => told # {}

\* A send begun, or not begun for want of a key, leaves the other sends alone.
LEMMA SendsOne ==
  ASSUME NEW w \in Senders, NEW s \in Callback!Statuses,
         callbackJobs \in [Senders -> Callback!Job], Callback!SendIfKeyed(w, s)
  PROVE  /\ callbackJobs' \in [Senders -> Callback!Job]
         /\ \A v \in Senders :
              \/ callbackJobs'[v] = callbackJobs[v]
              \/ callbackJobs'[v].pc = "post" /\ callbackJobs'[v].payload = s
<1>1. CASE Callback!Send(w, s)
  <2>1. callbackJobs' =
          [callbackJobs EXCEPT ![w] = [Callback!Idle EXCEPT !.pc = "post", !.payload = s]]
    BY <1>1 DEF Callback!Send
  <2>2. /\ callbackJobs'[w] = [pc |-> "post", payload |-> s, answered |-> FALSE]
        /\ \A v \in Senders \ {w} : callbackJobs'[v] = callbackJobs[v]
    BY <2>1 DEF Callback!Idle
  <2>3. callbackJobs'[w] \in Callback!Job
    BY <2>2 DEF Callback!Job
  <2> QED
    BY <2>1, <2>2, <2>3
<1>2. CASE UNCHANGED callbackJobs
  BY <1>2
<1> QED
  BY <1>1, <1>2 DEF Callback!SendIfKeyed

\* A payment that has not ended may move anywhere: of no ending was anything said.
LEMMA MoveKeepsCallbacks ==
  ASSUME CallbackInv, NEW from, from \notin Callback!Final, NEW to \in Callback!Statuses,
         Callback!Moves(from, to), returns' \in 0..MaxReturns,
         callbackJobs' \in [Senders -> Callback!Job],
         \A v \in Senders :
           \/ callbackJobs'[v] = callbackJobs[v]
           \/ callbackJobs'[v].pc = "post" /\ callbackJobs'[v].payload = to
  PROVE  CallbackInv'
<1>1. /\ paymentStatus = from /\ paymentStatus' = to
      /\ direction' = direction /\ told' = told /\ delivered' = delivered
      /\ attempts' = attempts /\ faults' = faults
  BY DEF Callback!Moves
<1>2. Callback!Final' = Callback!Final
  BY <1>1 DEF Callback!Final
<1>3. Callback!TypeOK'
  BY <1>1 DEF CallbackInv, Callback!TypeOK, Callback!Workers, Senders
<1>4. \A s \in told : s \notin Callback!Final
  BY <1>1 DEF CallbackInv
<1>5. ASSUME NEW v \in Senders
      PROVE  /\ callbackJobs'[v].pc = "post" /\ callbackJobs'[v].payload \in Callback!Final
                  => callbackJobs'[v].payload = to
             /\ callbackJobs'[v].pc = "record" /\ callbackJobs'[v].answered => told # {}
  BY <1>1 DEF CallbackInv
<1> QED
  BY <1>1, <1>2, <1>3, <1>4, <1>5 DEF CallbackInv

LEMMA CallbackStep ==
  Callback!CallbacksAssumption /\ CallbackInv /\ [Callback!Next]_Callback!vars => CallbackInv'
<1> SUFFICES ASSUME Callback!CallbacksAssumption, CallbackInv, [Callback!Next]_Callback!vars
             PROVE  CallbackInv'
  OBVIOUS
<1> USE DEF CallbackInv, Senders, Callback!CallbacksAssumption, Callback!TypeOK, Callback!Statuses,
            Callback!Job, Callback!Idle, Callback!Workers, Callback!Final
<1>1. ASSUME NEW w \in ServedRequests, Callback!Settle(w)
      PROVE  CallbackInv'
  BY <1>1, SendsOne, MoveKeepsCallbacks DEF Callback!Settle
<1>2. ASSUME NEW w \in ServedRequests, Callback!AskParty(w)
      PROVE  CallbackInv'
  BY <1>2, SendsOne, MoveKeepsCallbacks DEF Callback!AskParty
<1>3. ASSUME NEW w \in ServedRequests, Callback!Replay(w)
      PROVE  CallbackInv'
  BY <1>3 DEF Callback!Replay, Callback!Send, Callback!rowVars
<1>4. CASE Callback!EndPayIn
  BY <1>4, MoveKeepsCallbacks DEF Callback!EndPayIn
<1>5. CASE Callback!EndPayout
  BY <1>5, MoveKeepsCallbacks DEF Callback!EndPayout
<1>6. CASE Callback!ReturnPayout
  BY <1>6, MoveKeepsCallbacks DEF Callback!ReturnPayout, Callback!Moves
<1>7. CASE Callback!Retry
  BY <1>7 DEF Callback!Retry, Callback!Send, Callback!rowVars
<1>8. ASSUME NEW w \in Senders, Callback!Post(w)
      PROVE  CallbackInv'
  BY <1>8 DEF Callback!Post
<1>9. ASSUME NEW w \in Senders, Callback!Record(w)
      PROVE  CallbackInv'
  BY <1>9 DEF Callback!Record, Callback!WriteDelivery
<1>10. ASSUME NEW w \in Senders, Callback!RecordLost(w)
       PROVE  CallbackInv'
  BY <1>10 DEF Callback!RecordLost, Callback!rowVars
<1>11. CASE Callback!Crash
  BY <1>11 DEF Callback!Crash, Callback!rowVars
<1>12. CASE UNCHANGED Callback!vars
  BY <1>12 DEF Callback!vars, Callback!rowVars
<1> QED
  BY <1>1, <1>2, <1>3, <1>4, <1>5, <1>6, <1>7, <1>8, <1>9, <1>10, <1>11, <1>12
  DEF Callback!Next, Callback!SendStep

\* However many requests send at once, however often a send, its answer or its
\* record is lost: no ending is told but the one the payment had.
THEOREM EndingsAreToldTrue ==
  Callback!CallbacksAssumption /\ Callback!Spec => []ToldAsItEnded
<1> SUFFICES ASSUME Callback!CallbacksAssumption
             PROVE  Callback!Spec => []ToldAsItEnded
  OBVIOUS
<1>1. ASSUME Callback!Init
      PROVE  CallbackInv
  <2>1. Callback!Idle \in Callback!Job
    BY DEF Callback!Idle, Callback!Job, Callback!Statuses
  <2>2. callbackJobs \in [Callback!Workers -> Callback!Job]
    BY <1>1, <2>1 DEF Callback!Init
  <2>3. attempts \in 0..MaxAttempts /\ returns \in 0..MaxReturns /\ faults \in 0..MaxFaults
    BY <1>1 DEF Callback!Init, Callback!CallbacksAssumption
  <2>4. Callback!TypeOK
    BY <1>1, <2>2, <2>3 DEF Callback!Init, Callback!TypeOK, Callback!Statuses
  <2>5. told = {} /\ delivered = FALSE /\ \A w \in Senders : callbackJobs[w].pc = "idle"
    BY <1>1 DEF Callback!Init, Callback!Idle, Callback!Workers, Senders
  <2> QED
    BY <2>4, <2>5 DEF CallbackInv
<1>2. CallbackInv => ToldAsItEnded
  BY DEF CallbackInv, ToldAsItEnded, Callback!ToldAsItEnded
<1>3. CallbackInv /\ [Callback!Next]_Callback!vars => CallbackInv'
  BY CallbackStep
<1> QED
  BY <1>1, <1>2, <1>3, PTL DEF Callback!Spec

-----------------------------------------------------------------------------
(* Settings *)

\* Past its read a call holds a copy of the settings; a change has room for a
\* version, and what it is about to save is one of the patched settings.
SettingInv ==
  /\ Setting!TypeOK
  /\ \A c \in Readers \cup Admins :
       calls[c].pc \in {"keep", "cache", "patch", "save", "record"}
         => calls[c].copy \in Setting!Snapshots
  /\ \A a \in Admins :
       /\ calls[a].pc \in {"keep", "patch"} => calls[a].copy.version < MaxVersion
       /\ calls[a].pc = "save" => calls[a].key \in Setting!Patched

\* Writing one setting leaves a snapshot, and its other settings as they were.
LEMMA WrittenSnapshot ==
  ASSUME NEW s \in Setting!Snapshots, NEW k \in Setting!Keys, NEW x \in Setting!Values,
         NEW v \in Setting!Versions
  PROVE  /\ Setting!Written(s, k, x, v) \in Setting!Snapshots
         /\ \A z \in Setting!Keys \ {k} : Setting!Written(s, k, x, v).values[z] = s.values[z]
  BY DEF Setting!Written, Setting!Snapshots

\* A record in the history changes nothing but the history, which keeps its type.
LEMMA RecordedVersion ==
  ASSUME NEW copy \in Setting!Snapshots, Setting!TypeOK, Setting!RecordConfigVersion(copy)
  PROVE  history' \in [Setting!Versions -> Setting!Snapshots \cup {NoSnapshot}]
  BY DEF Setting!TypeOK, Setting!RecordConfigVersion, Setting!Snapshots

LEMMA SettingStep ==
  Setting!SettingsAssumption /\ SettingInv /\ [Setting!Next]_Setting!vars => SettingInv'
<1> SUFFICES ASSUME Setting!SettingsAssumption, SettingInv, [Setting!Next]_Setting!vars
             PROVE  SettingInv'
  OBVIOUS
<1> USE DEF SettingInv, Setting!SettingsAssumption, Setting!TypeOK, Setting!Callers, Setting!Call,
            Setting!Idle, Setting!At, Setting!GoTo, Setting!Return
<1>1. ASSUME NEW r \in Readers, Setting!CacheMissed(r)
      PROVE  SettingInv'
  BY <1>1 DEF Setting!CacheMissed
<1>2. ASSUME NEW r \in Readers, Setting!FillCache(r)
      PROVE  SettingInv'
  BY <1>2 DEF Setting!FillCache, Setting!CacheSet, Setting!Keys, Setting!Patched
<1>3. ASSUME NEW c \in Readers \cup Admins, Setting!EnsureConfig(c)
      PROVE  SettingInv'
  BY <1>3 DEF Setting!EnsureConfig
<1>4. ASSUME NEW c \in Readers \cup Admins, Setting!KeepVersion(c)
      PROVE  SettingInv'
  BY <1>4, RecordedVersion DEF Setting!KeepVersion
<1>5. ASSUME NEW a \in Admins, Setting!Patch(a)
      PROVE  SettingInv'
  <2>1. /\ calls[a].pc = "patch" /\ calls[a].copy \in Setting!Snapshots
        /\ calls[a].copy.version + 1 \in Setting!Versions
    BY <1>5 DEF Setting!Patch, Setting!Snapshots, Setting!Versions
  <2>2. UNCHANGED <<config, history, cache, cacheDies>>
    BY <1>5 DEF Setting!Patch
  <2>3. CASE calls' = [calls EXCEPT ![a].pc = "invalidate"]
    BY <2>1, <2>2, <2>3
  <2>4. CASE \E k \in Setting!Patched, x \in Setting!Values :
               calls' = [calls EXCEPT ![a] =
                 [pc |-> "save",
                  copy |-> Setting!Written(calls[a].copy, k, x, calls[a].copy.version + 1),
                  key |-> k]]
    <3>1. PICK k \in Setting!Patched, x \in Setting!Values :
            calls' = [calls EXCEPT ![a] =
              [pc |-> "save",
               copy |-> Setting!Written(calls[a].copy, k, x, calls[a].copy.version + 1),
               key |-> k]]
      BY <2>4
    <3>2. Setting!Written(calls[a].copy, k, x, calls[a].copy.version + 1) \in Setting!Snapshots
          /\ k \in Setting!Keys
      BY <2>1, WrittenSnapshot DEF Setting!Keys
    <3> QED
      BY <2>2, <3>1, <3>2
  <2> QED
    BY <1>5, <2>3, <2>4 DEF Setting!Patch
<1>6. ASSUME NEW a \in Admins, Setting!Save(a)
      PROVE  SettingInv'
  BY <1>6, WrittenSnapshot DEF Setting!Save, Setting!Snapshots, Setting!Keys, Setting!Patched
<1>7. ASSUME NEW a \in Admins, Setting!RecordSaved(a)
      PROVE  SettingInv'
  BY <1>7, RecordedVersion DEF Setting!RecordSaved
<1>8. ASSUME NEW a \in Admins, Setting!ChangeAddresses(a)
      PROVE  SettingInv'
  <2>1. PICK x \in Setting!Values :
          config' = Setting!Written(config, "addresses", x, config.version + 1)
    BY <1>8 DEF Setting!ChangeAddresses
  <2>2. "addresses" \in Setting!Keys /\ config.version + 1 \in Setting!Versions
    BY <1>8 DEF Setting!ChangeAddresses, Setting!Snapshots, Setting!Versions, Setting!Keys
  <2>3. config' \in Setting!Snapshots
    BY <2>1, <2>2, WrittenSnapshot
  <2>4. calls' = [calls EXCEPT ![a].pc = "invalidate"] /\ UNCHANGED <<history, cache, cacheDies>>
    BY <1>8 DEF Setting!ChangeAddresses
  <2> QED
    BY <2>3, <2>4
<1>9. ASSUME NEW a \in Admins, Setting!InvalidateConfigCache(a)
      PROVE  SettingInv'
  BY <1>9 DEF Setting!InvalidateConfigCache, Setting!Keys, Setting!Patched
<1>10. CASE Setting!CacheExpires
  BY <1>10 DEF Setting!CacheExpires
<1>11. CASE UNCHANGED Setting!vars
  BY <1>11 DEF Setting!vars
<1> QED
  BY <1>1, <1>2, <1>3, <1>4, <1>5, <1>6, <1>7, <1>8, <1>9, <1>10, <1>11 DEF Setting!Next

\* What a step may do to the settings.
OneSettingChanges ==
  \A k \in Setting!Keys : config'.values[k] # config.values[k] =>
    \E a \in Admins : calls'[a] # calls[a] /\
      IF k = "addresses" THEN Setting!At(a, "idle")
      ELSE Setting!At(a, "save") /\ calls[a].key = k

LEMMA ChangesAreOwn ==
  Setting!SettingsAssumption /\ SettingInv /\ [Setting!Next]_Setting!vars => OneSettingChanges
<1> SUFFICES ASSUME Setting!SettingsAssumption, SettingInv, [Setting!Next]_Setting!vars,
                    NEW k \in Setting!Keys, config'.values[k] # config.values[k]
             PROVE  \E a \in Admins : calls'[a] # calls[a] /\
                      IF k = "addresses" THEN Setting!At(a, "idle")
                      ELSE Setting!At(a, "save") /\ calls[a].key = k
  BY DEF OneSettingChanges
<1>1. \E a \in Admins : Setting!Save(a) \/ Setting!ChangeAddresses(a)
  BY DEF Setting!Next, Setting!vars, Setting!CacheMissed, Setting!FillCache, Setting!EnsureConfig,
         Setting!KeepVersion, Setting!Patch, Setting!RecordSaved, Setting!InvalidateConfigCache,
         Setting!CacheExpires
<1>2. PICK a \in Admins : Setting!Save(a) \/ Setting!ChangeAddresses(a)
  BY <1>1
<1>3. calls \in [Readers \cup Admins -> Setting!Call] /\ config \in Setting!Snapshots
  BY DEF SettingInv, Setting!TypeOK, Setting!Callers
<1>4. CASE Setting!Save(a)
  <2>1. Setting!At(a, "save") /\ calls' = [calls EXCEPT ![a].pc = "record"]
        /\ calls[a].copy \in Setting!Snapshots /\ calls[a].key \in Setting!Patched
        /\ config' = Setting!Written(config, calls[a].key, calls[a].copy.values[calls[a].key],
                                     calls[a].copy.version)
    BY <1>4 DEF Setting!Save, Setting!GoTo, SettingInv, Setting!At
  <2>2. /\ calls[a].key \in Setting!Keys
        /\ calls[a].copy.values[calls[a].key] \in Setting!Values
        /\ calls[a].copy.version \in Setting!Versions
    BY <2>1 DEF Setting!Snapshots, Setting!Keys
  <2>3. calls[a].key = k
    BY ONLY <2>1, <2>2, <1>3, WrittenSnapshot, k \in Setting!Keys,
            config'.values[k] # config.values[k]
  <2>4. k # "addresses"
    BY <2>1, <2>3 DEF Setting!Patched
  <2>5. calls'[a] # calls[a]
    BY <2>1, <1>3 DEF Setting!At, Setting!Call
  <2> QED
    BY <2>1, <2>3, <2>4, <2>5
<1>5. CASE Setting!ChangeAddresses(a)
  <2>1. Setting!At(a, "idle") /\ calls' = [calls EXCEPT ![a].pc = "invalidate"]
        /\ config.version + 1 \in Setting!Versions
        /\ \E x \in Setting!Values :
             config' = Setting!Written(config, "addresses", x, config.version + 1)
    BY <1>5, <1>3 DEF Setting!ChangeAddresses, Setting!GoTo, Setting!SettingsAssumption,
                      Setting!Snapshots, Setting!Versions
  <2>2. "addresses" \in Setting!Keys
    BY DEF Setting!Keys
  <2>3. k = "addresses"
    BY ONLY <2>1, <2>2, <1>3, WrittenSnapshot, k \in Setting!Keys,
            config'.values[k] # config.values[k]
  <2>4. calls'[a] # calls[a]
    BY <2>1, <1>3 DEF Setting!At, Setting!Call
  <2> QED
    BY <2>1, <2>3, <2>4
<1> QED
  BY <1>2, <1>4, <1>5

\* For any number of administrators and readers, and of versions: no change undoes
\* another one, however old the copy it was computed from.
THEOREM ChangesAreKept == Setting!SettingsAssumption /\ Setting!Spec => NoLostUpdate
<1> SUFFICES ASSUME Setting!SettingsAssumption
             PROVE  Setting!Spec => NoLostUpdate
  OBVIOUS
<1>1. ASSUME Setting!Init
      PROVE  SettingInv
  <2>1. config \in Setting!Snapshots
    BY <1>1 DEF Setting!Init, Setting!SettingsAssumption, Setting!Snapshots, Setting!Versions,
                Setting!Values
  <2>2. history \in [Setting!Versions -> Setting!Snapshots \cup {NoSnapshot}]
    BY <1>1, <2>1 DEF Setting!Init
  <2>3. calls \in [Readers \cup Admins -> Setting!Call]
        /\ \A c \in Readers \cup Admins : calls[c].pc = "idle"
    BY <1>1 DEF Setting!Init, Setting!Callers, Setting!Call, Setting!Idle, Setting!Keys,
                Setting!Patched
  <2> QED
    BY <1>1, <2>1, <2>2, <2>3 DEF Setting!Init, SettingInv, Setting!TypeOK, Setting!Callers
<1>2. SettingInv /\ [Setting!Next]_Setting!vars => SettingInv'
  BY SettingStep
<1>3. SettingInv /\ [Setting!Next]_Setting!vars => OneSettingChanges
  BY ChangesAreOwn
<1>4. Setting!Spec => [][OneSettingChanges]_Setting!vars
  BY <1>1, <1>2, <1>3, PTL DEF Setting!Spec
<1> QED
  BY <1>4 DEF NoLostUpdate, Setting!NoLostUpdate, OneSettingChanges

-----------------------------------------------------------------------------
(* Captains who apply *)

Stage(w) == registrationJobs[w].pc
Applicant(w) == registrationJobs[w].a

\* A handler that has claimed an approval and is not done with it.
ApprovalStages == {"create", "profile", "remove", "undo"}
Approves(w) == Stage(w) \in ApprovalStages

ApplicantIsKnown(w) ==
  IF Stage(w) = "idle" THEN Applicant(w) = Nobody ELSE Applicant(w) \in Applications

\* One handler at most inserts an application.
InsertsAlone(w) == Stage(w) = "insert" =>
  /\ registration[Applicant(w)] = "ABSENT"
  /\ \A v \in Handlers : Applicant(v) = Applicant(w) => v = w

\* One at most approves it.  Until it is done the application is APPROVED and has
\* no captain, and the account is the applicant's just between the account and
\* the captain, where there are no transactions.
ApprovesAlone(w) == Approves(w) =>
  /\ registration[Applicant(w)] = "APPROVED" /\ captains[Applicant(w)] = 0
  /\ \A v \in Handlers : Approves(v) /\ Applicant(v) = Applicant(w) => v = w
  /\ IF Stage(w) \in {"profile", "remove"}
     THEN account = Applicant(w) /\ ~useTransactions
     ELSE account # Applicant(w)

AccountIsApproved == account \in Applications => registration[account] = "APPROVED"

\* Whoever made the captain of an application is done with it.
CaptainIsWhole(a) == captains[a] = 1 =>
  /\ account = a /\ registration[a] = "APPROVED"
  /\ \A w \in Handlers : Approves(w) => Applicant(w) # a

RegistrationInv ==
  /\ Applying!TypeOK
  /\ \A w \in Handlers : ApplicantIsKnown(w) /\ InsertsAlone(w) /\ ApprovesAlone(w)
  /\ AccountIsApproved
  /\ \A a \in Applications : CaptainIsWhole(a)
  /\ AccountsAreWhole /\ ApprovalIsBacked

\* A handler goes on, or is done.
LEMMA HandlerGoesOn ==
  ASSUME NEW w \in Handlers, NEW pc \in Applying!Pcs,
         registrationJobs \in [Handlers -> Applying!Job], Applying!GoTo(w, pc)
  PROVE  /\ registrationJobs' \in [Handlers -> Applying!Job]
         /\ \A v \in Handlers \ {w} : Stage(v)' = Stage(v) /\ Applicant(v)' = Applicant(v)
         /\ Stage(w)' = pc /\ Applicant(w)' = Applicant(w)
  BY DEF Applying!GoTo, Applying!Job, Applicant, Stage

LEMMA HandlerIsDone ==
  ASSUME NEW w \in Handlers,
         registrationJobs \in [Handlers -> Applying!Job], Applying!EndJob(w)
  PROVE  /\ registrationJobs' \in [Handlers -> Applying!Job]
         /\ \A v \in Handlers \ {w} : Stage(v)' = Stage(v) /\ Applicant(v)' = Applicant(v)
         /\ Stage(w)' = "idle" /\ Applicant(w)' = Nobody
  BY DEF Applying!EndJob, Applying!Job, Applying!Idle, Applying!Pcs, Applicant, Stage

LEMMA HandlerBegins ==
  ASSUME NEW w \in Handlers, NEW pc \in Applying!Pcs, NEW a \in Applications,
         registrationJobs \in [Handlers -> Applying!Job], Applying!Begin(w, pc, a)
  PROVE  /\ registrationJobs' \in [Handlers -> Applying!Job]
         /\ \A v \in Handlers \ {w} : Stage(v)' = Stage(v) /\ Applicant(v)' = Applicant(v)
         /\ Stage(w) = "idle" /\ Stage(w)' = pc /\ Applicant(w)' = a
  BY DEF Applying!Begin, Applying!At, Applying!Job, Applicant, Stage

LEMMA RegisterKeeps ==
  ASSUME Applying!RegistrationAssumption, RegistrationInv,
         NEW w \in Handlers, NEW a \in Applications, Applying!Register(w, a)
  PROVE  RegistrationInv'
<1> USE DEF Stage, Applicant, Approves, ApprovalStages, Applying!TypeOK
<1>0. registrationJobs \in [Handlers -> Applying!Job]
  BY DEF RegistrationInv
<1>1. /\ registrationJobs' \in [Handlers -> Applying!Job]
      /\ \A v \in Handlers \ {w} : Stage(v)' = Stage(v) /\ Applicant(v)' = Applicant(v)
      /\ Stage(w)' = "insert" /\ Applicant(w)' = a
  BY <1>0, HandlerBegins DEF Applying!Register, Applying!Pcs
<1>2. /\ Stage(w) = "idle"
      /\ registration[a] = "ABSENT"
      /\ \A v \in Handlers : Applicant(v) # a
      /\ UNCHANGED <<useTransactions, registration, code, account, captains,
                     undoRefused, registrationCrashes>>
  BY <1>0 DEF Applying!Register, Applying!App, Applying!Begin, Applying!accountVars, Applying!At
<1>3. Applying!TypeOK'
  BY <1>1, <1>2 DEF RegistrationInv, Applying!Statuses
<1>4. \A v \in Handlers : ApplicantIsKnown(v)'
  BY <1>1, <1>2 DEF RegistrationInv, ApplicantIsKnown
<1>5. \A v \in Handlers : InsertsAlone(v)'
  BY <1>1, <1>2
  DEF RegistrationInv, ApplicantIsKnown, InsertsAlone, ApprovesAlone,
      Applying!RegistrationAssumption
<1>6. \A v \in Handlers : ApprovesAlone(v)'
  BY <1>1, <1>2
  DEF RegistrationInv, ApplicantIsKnown, ApprovesAlone, AccountIsApproved, CaptainIsWhole,
      Applying!RegistrationAssumption
<1>7. AccountIsApproved'
  BY <1>1, <1>2
  DEF RegistrationInv, AccountIsApproved, ApprovesAlone, Applying!RegistrationAssumption
<1>8. \A z \in Applications : CaptainIsWhole(z)'
  BY <1>1, <1>2
  DEF RegistrationInv, CaptainIsWhole, ApprovesAlone, Applying!RegistrationAssumption
<1>9. AccountsAreWhole'
  BY <1>1, <1>2, <1>7, <1>8
  DEF RegistrationInv, CaptainIsWhole, ApprovesAlone, AccountsAreWhole, Applying!AccountsAreWhole,
      Applying!Approving, Applying!App, Applying!RegistrationAssumption
<1>10. ApprovalIsBacked'
  BY <1>1, <1>2
  DEF RegistrationInv, ApprovesAlone, ApprovalIsBacked, Applying!ApprovalIsBacked,
      Applying!Approving, Applying!App, Applying!RegistrationAssumption
<1> QED
  BY <1>3, <1>4, <1>5, <1>6, <1>7, <1>8, <1>9, <1>10 DEF RegistrationInv

LEMMA InsertApplicationKeeps ==
  ASSUME Applying!RegistrationAssumption, RegistrationInv,
         NEW w \in Handlers, Applying!InsertApplication(w)
  PROVE  RegistrationInv'
<1> USE DEF Stage, Applicant, Approves, ApprovalStages, Applying!TypeOK
<1>0. registrationJobs \in [Handlers -> Applying!Job]
  BY DEF RegistrationInv
<1>1. CASE Applying!IndexAllows(Applicant(w))
  <2>1. /\ registrationJobs' \in [Handlers -> Applying!Job]
        /\ \A v \in Handlers \ {w} : Stage(v)' = Stage(v) /\ Applicant(v)' = Applicant(v)
        /\ Stage(w)' = "issue" /\ Applicant(w)' = Applicant(w)
    BY <1>0, <1>1, HandlerGoesOn DEF Applying!InsertApplication, Applying!Pcs, Applying!App
  <2>2. /\ Stage(w) = "insert" /\ Applicant(w) \in Applications
        /\ registration[Applicant(w)] = "ABSENT"
        /\ registration' = [registration EXCEPT ![Applicant(w)] = "PENDING_EMAIL"]
        /\ UNCHANGED <<useTransactions, code, account, captains,
                       undoRefused, registrationCrashes>>
    BY <1>0, <1>1
    DEF Applying!InsertApplication, Applying!At, Applying!App, Applying!SetStatus,
        Applying!accountVars, RegistrationInv, ApplicantIsKnown, InsertsAlone
  <2>3. Applying!TypeOK'
    BY <2>1, <2>2 DEF RegistrationInv, Applying!Statuses
  <2>4. \A v \in Handlers : ApplicantIsKnown(v)'
    BY <2>1, <2>2 DEF RegistrationInv, ApplicantIsKnown
  <2>5. \A v \in Handlers : InsertsAlone(v)'
    BY <2>1, <2>2
    DEF RegistrationInv, ApplicantIsKnown, InsertsAlone, ApprovesAlone,
        Applying!RegistrationAssumption
  <2>6. \A v \in Handlers : ApprovesAlone(v)'
    BY <2>1, <2>2
    DEF RegistrationInv, ApplicantIsKnown, ApprovesAlone, AccountIsApproved, CaptainIsWhole,
        Applying!RegistrationAssumption
  <2>7. AccountIsApproved'
    BY <2>1, <2>2
    DEF RegistrationInv, AccountIsApproved, ApprovesAlone, Applying!RegistrationAssumption
  <2>8. \A z \in Applications : CaptainIsWhole(z)'
    BY <2>1, <2>2
    DEF RegistrationInv, CaptainIsWhole, ApprovesAlone, Applying!RegistrationAssumption
  <2>9. AccountsAreWhole'
    BY <2>1, <2>2, <2>7, <2>8
    DEF RegistrationInv, CaptainIsWhole, ApprovesAlone, AccountsAreWhole,
        Applying!AccountsAreWhole, Applying!Approving, Applying!App,
        Applying!RegistrationAssumption
  <2>10. ApprovalIsBacked'
    BY <2>1, <2>2
    DEF RegistrationInv, ApprovesAlone, ApprovalIsBacked, Applying!ApprovalIsBacked,
        Applying!Approving, Applying!App, Applying!RegistrationAssumption
  <2> QED
    BY <2>3, <2>4, <2>5, <2>6, <2>7, <2>8, <2>9, <2>10 DEF RegistrationInv
<1>2. CASE ~Applying!IndexAllows(Applicant(w))
  <2>1. /\ registrationJobs' \in [Handlers -> Applying!Job]
        /\ \A v \in Handlers \ {w} : Stage(v)' = Stage(v) /\ Applicant(v)' = Applicant(v)
        /\ Stage(w)' = "idle" /\ Applicant(w)' = Nobody
    BY <1>0, <1>2, HandlerIsDone DEF Applying!InsertApplication, Applying!Pcs, Applying!App
  <2>2. /\ Stage(w) = "insert" /\ Applicant(w) \in Applications
        /\ UNCHANGED <<useTransactions, registration, code, account, captains,
                       undoRefused, registrationCrashes>>
    BY <1>0, <1>2
    DEF Applying!InsertApplication, Applying!At, Applying!App, Applying!SetStatus,
        Applying!accountVars, RegistrationInv, ApplicantIsKnown, InsertsAlone
  <2>3. Applying!TypeOK'
    BY <2>1, <2>2 DEF RegistrationInv, Applying!Statuses
  <2>4. \A v \in Handlers : ApplicantIsKnown(v)'
    BY <2>1, <2>2 DEF RegistrationInv, ApplicantIsKnown
  <2>5. \A v \in Handlers : InsertsAlone(v)'
    BY <2>1, <2>2
    DEF RegistrationInv, ApplicantIsKnown, InsertsAlone, ApprovesAlone,
        Applying!RegistrationAssumption
  <2>6. \A v \in Handlers : ApprovesAlone(v)'
    BY <2>1, <2>2
    DEF RegistrationInv, ApplicantIsKnown, ApprovesAlone, AccountIsApproved, CaptainIsWhole,
        Applying!RegistrationAssumption
  <2>7. AccountIsApproved'
    BY <2>1, <2>2
    DEF RegistrationInv, AccountIsApproved, ApprovesAlone, Applying!RegistrationAssumption
  <2>8. \A z \in Applications : CaptainIsWhole(z)'
    BY <2>1, <2>2
    DEF RegistrationInv, CaptainIsWhole, ApprovesAlone, Applying!RegistrationAssumption
  <2>9. AccountsAreWhole'
    BY <2>1, <2>2, <2>7, <2>8
    DEF RegistrationInv, CaptainIsWhole, ApprovesAlone, AccountsAreWhole,
        Applying!AccountsAreWhole, Applying!Approving, Applying!App,
        Applying!RegistrationAssumption
  <2>10. ApprovalIsBacked'
    BY <2>1, <2>2
    DEF RegistrationInv, ApprovesAlone, ApprovalIsBacked, Applying!ApprovalIsBacked,
        Applying!Approving, Applying!App, Applying!RegistrationAssumption
  <2> QED
    BY <2>3, <2>4, <2>5, <2>6, <2>7, <2>8, <2>9, <2>10 DEF RegistrationInv
<1> QED
  BY <1>1, <1>2 DEF Applying!InsertApplication

LEMMA IssueCodeKeeps ==
  ASSUME Applying!RegistrationAssumption, RegistrationInv,
         NEW w \in Handlers, Applying!IssueCode(w)
  PROVE  RegistrationInv'
<1> USE DEF Stage, Applicant, Approves, ApprovalStages, Applying!TypeOK
<1>0. registrationJobs \in [Handlers -> Applying!Job]
  BY DEF RegistrationInv
<1>1. /\ registrationJobs' \in [Handlers -> Applying!Job]
      /\ \A v \in Handlers \ {w} : Stage(v)' = Stage(v) /\ Applicant(v)' = Applicant(v)
      /\ Stage(w)' = "idle" /\ Applicant(w)' = Nobody
  BY <1>0, HandlerIsDone DEF Applying!IssueCode, Applying!Pcs, Applying!App
<1>2. /\ Stage(w) = "issue" /\ Applicant(w) \in Applications
      /\ code' \in [Applications -> {"NONE", "LIVE", "CONSUMED"}]
      /\ UNCHANGED <<useTransactions, registration, account, captains,
                     undoRefused, registrationCrashes>>
  BY <1>0
  DEF Applying!IssueCode, Applying!At, Applying!App, Applying!accountVars, RegistrationInv,
      ApplicantIsKnown
<1>3. Applying!TypeOK'
  BY <1>1, <1>2 DEF RegistrationInv, Applying!Statuses
<1>4. \A v \in Handlers : ApplicantIsKnown(v)'
  BY <1>1, <1>2 DEF RegistrationInv, ApplicantIsKnown
<1>5. \A v \in Handlers : InsertsAlone(v)'
  BY <1>1, <1>2
  DEF RegistrationInv, ApplicantIsKnown, InsertsAlone, ApprovesAlone,
      Applying!RegistrationAssumption
<1>6. \A v \in Handlers : ApprovesAlone(v)'
  BY <1>1, <1>2
  DEF RegistrationInv, ApplicantIsKnown, ApprovesAlone, AccountIsApproved, CaptainIsWhole,
      Applying!RegistrationAssumption
<1>7. AccountIsApproved'
  BY <1>1, <1>2
  DEF RegistrationInv, AccountIsApproved, ApprovesAlone, Applying!RegistrationAssumption
<1>8. \A z \in Applications : CaptainIsWhole(z)'
  BY <1>1, <1>2
  DEF RegistrationInv, CaptainIsWhole, ApprovesAlone, Applying!RegistrationAssumption
<1>9. AccountsAreWhole'
  BY <1>1, <1>2, <1>7, <1>8
  DEF RegistrationInv, CaptainIsWhole, ApprovesAlone, AccountsAreWhole, Applying!AccountsAreWhole,
      Applying!Approving, Applying!App, Applying!RegistrationAssumption
<1>10. ApprovalIsBacked'
  BY <1>1, <1>2
  DEF RegistrationInv, ApprovesAlone, ApprovalIsBacked, Applying!ApprovalIsBacked,
      Applying!Approving, Applying!App, Applying!RegistrationAssumption
<1> QED
  BY <1>3, <1>4, <1>5, <1>6, <1>7, <1>8, <1>9, <1>10 DEF RegistrationInv

LEMMA VerifyReadKeeps ==
  ASSUME Applying!RegistrationAssumption, RegistrationInv,
         NEW w \in Handlers, NEW a \in Applications, Applying!VerifyRead(w, a)
  PROVE  RegistrationInv'
<1> USE DEF Stage, Applicant, Approves, ApprovalStages, Applying!TypeOK
<1>0. registrationJobs \in [Handlers -> Applying!Job]
  BY DEF RegistrationInv
<1>1. /\ registrationJobs' \in [Handlers -> Applying!Job]
      /\ \A v \in Handlers \ {w} : Stage(v)' = Stage(v) /\ Applicant(v)' = Applicant(v)
      /\ Stage(w)' = "consume" /\ Applicant(w)' = a
  BY <1>0, HandlerBegins DEF Applying!VerifyRead, Applying!Pcs
<1>2. /\ Stage(w) = "idle"
      /\ registration[a] = "PENDING_EMAIL"
      /\ UNCHANGED <<useTransactions, registration, code, account, captains,
                     undoRefused, registrationCrashes>>
  BY <1>0 DEF Applying!VerifyRead, Applying!Begin, Applying!accountVars, Applying!At
<1>3. Applying!TypeOK'
  BY <1>1, <1>2 DEF RegistrationInv, Applying!Statuses
<1>4. \A v \in Handlers : ApplicantIsKnown(v)'
  BY <1>1, <1>2 DEF RegistrationInv, ApplicantIsKnown
<1>5. \A v \in Handlers : InsertsAlone(v)'
  BY <1>1, <1>2
  DEF RegistrationInv, ApplicantIsKnown, InsertsAlone, ApprovesAlone,
      Applying!RegistrationAssumption
<1>6. \A v \in Handlers : ApprovesAlone(v)'
  BY <1>1, <1>2
  DEF RegistrationInv, ApplicantIsKnown, ApprovesAlone, AccountIsApproved, CaptainIsWhole,
      Applying!RegistrationAssumption
<1>7. AccountIsApproved'
  BY <1>1, <1>2
  DEF RegistrationInv, AccountIsApproved, ApprovesAlone, Applying!RegistrationAssumption
<1>8. \A z \in Applications : CaptainIsWhole(z)'
  BY <1>1, <1>2
  DEF RegistrationInv, CaptainIsWhole, ApprovesAlone, Applying!RegistrationAssumption
<1>9. AccountsAreWhole'
  BY <1>1, <1>2, <1>7, <1>8
  DEF RegistrationInv, CaptainIsWhole, ApprovesAlone, AccountsAreWhole, Applying!AccountsAreWhole,
      Applying!Approving, Applying!App, Applying!RegistrationAssumption
<1>10. ApprovalIsBacked'
  BY <1>1, <1>2
  DEF RegistrationInv, ApprovesAlone, ApprovalIsBacked, Applying!ApprovalIsBacked,
      Applying!Approving, Applying!App, Applying!RegistrationAssumption
<1> QED
  BY <1>3, <1>4, <1>5, <1>6, <1>7, <1>8, <1>9, <1>10 DEF RegistrationInv

LEMMA ConsumeCodeKeeps ==
  ASSUME Applying!RegistrationAssumption, RegistrationInv,
         NEW w \in Handlers, Applying!ConsumeCode(w)
  PROVE  RegistrationInv'
<1> USE DEF Stage, Applicant, Approves, ApprovalStages, Applying!TypeOK
<1>0. registrationJobs \in [Handlers -> Applying!Job]
  BY DEF RegistrationInv
<1>1. CASE code[Applicant(w)] = "LIVE"
  <2>1. /\ registrationJobs' \in [Handlers -> Applying!Job]
        /\ \A v \in Handlers \ {w} : Stage(v)' = Stage(v) /\ Applicant(v)' = Applicant(v)
        /\ Stage(w)' = "move" /\ Applicant(w)' = Applicant(w)
    BY <1>0, <1>1, HandlerGoesOn DEF Applying!ConsumeCode, Applying!Pcs, Applying!App
  <2>2. /\ Stage(w) = "consume" /\ Applicant(w) \in Applications
        /\ code' \in [Applications -> {"NONE", "LIVE", "CONSUMED"}]
        /\ UNCHANGED <<useTransactions, registration, account, captains,
                       undoRefused, registrationCrashes>>
    BY <1>0, <1>1
    DEF Applying!ConsumeCode, Applying!At, Applying!App, Applying!accountVars, RegistrationInv,
        ApplicantIsKnown
  <2>3. Applying!TypeOK'
    BY <2>1, <2>2 DEF RegistrationInv, Applying!Statuses
  <2>4. \A v \in Handlers : ApplicantIsKnown(v)'
    BY <2>1, <2>2 DEF RegistrationInv, ApplicantIsKnown
  <2>5. \A v \in Handlers : InsertsAlone(v)'
    BY <2>1, <2>2
    DEF RegistrationInv, ApplicantIsKnown, InsertsAlone, ApprovesAlone,
        Applying!RegistrationAssumption
  <2>6. \A v \in Handlers : ApprovesAlone(v)'
    BY <2>1, <2>2
    DEF RegistrationInv, ApplicantIsKnown, ApprovesAlone, AccountIsApproved, CaptainIsWhole,
        Applying!RegistrationAssumption
  <2>7. AccountIsApproved'
    BY <2>1, <2>2
    DEF RegistrationInv, AccountIsApproved, ApprovesAlone, Applying!RegistrationAssumption
  <2>8. \A z \in Applications : CaptainIsWhole(z)'
    BY <2>1, <2>2
    DEF RegistrationInv, CaptainIsWhole, ApprovesAlone, Applying!RegistrationAssumption
  <2>9. AccountsAreWhole'
    BY <2>1, <2>2, <2>7, <2>8
    DEF RegistrationInv, CaptainIsWhole, ApprovesAlone, AccountsAreWhole,
        Applying!AccountsAreWhole, Applying!Approving, Applying!App,
        Applying!RegistrationAssumption
  <2>10. ApprovalIsBacked'
    BY <2>1, <2>2
    DEF RegistrationInv, ApprovesAlone, ApprovalIsBacked, Applying!ApprovalIsBacked,
        Applying!Approving, Applying!App, Applying!RegistrationAssumption
  <2> QED
    BY <2>3, <2>4, <2>5, <2>6, <2>7, <2>8, <2>9, <2>10 DEF RegistrationInv
<1>2. CASE code[Applicant(w)] # "LIVE"
  <2>1. /\ registrationJobs' \in [Handlers -> Applying!Job]
        /\ \A v \in Handlers \ {w} : Stage(v)' = Stage(v) /\ Applicant(v)' = Applicant(v)
        /\ Stage(w)' = "idle" /\ Applicant(w)' = Nobody
    BY <1>0, <1>2, HandlerIsDone DEF Applying!ConsumeCode, Applying!Pcs, Applying!App
  <2>2. /\ Stage(w) = "consume" /\ Applicant(w) \in Applications
        /\ UNCHANGED <<useTransactions, registration, code, account, captains,
                       undoRefused, registrationCrashes>>
    BY <1>0, <1>2
    DEF Applying!ConsumeCode, Applying!At, Applying!App, Applying!accountVars, RegistrationInv,
        ApplicantIsKnown
  <2>3. Applying!TypeOK'
    BY <2>1, <2>2 DEF RegistrationInv, Applying!Statuses
  <2>4. \A v \in Handlers : ApplicantIsKnown(v)'
    BY <2>1, <2>2 DEF RegistrationInv, ApplicantIsKnown
  <2>5. \A v \in Handlers : InsertsAlone(v)'
    BY <2>1, <2>2
    DEF RegistrationInv, ApplicantIsKnown, InsertsAlone, ApprovesAlone,
        Applying!RegistrationAssumption
  <2>6. \A v \in Handlers : ApprovesAlone(v)'
    BY <2>1, <2>2
    DEF RegistrationInv, ApplicantIsKnown, ApprovesAlone, AccountIsApproved, CaptainIsWhole,
        Applying!RegistrationAssumption
  <2>7. AccountIsApproved'
    BY <2>1, <2>2
    DEF RegistrationInv, AccountIsApproved, ApprovesAlone, Applying!RegistrationAssumption
  <2>8. \A z \in Applications : CaptainIsWhole(z)'
    BY <2>1, <2>2
    DEF RegistrationInv, CaptainIsWhole, ApprovesAlone, Applying!RegistrationAssumption
  <2>9. AccountsAreWhole'
    BY <2>1, <2>2, <2>7, <2>8
    DEF RegistrationInv, CaptainIsWhole, ApprovesAlone, AccountsAreWhole,
        Applying!AccountsAreWhole, Applying!Approving, Applying!App,
        Applying!RegistrationAssumption
  <2>10. ApprovalIsBacked'
    BY <2>1, <2>2
    DEF RegistrationInv, ApprovesAlone, ApprovalIsBacked, Applying!ApprovalIsBacked,
        Applying!Approving, Applying!App, Applying!RegistrationAssumption
  <2> QED
    BY <2>3, <2>4, <2>5, <2>6, <2>7, <2>8, <2>9, <2>10 DEF RegistrationInv
<1> QED
  BY <1>1, <1>2 DEF Applying!ConsumeCode

LEMMA MoveToApprovalKeeps ==
  ASSUME Applying!RegistrationAssumption, RegistrationInv,
         NEW w \in Handlers, Applying!MoveToApproval(w)
  PROVE  RegistrationInv'
<1> USE DEF Stage, Applicant, Approves, ApprovalStages, Applying!TypeOK
<1>0. registrationJobs \in [Handlers -> Applying!Job]
  BY DEF RegistrationInv
<1>1. /\ registrationJobs' \in [Handlers -> Applying!Job]
      /\ \A v \in Handlers \ {w} : Stage(v)' = Stage(v) /\ Applicant(v)' = Applicant(v)
      /\ Stage(w)' = "idle" /\ Applicant(w)' = Nobody
  BY <1>0, HandlerIsDone DEF Applying!MoveToApproval, Applying!Pcs, Applying!App
<1>2. /\ Stage(w) = "move" /\ Applicant(w) \in Applications
      /\ registration' = registration \/
             /\ registration[Applicant(w)] = "PENDING_EMAIL"
             /\ registration' = [registration EXCEPT ![Applicant(w)] = "PENDING_APPROVAL"]
      /\ UNCHANGED <<useTransactions, code, account, captains, undoRefused, registrationCrashes>>
  BY <1>0
  DEF Applying!MoveToApproval, Applying!At, Applying!App, Applying!SetStatus,
      Applying!accountVars, RegistrationInv, ApplicantIsKnown
<1>3. Applying!TypeOK'
  BY <1>1, <1>2 DEF RegistrationInv, Applying!Statuses
<1>4. \A v \in Handlers : ApplicantIsKnown(v)'
  BY <1>1, <1>2 DEF RegistrationInv, ApplicantIsKnown
<1>5. \A v \in Handlers : InsertsAlone(v)'
  BY <1>1, <1>2
  DEF RegistrationInv, ApplicantIsKnown, InsertsAlone, ApprovesAlone,
      Applying!RegistrationAssumption
<1>6. \A v \in Handlers : ApprovesAlone(v)'
  BY <1>1, <1>2
  DEF RegistrationInv, ApplicantIsKnown, ApprovesAlone, AccountIsApproved, CaptainIsWhole,
      Applying!RegistrationAssumption
<1>7. AccountIsApproved'
  BY <1>1, <1>2
  DEF RegistrationInv, AccountIsApproved, ApprovesAlone, Applying!RegistrationAssumption
<1>8. \A z \in Applications : CaptainIsWhole(z)'
  BY <1>1, <1>2
  DEF RegistrationInv, CaptainIsWhole, ApprovesAlone, Applying!RegistrationAssumption
<1>9. AccountsAreWhole'
  BY <1>1, <1>2, <1>7, <1>8
  DEF RegistrationInv, CaptainIsWhole, ApprovesAlone, AccountsAreWhole, Applying!AccountsAreWhole,
      Applying!Approving, Applying!App, Applying!RegistrationAssumption
<1>10. ApprovalIsBacked'
  BY <1>1, <1>2
  DEF RegistrationInv, ApprovesAlone, ApprovalIsBacked, Applying!ApprovalIsBacked,
      Applying!Approving, Applying!App, Applying!RegistrationAssumption
<1> QED
  BY <1>3, <1>4, <1>5, <1>6, <1>7, <1>8, <1>9, <1>10 DEF RegistrationInv

LEMMA ApproveReadKeeps ==
  ASSUME Applying!RegistrationAssumption, RegistrationInv,
         NEW w \in Handlers, NEW a \in Applications, Applying!ApproveRead(w, a)
  PROVE  RegistrationInv'
<1> USE DEF Stage, Applicant, Approves, ApprovalStages, Applying!TypeOK
<1>0. registrationJobs \in [Handlers -> Applying!Job]
  BY DEF RegistrationInv
<1>1. /\ registrationJobs' \in [Handlers -> Applying!Job]
      /\ \A v \in Handlers \ {w} : Stage(v)' = Stage(v) /\ Applicant(v)' = Applicant(v)
      /\ Stage(w)' = "clash" /\ Applicant(w)' = a
  BY <1>0, HandlerBegins DEF Applying!ApproveRead, Applying!Pcs
<1>2. /\ Stage(w) = "idle"
      /\ registration[a] = "PENDING_APPROVAL"
      /\ UNCHANGED <<useTransactions, registration, code, account, captains,
                     undoRefused, registrationCrashes>>
  BY <1>0 DEF Applying!ApproveRead, Applying!Begin, Applying!accountVars, Applying!At
<1>3. Applying!TypeOK'
  BY <1>1, <1>2 DEF RegistrationInv, Applying!Statuses
<1>4. \A v \in Handlers : ApplicantIsKnown(v)'
  BY <1>1, <1>2 DEF RegistrationInv, ApplicantIsKnown
<1>5. \A v \in Handlers : InsertsAlone(v)'
  BY <1>1, <1>2
  DEF RegistrationInv, ApplicantIsKnown, InsertsAlone, ApprovesAlone,
      Applying!RegistrationAssumption
<1>6. \A v \in Handlers : ApprovesAlone(v)'
  BY <1>1, <1>2
  DEF RegistrationInv, ApplicantIsKnown, ApprovesAlone, AccountIsApproved, CaptainIsWhole,
      Applying!RegistrationAssumption
<1>7. AccountIsApproved'
  BY <1>1, <1>2
  DEF RegistrationInv, AccountIsApproved, ApprovesAlone, Applying!RegistrationAssumption
<1>8. \A z \in Applications : CaptainIsWhole(z)'
  BY <1>1, <1>2
  DEF RegistrationInv, CaptainIsWhole, ApprovesAlone, Applying!RegistrationAssumption
<1>9. AccountsAreWhole'
  BY <1>1, <1>2, <1>7, <1>8
  DEF RegistrationInv, CaptainIsWhole, ApprovesAlone, AccountsAreWhole, Applying!AccountsAreWhole,
      Applying!Approving, Applying!App, Applying!RegistrationAssumption
<1>10. ApprovalIsBacked'
  BY <1>1, <1>2
  DEF RegistrationInv, ApprovesAlone, ApprovalIsBacked, Applying!ApprovalIsBacked,
      Applying!Approving, Applying!App, Applying!RegistrationAssumption
<1> QED
  BY <1>3, <1>4, <1>5, <1>6, <1>7, <1>8, <1>9, <1>10 DEF RegistrationInv

LEMMA LookForClashKeeps ==
  ASSUME Applying!RegistrationAssumption, RegistrationInv,
         NEW w \in Handlers, Applying!LookForClash(w)
  PROVE  RegistrationInv'
<1> USE DEF Stage, Applicant, Approves, ApprovalStages, Applying!TypeOK
<1>0. registrationJobs \in [Handlers -> Applying!Job]
  BY DEF RegistrationInv
<1>1. CASE account = Nobody
  <2>1. /\ registrationJobs' \in [Handlers -> Applying!Job]
        /\ \A v \in Handlers \ {w} : Stage(v)' = Stage(v) /\ Applicant(v)' = Applicant(v)
        /\ Stage(w)' = "claim" /\ Applicant(w)' = Applicant(w)
    BY <1>0, <1>1, HandlerGoesOn DEF Applying!LookForClash, Applying!Pcs, Applying!App
  <2>2. /\ Stage(w) = "clash" /\ Applicant(w) \in Applications
        /\ UNCHANGED <<useTransactions, registration, code, account, captains,
                       undoRefused, registrationCrashes>>
    BY <1>0, <1>1
    DEF Applying!LookForClash, Applying!At, Applying!accountVars, RegistrationInv,
        ApplicantIsKnown
  <2>3. Applying!TypeOK'
    BY <2>1, <2>2 DEF RegistrationInv, Applying!Statuses
  <2>4. \A v \in Handlers : ApplicantIsKnown(v)'
    BY <2>1, <2>2 DEF RegistrationInv, ApplicantIsKnown
  <2>5. \A v \in Handlers : InsertsAlone(v)'
    BY <2>1, <2>2
    DEF RegistrationInv, ApplicantIsKnown, InsertsAlone, ApprovesAlone,
        Applying!RegistrationAssumption
  <2>6. \A v \in Handlers : ApprovesAlone(v)'
    BY <2>1, <2>2
    DEF RegistrationInv, ApplicantIsKnown, ApprovesAlone, AccountIsApproved, CaptainIsWhole,
        Applying!RegistrationAssumption
  <2>7. AccountIsApproved'
    BY <2>1, <2>2
    DEF RegistrationInv, AccountIsApproved, ApprovesAlone, Applying!RegistrationAssumption
  <2>8. \A z \in Applications : CaptainIsWhole(z)'
    BY <2>1, <2>2
    DEF RegistrationInv, CaptainIsWhole, ApprovesAlone, Applying!RegistrationAssumption
  <2>9. AccountsAreWhole'
    BY <2>1, <2>2, <2>7, <2>8
    DEF RegistrationInv, CaptainIsWhole, ApprovesAlone, AccountsAreWhole,
        Applying!AccountsAreWhole, Applying!Approving, Applying!App,
        Applying!RegistrationAssumption
  <2>10. ApprovalIsBacked'
    BY <2>1, <2>2
    DEF RegistrationInv, ApprovesAlone, ApprovalIsBacked, Applying!ApprovalIsBacked,
        Applying!Approving, Applying!App, Applying!RegistrationAssumption
  <2> QED
    BY <2>3, <2>4, <2>5, <2>6, <2>7, <2>8, <2>9, <2>10 DEF RegistrationInv
<1>2. CASE account # Nobody
  <2>1. /\ registrationJobs' \in [Handlers -> Applying!Job]
        /\ \A v \in Handlers \ {w} : Stage(v)' = Stage(v) /\ Applicant(v)' = Applicant(v)
        /\ Stage(w)' = "idle" /\ Applicant(w)' = Nobody
    BY <1>0, <1>2, HandlerIsDone DEF Applying!LookForClash, Applying!Pcs, Applying!App
  <2>2. /\ Stage(w) = "clash" /\ Applicant(w) \in Applications
        /\ UNCHANGED <<useTransactions, registration, code, account, captains,
                       undoRefused, registrationCrashes>>
    BY <1>0, <1>2
    DEF Applying!LookForClash, Applying!At, Applying!accountVars, RegistrationInv,
        ApplicantIsKnown
  <2>3. Applying!TypeOK'
    BY <2>1, <2>2 DEF RegistrationInv, Applying!Statuses
  <2>4. \A v \in Handlers : ApplicantIsKnown(v)'
    BY <2>1, <2>2 DEF RegistrationInv, ApplicantIsKnown
  <2>5. \A v \in Handlers : InsertsAlone(v)'
    BY <2>1, <2>2
    DEF RegistrationInv, ApplicantIsKnown, InsertsAlone, ApprovesAlone,
        Applying!RegistrationAssumption
  <2>6. \A v \in Handlers : ApprovesAlone(v)'
    BY <2>1, <2>2
    DEF RegistrationInv, ApplicantIsKnown, ApprovesAlone, AccountIsApproved, CaptainIsWhole,
        Applying!RegistrationAssumption
  <2>7. AccountIsApproved'
    BY <2>1, <2>2
    DEF RegistrationInv, AccountIsApproved, ApprovesAlone, Applying!RegistrationAssumption
  <2>8. \A z \in Applications : CaptainIsWhole(z)'
    BY <2>1, <2>2
    DEF RegistrationInv, CaptainIsWhole, ApprovesAlone, Applying!RegistrationAssumption
  <2>9. AccountsAreWhole'
    BY <2>1, <2>2, <2>7, <2>8
    DEF RegistrationInv, CaptainIsWhole, ApprovesAlone, AccountsAreWhole,
        Applying!AccountsAreWhole, Applying!Approving, Applying!App,
        Applying!RegistrationAssumption
  <2>10. ApprovalIsBacked'
    BY <2>1, <2>2
    DEF RegistrationInv, ApprovesAlone, ApprovalIsBacked, Applying!ApprovalIsBacked,
        Applying!Approving, Applying!App, Applying!RegistrationAssumption
  <2> QED
    BY <2>3, <2>4, <2>5, <2>6, <2>7, <2>8, <2>9, <2>10 DEF RegistrationInv
<1> QED
  BY <1>1, <1>2 DEF Applying!LookForClash

LEMMA ClaimDecisionKeeps ==
  ASSUME Applying!RegistrationAssumption, RegistrationInv,
         NEW w \in Handlers, Applying!ClaimDecision(w)
  PROVE  RegistrationInv'
<1> USE DEF Stage, Applicant, Approves, ApprovalStages, Applying!TypeOK
<1>0. registrationJobs \in [Handlers -> Applying!Job]
  BY DEF RegistrationInv
<1>1. CASE registration[Applicant(w)] = "PENDING_APPROVAL"
  <2>1. /\ registrationJobs' \in [Handlers -> Applying!Job]
        /\ \A v \in Handlers \ {w} : Stage(v)' = Stage(v) /\ Applicant(v)' = Applicant(v)
        /\ Stage(w)' = "create" /\ Applicant(w)' = Applicant(w)
    BY <1>0, <1>1, HandlerGoesOn DEF Applying!ClaimDecision, Applying!Pcs, Applying!App
  <2>2. /\ Stage(w) = "claim" /\ Applicant(w) \in Applications
        /\ registration[Applicant(w)] = "PENDING_APPROVAL"
        /\ registration' = [registration EXCEPT ![Applicant(w)] = "APPROVED"]
        /\ UNCHANGED <<useTransactions, code, account, captains,
                       undoRefused, registrationCrashes>>
    BY <1>0, <1>1
    DEF Applying!ClaimDecision, Applying!At, Applying!App, Applying!SetStatus,
        Applying!accountVars, RegistrationInv, ApplicantIsKnown
  <2>3. Applying!TypeOK'
    BY <2>1, <2>2 DEF RegistrationInv, Applying!Statuses
  <2>4. \A v \in Handlers : ApplicantIsKnown(v)'
    BY <2>1, <2>2 DEF RegistrationInv, ApplicantIsKnown
  <2>5. \A v \in Handlers : InsertsAlone(v)'
    BY <2>1, <2>2
    DEF RegistrationInv, ApplicantIsKnown, InsertsAlone, ApprovesAlone,
        Applying!RegistrationAssumption
  <2>6. \A v \in Handlers : ApprovesAlone(v)'
    BY <2>1, <2>2
    DEF RegistrationInv, ApplicantIsKnown, ApprovesAlone, AccountIsApproved, CaptainIsWhole,
        Applying!RegistrationAssumption
  <2>7. AccountIsApproved'
    BY <2>1, <2>2
    DEF RegistrationInv, AccountIsApproved, ApprovesAlone, Applying!RegistrationAssumption
  <2>8. \A z \in Applications : CaptainIsWhole(z)'
    BY <2>1, <2>2
    DEF RegistrationInv, CaptainIsWhole, ApprovesAlone, Applying!RegistrationAssumption
  <2>9. AccountsAreWhole'
    BY <2>1, <2>2, <2>7, <2>8
    DEF RegistrationInv, CaptainIsWhole, ApprovesAlone, AccountsAreWhole,
        Applying!AccountsAreWhole, Applying!Approving, Applying!App,
        Applying!RegistrationAssumption
  <2>10. ApprovalIsBacked'
    BY <2>1, <2>2
    DEF RegistrationInv, ApprovesAlone, ApprovalIsBacked, Applying!ApprovalIsBacked,
        Applying!Approving, Applying!App, Applying!RegistrationAssumption
  <2> QED
    BY <2>3, <2>4, <2>5, <2>6, <2>7, <2>8, <2>9, <2>10 DEF RegistrationInv
<1>2. CASE registration[Applicant(w)] # "PENDING_APPROVAL"
  <2>1. /\ registrationJobs' \in [Handlers -> Applying!Job]
        /\ \A v \in Handlers \ {w} : Stage(v)' = Stage(v) /\ Applicant(v)' = Applicant(v)
        /\ Stage(w)' = "idle" /\ Applicant(w)' = Nobody
    BY <1>0, <1>2, HandlerIsDone DEF Applying!ClaimDecision, Applying!Pcs, Applying!App
  <2>2. /\ Stage(w) = "claim" /\ Applicant(w) \in Applications
        /\ UNCHANGED <<useTransactions, registration, code, account, captains,
                       undoRefused, registrationCrashes>>
    BY <1>0, <1>2
    DEF Applying!ClaimDecision, Applying!At, Applying!App, Applying!SetStatus,
        Applying!accountVars, RegistrationInv, ApplicantIsKnown
  <2>3. Applying!TypeOK'
    BY <2>1, <2>2 DEF RegistrationInv, Applying!Statuses
  <2>4. \A v \in Handlers : ApplicantIsKnown(v)'
    BY <2>1, <2>2 DEF RegistrationInv, ApplicantIsKnown
  <2>5. \A v \in Handlers : InsertsAlone(v)'
    BY <2>1, <2>2
    DEF RegistrationInv, ApplicantIsKnown, InsertsAlone, ApprovesAlone,
        Applying!RegistrationAssumption
  <2>6. \A v \in Handlers : ApprovesAlone(v)'
    BY <2>1, <2>2
    DEF RegistrationInv, ApplicantIsKnown, ApprovesAlone, AccountIsApproved, CaptainIsWhole,
        Applying!RegistrationAssumption
  <2>7. AccountIsApproved'
    BY <2>1, <2>2
    DEF RegistrationInv, AccountIsApproved, ApprovesAlone, Applying!RegistrationAssumption
  <2>8. \A z \in Applications : CaptainIsWhole(z)'
    BY <2>1, <2>2
    DEF RegistrationInv, CaptainIsWhole, ApprovesAlone, Applying!RegistrationAssumption
  <2>9. AccountsAreWhole'
    BY <2>1, <2>2, <2>7, <2>8
    DEF RegistrationInv, CaptainIsWhole, ApprovesAlone, AccountsAreWhole,
        Applying!AccountsAreWhole, Applying!Approving, Applying!App,
        Applying!RegistrationAssumption
  <2>10. ApprovalIsBacked'
    BY <2>1, <2>2
    DEF RegistrationInv, ApprovesAlone, ApprovalIsBacked, Applying!ApprovalIsBacked,
        Applying!Approving, Applying!App, Applying!RegistrationAssumption
  <2> QED
    BY <2>3, <2>4, <2>5, <2>6, <2>7, <2>8, <2>9, <2>10 DEF RegistrationInv
<1> QED
  BY <1>1, <1>2 DEF Applying!ClaimDecision

LEMMA CreateInTransactionKeeps ==
  ASSUME Applying!RegistrationAssumption, RegistrationInv,
         NEW w \in Handlers, Applying!CreateInTransaction(w)
  PROVE  RegistrationInv'
<1> USE DEF Stage, Applicant, Approves, ApprovalStages, Applying!TypeOK
<1>0. registrationJobs \in [Handlers -> Applying!Job]
  BY DEF RegistrationInv
<1>1. CASE /\ account = Nobody /\ account' = Applicant(w)
           /\ Applying!CaptainOf(Applicant(w)) /\ Applying!EndJob(w)
  <2>1. /\ registrationJobs' \in [Handlers -> Applying!Job]
        /\ \A v \in Handlers \ {w} : Stage(v)' = Stage(v) /\ Applicant(v)' = Applicant(v)
        /\ Stage(w)' = "idle" /\ Applicant(w)' = Nobody
    BY <1>0, <1>1, HandlerIsDone DEF Applying!CreateInTransaction, Applying!Pcs, Applying!App
  <2>2. /\ Stage(w) = "create" /\ Applicant(w) \in Applications
        /\ registration[Applicant(w)] = "APPROVED" /\ captains[Applicant(w)] = 0
    BY DEF Applying!CreateInTransaction, Applying!At, RegistrationInv, ApplicantIsKnown,
           ApprovesAlone
  <2>3. /\ account' = Applicant(w)
        /\ captains' = [captains EXCEPT ![Applicant(w)] = 1]
        /\ account = Nobody
        /\ UNCHANGED <<useTransactions, registration, code, undoRefused, registrationCrashes>>
    BY <1>0, <1>1, <2>2 DEF Applying!CreateInTransaction, Applying!App, Applying!CaptainOf
  <2>4. Applying!TypeOK'
    BY <2>1, <2>2, <2>3 DEF RegistrationInv, Applying!Statuses
  <2>5. \A v \in Handlers : ApplicantIsKnown(v)'
    BY <2>1, <2>2, <2>3 DEF RegistrationInv, ApplicantIsKnown
  <2>6. \A v \in Handlers : InsertsAlone(v)'
    BY <2>1, <2>2, <2>3
    DEF RegistrationInv, ApplicantIsKnown, InsertsAlone, ApprovesAlone,
        Applying!RegistrationAssumption
  <2>7. \A v \in Handlers : ApprovesAlone(v)'
    BY <2>1, <2>2, <2>3
    DEF RegistrationInv, ApplicantIsKnown, ApprovesAlone, AccountIsApproved, CaptainIsWhole,
        Applying!RegistrationAssumption
  <2>8. AccountIsApproved'
    BY <2>1, <2>2, <2>3
    DEF RegistrationInv, AccountIsApproved, ApprovesAlone, Applying!RegistrationAssumption
  <2>9. \A z \in Applications : CaptainIsWhole(z)'
    BY <2>1, <2>2, <2>3
    DEF RegistrationInv, CaptainIsWhole, ApprovesAlone, Applying!RegistrationAssumption
  <2>10. AccountsAreWhole'
    BY <2>1, <2>2, <2>3, <2>8, <2>9
    DEF RegistrationInv, CaptainIsWhole, ApprovesAlone, AccountsAreWhole,
        Applying!AccountsAreWhole, Applying!Approving, Applying!App,
        Applying!RegistrationAssumption
  <2>11. ApprovalIsBacked'
    BY <2>1, <2>2, <2>3
    DEF RegistrationInv, ApprovesAlone, ApprovalIsBacked, Applying!ApprovalIsBacked,
        Applying!Approving, Applying!App, Applying!RegistrationAssumption
  <2> QED
    BY <2>4, <2>5, <2>6, <2>7, <2>8, <2>9, <2>10, <2>11 DEF RegistrationInv
<1>2. CASE Applying!GoTo(w, "undo") /\ UNCHANGED <<account, captains>>
  <2>1. /\ registrationJobs' \in [Handlers -> Applying!Job]
        /\ \A v \in Handlers \ {w} : Stage(v)' = Stage(v) /\ Applicant(v)' = Applicant(v)
        /\ Stage(w)' = "undo" /\ Applicant(w)' = Applicant(w)
    BY <1>0, <1>2, HandlerGoesOn DEF Applying!CreateInTransaction, Applying!Pcs, Applying!App
  <2>2. /\ Stage(w) = "create" /\ Applicant(w) \in Applications
        /\ registration[Applicant(w)] = "APPROVED" /\ captains[Applicant(w)] = 0
    BY DEF Applying!CreateInTransaction, Applying!At, RegistrationInv, ApplicantIsKnown,
           ApprovesAlone
  <2>3. /\ useTransactions
        /\ UNCHANGED <<useTransactions, registration, code, account, captains,
                       undoRefused, registrationCrashes>>
    BY <1>0, <1>2, <2>2 DEF Applying!CreateInTransaction, Applying!App, Applying!CaptainOf
  <2>4. Applying!TypeOK'
    BY <2>1, <2>2, <2>3 DEF RegistrationInv, Applying!Statuses
  <2>5. \A v \in Handlers : ApplicantIsKnown(v)'
    BY <2>1, <2>2, <2>3 DEF RegistrationInv, ApplicantIsKnown
  <2>6. \A v \in Handlers : InsertsAlone(v)'
    BY <2>1, <2>2, <2>3
    DEF RegistrationInv, ApplicantIsKnown, InsertsAlone, ApprovesAlone,
        Applying!RegistrationAssumption
  <2>7. \A v \in Handlers : ApprovesAlone(v)'
    BY <2>1, <2>2, <2>3
    DEF RegistrationInv, ApplicantIsKnown, ApprovesAlone, AccountIsApproved, CaptainIsWhole,
        Applying!RegistrationAssumption
  <2>8. AccountIsApproved'
    BY <2>1, <2>2, <2>3
    DEF RegistrationInv, AccountIsApproved, ApprovesAlone, Applying!RegistrationAssumption
  <2>9. \A z \in Applications : CaptainIsWhole(z)'
    BY <2>1, <2>2, <2>3
    DEF RegistrationInv, CaptainIsWhole, ApprovesAlone, Applying!RegistrationAssumption
  <2>10. AccountsAreWhole'
    BY <2>1, <2>2, <2>3, <2>8, <2>9
    DEF RegistrationInv, CaptainIsWhole, ApprovesAlone, AccountsAreWhole,
        Applying!AccountsAreWhole, Applying!Approving, Applying!App,
        Applying!RegistrationAssumption
  <2>11. ApprovalIsBacked'
    BY <2>1, <2>2, <2>3
    DEF RegistrationInv, ApprovesAlone, ApprovalIsBacked, Applying!ApprovalIsBacked,
        Applying!Approving, Applying!App, Applying!RegistrationAssumption
  <2> QED
    BY <2>4, <2>5, <2>6, <2>7, <2>8, <2>9, <2>10, <2>11 DEF RegistrationInv
<1> QED
  BY <1>1, <1>2 DEF Applying!CreateInTransaction, Applying!App

LEMMA CreateAccountKeeps ==
  ASSUME Applying!RegistrationAssumption, RegistrationInv,
         NEW w \in Handlers, Applying!CreateAccount(w)
  PROVE  RegistrationInv'
<1> USE DEF Stage, Applicant, Approves, ApprovalStages, Applying!TypeOK
<1>0. registrationJobs \in [Handlers -> Applying!Job]
  BY DEF RegistrationInv
<1>1. CASE account = Nobody /\ account' = Applicant(w) /\ Applying!GoTo(w, "profile")
  <2>1. /\ registrationJobs' \in [Handlers -> Applying!Job]
        /\ \A v \in Handlers \ {w} : Stage(v)' = Stage(v) /\ Applicant(v)' = Applicant(v)
        /\ Stage(w)' = "profile" /\ Applicant(w)' = Applicant(w)
    BY <1>0, <1>1, HandlerGoesOn DEF Applying!CreateAccount, Applying!Pcs, Applying!App
  <2>2. /\ Stage(w) = "create" /\ Applicant(w) \in Applications
        /\ account = Nobody /\ account' = Applicant(w) /\ ~useTransactions
        /\ UNCHANGED <<useTransactions, registration, code, captains,
                       undoRefused, registrationCrashes>>
    BY <1>0, <1>1
    DEF Applying!CreateAccount, Applying!At, Applying!App, RegistrationInv, ApplicantIsKnown
  <2>3. Applying!TypeOK'
    BY <2>1, <2>2 DEF RegistrationInv, Applying!Statuses
  <2>4. \A v \in Handlers : ApplicantIsKnown(v)'
    BY <2>1, <2>2 DEF RegistrationInv, ApplicantIsKnown
  <2>5. \A v \in Handlers : InsertsAlone(v)'
    BY <2>1, <2>2
    DEF RegistrationInv, ApplicantIsKnown, InsertsAlone, ApprovesAlone,
        Applying!RegistrationAssumption
  <2>6. \A v \in Handlers : ApprovesAlone(v)'
    BY <2>1, <2>2
    DEF RegistrationInv, ApplicantIsKnown, ApprovesAlone, AccountIsApproved, CaptainIsWhole,
        Applying!RegistrationAssumption
  <2>7. AccountIsApproved'
    BY <2>1, <2>2
    DEF RegistrationInv, AccountIsApproved, ApprovesAlone, Applying!RegistrationAssumption
  <2>8. \A z \in Applications : CaptainIsWhole(z)'
    BY <2>1, <2>2
    DEF RegistrationInv, CaptainIsWhole, ApprovesAlone, Applying!RegistrationAssumption
  <2>9. AccountsAreWhole'
    BY <2>1, <2>2, <2>7, <2>8
    DEF RegistrationInv, CaptainIsWhole, ApprovesAlone, AccountsAreWhole,
        Applying!AccountsAreWhole, Applying!Approving, Applying!App,
        Applying!RegistrationAssumption
  <2>10. ApprovalIsBacked'
    BY <2>1, <2>2
    DEF RegistrationInv, ApprovesAlone, ApprovalIsBacked, Applying!ApprovalIsBacked,
        Applying!Approving, Applying!App, Applying!RegistrationAssumption
  <2> QED
    BY <2>3, <2>4, <2>5, <2>6, <2>7, <2>8, <2>9, <2>10 DEF RegistrationInv
<1>2. CASE Applying!GoTo(w, "undo") /\ UNCHANGED account
  <2>1. /\ registrationJobs' \in [Handlers -> Applying!Job]
        /\ \A v \in Handlers \ {w} : Stage(v)' = Stage(v) /\ Applicant(v)' = Applicant(v)
        /\ Stage(w)' = "undo" /\ Applicant(w)' = Applicant(w)
    BY <1>0, <1>2, HandlerGoesOn DEF Applying!CreateAccount, Applying!Pcs, Applying!App
  <2>2. /\ Stage(w) = "create" /\ Applicant(w) \in Applications
        /\ UNCHANGED <<useTransactions, registration, code, account, captains,
                       undoRefused, registrationCrashes>>
    BY <1>0, <1>2
    DEF Applying!CreateAccount, Applying!At, Applying!App, RegistrationInv, ApplicantIsKnown
  <2>3. Applying!TypeOK'
    BY <2>1, <2>2 DEF RegistrationInv, Applying!Statuses
  <2>4. \A v \in Handlers : ApplicantIsKnown(v)'
    BY <2>1, <2>2 DEF RegistrationInv, ApplicantIsKnown
  <2>5. \A v \in Handlers : InsertsAlone(v)'
    BY <2>1, <2>2
    DEF RegistrationInv, ApplicantIsKnown, InsertsAlone, ApprovesAlone,
        Applying!RegistrationAssumption
  <2>6. \A v \in Handlers : ApprovesAlone(v)'
    BY <2>1, <2>2
    DEF RegistrationInv, ApplicantIsKnown, ApprovesAlone, AccountIsApproved, CaptainIsWhole,
        Applying!RegistrationAssumption
  <2>7. AccountIsApproved'
    BY <2>1, <2>2
    DEF RegistrationInv, AccountIsApproved, ApprovesAlone, Applying!RegistrationAssumption
  <2>8. \A z \in Applications : CaptainIsWhole(z)'
    BY <2>1, <2>2
    DEF RegistrationInv, CaptainIsWhole, ApprovesAlone, Applying!RegistrationAssumption
  <2>9. AccountsAreWhole'
    BY <2>1, <2>2, <2>7, <2>8
    DEF RegistrationInv, CaptainIsWhole, ApprovesAlone, AccountsAreWhole,
        Applying!AccountsAreWhole, Applying!Approving, Applying!App,
        Applying!RegistrationAssumption
  <2>10. ApprovalIsBacked'
    BY <2>1, <2>2
    DEF RegistrationInv, ApprovesAlone, ApprovalIsBacked, Applying!ApprovalIsBacked,
        Applying!Approving, Applying!App, Applying!RegistrationAssumption
  <2> QED
    BY <2>3, <2>4, <2>5, <2>6, <2>7, <2>8, <2>9, <2>10 DEF RegistrationInv
<1> QED
  BY <1>1, <1>2 DEF Applying!CreateAccount, Applying!App

LEMMA CreateCaptainKeeps ==
  ASSUME Applying!RegistrationAssumption, RegistrationInv,
         NEW w \in Handlers, Applying!CreateCaptain(w)
  PROVE  RegistrationInv'
<1> USE DEF Stage, Applicant, Approves, ApprovalStages, Applying!TypeOK
<1>0. registrationJobs \in [Handlers -> Applying!Job]
  BY DEF RegistrationInv
<1>1. CASE Applying!CaptainOf(Applicant(w)) /\ Applying!EndJob(w)
  <2>1. /\ registrationJobs' \in [Handlers -> Applying!Job]
        /\ \A v \in Handlers \ {w} : Stage(v)' = Stage(v) /\ Applicant(v)' = Applicant(v)
        /\ Stage(w)' = "idle" /\ Applicant(w)' = Nobody
    BY <1>0, <1>1, HandlerIsDone DEF Applying!CreateCaptain, Applying!Pcs, Applying!App
  <2>2. /\ Stage(w) = "profile" /\ Applicant(w) \in Applications
        /\ registration[Applicant(w)] = "APPROVED" /\ captains[Applicant(w)] = 0
    BY DEF Applying!CreateCaptain, Applying!At, RegistrationInv, ApplicantIsKnown, ApprovesAlone
  <2>3. /\ captains' = [captains EXCEPT ![Applicant(w)] = 1]
        /\ UNCHANGED <<useTransactions, registration, code, account,
                       undoRefused, registrationCrashes>>
    BY <1>0, <1>1, <2>2 DEF Applying!CreateCaptain, Applying!App, Applying!CaptainOf
  <2>4. Applying!TypeOK'
    BY <2>1, <2>2, <2>3 DEF RegistrationInv, Applying!Statuses
  <2>5. \A v \in Handlers : ApplicantIsKnown(v)'
    BY <2>1, <2>2, <2>3 DEF RegistrationInv, ApplicantIsKnown
  <2>6. \A v \in Handlers : InsertsAlone(v)'
    BY <2>1, <2>2, <2>3
    DEF RegistrationInv, ApplicantIsKnown, InsertsAlone, ApprovesAlone,
        Applying!RegistrationAssumption
  <2>7. \A v \in Handlers : ApprovesAlone(v)'
    BY <2>1, <2>2, <2>3
    DEF RegistrationInv, ApplicantIsKnown, ApprovesAlone, AccountIsApproved, CaptainIsWhole,
        Applying!RegistrationAssumption
  <2>8. AccountIsApproved'
    BY <2>1, <2>2, <2>3
    DEF RegistrationInv, AccountIsApproved, ApprovesAlone, Applying!RegistrationAssumption
  <2>9. \A z \in Applications : CaptainIsWhole(z)'
    BY <2>1, <2>2, <2>3
    DEF RegistrationInv, CaptainIsWhole, ApprovesAlone, Applying!RegistrationAssumption
  <2>10. AccountsAreWhole'
    BY <2>1, <2>2, <2>3, <2>8, <2>9
    DEF RegistrationInv, CaptainIsWhole, ApprovesAlone, AccountsAreWhole,
        Applying!AccountsAreWhole, Applying!Approving, Applying!App,
        Applying!RegistrationAssumption
  <2>11. ApprovalIsBacked'
    BY <2>1, <2>2, <2>3
    DEF RegistrationInv, ApprovesAlone, ApprovalIsBacked, Applying!ApprovalIsBacked,
        Applying!Approving, Applying!App, Applying!RegistrationAssumption
  <2> QED
    BY <2>4, <2>5, <2>6, <2>7, <2>8, <2>9, <2>10, <2>11 DEF RegistrationInv
<1>2. CASE Applying!GoTo(w, "remove") /\ UNCHANGED captains
  <2>1. /\ registrationJobs' \in [Handlers -> Applying!Job]
        /\ \A v \in Handlers \ {w} : Stage(v)' = Stage(v) /\ Applicant(v)' = Applicant(v)
        /\ Stage(w)' = "remove" /\ Applicant(w)' = Applicant(w)
    BY <1>0, <1>2, HandlerGoesOn DEF Applying!CreateCaptain, Applying!Pcs, Applying!App
  <2>2. /\ Stage(w) = "profile" /\ Applicant(w) \in Applications
        /\ registration[Applicant(w)] = "APPROVED" /\ captains[Applicant(w)] = 0
    BY DEF Applying!CreateCaptain, Applying!At, RegistrationInv, ApplicantIsKnown, ApprovesAlone
  <2>3. UNCHANGED <<useTransactions, registration, code, account, captains,
                    undoRefused, registrationCrashes>>
    BY <1>0, <1>2, <2>2 DEF Applying!CreateCaptain, Applying!App, Applying!CaptainOf
  <2>4. Applying!TypeOK'
    BY <2>1, <2>2, <2>3 DEF RegistrationInv, Applying!Statuses
  <2>5. \A v \in Handlers : ApplicantIsKnown(v)'
    BY <2>1, <2>2, <2>3 DEF RegistrationInv, ApplicantIsKnown
  <2>6. \A v \in Handlers : InsertsAlone(v)'
    BY <2>1, <2>2, <2>3
    DEF RegistrationInv, ApplicantIsKnown, InsertsAlone, ApprovesAlone,
        Applying!RegistrationAssumption
  <2>7. \A v \in Handlers : ApprovesAlone(v)'
    BY <2>1, <2>2, <2>3
    DEF RegistrationInv, ApplicantIsKnown, ApprovesAlone, AccountIsApproved, CaptainIsWhole,
        Applying!RegistrationAssumption
  <2>8. AccountIsApproved'
    BY <2>1, <2>2, <2>3
    DEF RegistrationInv, AccountIsApproved, ApprovesAlone, Applying!RegistrationAssumption
  <2>9. \A z \in Applications : CaptainIsWhole(z)'
    BY <2>1, <2>2, <2>3
    DEF RegistrationInv, CaptainIsWhole, ApprovesAlone, Applying!RegistrationAssumption
  <2>10. AccountsAreWhole'
    BY <2>1, <2>2, <2>3, <2>8, <2>9
    DEF RegistrationInv, CaptainIsWhole, ApprovesAlone, AccountsAreWhole,
        Applying!AccountsAreWhole, Applying!Approving, Applying!App,
        Applying!RegistrationAssumption
  <2>11. ApprovalIsBacked'
    BY <2>1, <2>2, <2>3
    DEF RegistrationInv, ApprovesAlone, ApprovalIsBacked, Applying!ApprovalIsBacked,
        Applying!Approving, Applying!App, Applying!RegistrationAssumption
  <2> QED
    BY <2>4, <2>5, <2>6, <2>7, <2>8, <2>9, <2>10, <2>11 DEF RegistrationInv
<1> QED
  BY <1>1, <1>2 DEF Applying!CreateCaptain, Applying!App

LEMMA RemoveAccountKeeps ==
  ASSUME Applying!RegistrationAssumption, RegistrationInv,
         NEW w \in Handlers, Applying!RemoveAccount(w)
  PROVE  RegistrationInv'
<1> USE DEF Stage, Applicant, Approves, ApprovalStages, Applying!TypeOK
<1>0. registrationJobs \in [Handlers -> Applying!Job]
  BY DEF RegistrationInv
<1>1. /\ registrationJobs' \in [Handlers -> Applying!Job]
      /\ \A v \in Handlers \ {w} : Stage(v)' = Stage(v) /\ Applicant(v)' = Applicant(v)
      /\ Stage(w)' = "undo" /\ Applicant(w)' = Applicant(w)
  BY <1>0, HandlerGoesOn DEF Applying!RemoveAccount, Applying!Pcs, Applying!App
<1>2. /\ Stage(w) = "remove" /\ Applicant(w) \in Applications
      /\ account' = Nobody
      /\ UNCHANGED <<useTransactions, registration, code, captains,
                     undoRefused, registrationCrashes>>
  BY <1>0 DEF Applying!RemoveAccount, Applying!At, RegistrationInv, ApplicantIsKnown
<1>3. Applying!TypeOK'
  BY <1>1, <1>2 DEF RegistrationInv, Applying!Statuses
<1>4. \A v \in Handlers : ApplicantIsKnown(v)'
  BY <1>1, <1>2 DEF RegistrationInv, ApplicantIsKnown
<1>5. \A v \in Handlers : InsertsAlone(v)'
  BY <1>1, <1>2
  DEF RegistrationInv, ApplicantIsKnown, InsertsAlone, ApprovesAlone,
      Applying!RegistrationAssumption
<1>6. \A v \in Handlers : ApprovesAlone(v)'
  BY <1>1, <1>2
  DEF RegistrationInv, ApplicantIsKnown, ApprovesAlone, AccountIsApproved, CaptainIsWhole,
      Applying!RegistrationAssumption
<1>7. AccountIsApproved'
  BY <1>1, <1>2
  DEF RegistrationInv, AccountIsApproved, ApprovesAlone, Applying!RegistrationAssumption
<1>8. \A z \in Applications : CaptainIsWhole(z)'
  BY <1>1, <1>2
  DEF RegistrationInv, CaptainIsWhole, ApprovesAlone, Applying!RegistrationAssumption
<1>9. AccountsAreWhole'
  BY <1>1, <1>2, <1>7, <1>8
  DEF RegistrationInv, CaptainIsWhole, ApprovesAlone, AccountsAreWhole, Applying!AccountsAreWhole,
      Applying!Approving, Applying!App, Applying!RegistrationAssumption
<1>10. ApprovalIsBacked'
  BY <1>1, <1>2
  DEF RegistrationInv, ApprovesAlone, ApprovalIsBacked, Applying!ApprovalIsBacked,
      Applying!Approving, Applying!App, Applying!RegistrationAssumption
<1> QED
  BY <1>3, <1>4, <1>5, <1>6, <1>7, <1>8, <1>9, <1>10 DEF RegistrationInv

LEMMA HandBackKeeps ==
  ASSUME Applying!RegistrationAssumption, RegistrationInv,
         NEW w \in Handlers, Applying!HandBack(w)
  PROVE  RegistrationInv'
<1> USE DEF Stage, Applicant, Approves, ApprovalStages, Applying!TypeOK
<1>0. registrationJobs \in [Handlers -> Applying!Job]
  BY DEF RegistrationInv
<1>1. CASE Applying!IndexAllows(Applicant(w))
  <2>1. /\ registrationJobs' \in [Handlers -> Applying!Job]
        /\ \A v \in Handlers \ {w} : Stage(v)' = Stage(v) /\ Applicant(v)' = Applicant(v)
        /\ Stage(w)' = "idle" /\ Applicant(w)' = Nobody
    BY <1>0, <1>1, HandlerIsDone DEF Applying!HandBack, Applying!Pcs, Applying!App
  <2>2. /\ Stage(w) = "undo" /\ Applicant(w) \in Applications
        /\ registration[Applicant(w)] = "APPROVED" /\ captains[Applicant(w)] = 0
    BY DEF Applying!HandBack, Applying!At, RegistrationInv, ApplicantIsKnown, ApprovesAlone
  <2>3. /\ registration' = [registration EXCEPT ![Applicant(w)] = "PENDING_APPROVAL"]
        /\ UNCHANGED <<useTransactions, code, account, captains,
                       undoRefused, registrationCrashes>>
    BY <1>0, <1>1, <2>2
    DEF Applying!HandBack, Applying!App, Applying!SetStatus, Applying!accountVars
  <2>4. Applying!TypeOK'
    BY <2>1, <2>2, <2>3 DEF RegistrationInv, Applying!Statuses
  <2>5. \A v \in Handlers : ApplicantIsKnown(v)'
    BY <2>1, <2>2, <2>3 DEF RegistrationInv, ApplicantIsKnown
  <2>6. \A v \in Handlers : InsertsAlone(v)'
    BY <2>1, <2>2, <2>3
    DEF RegistrationInv, ApplicantIsKnown, InsertsAlone, ApprovesAlone,
        Applying!RegistrationAssumption
  <2>7. \A v \in Handlers : ApprovesAlone(v)'
    BY <2>1, <2>2, <2>3
    DEF RegistrationInv, ApplicantIsKnown, ApprovesAlone, AccountIsApproved, CaptainIsWhole,
        Applying!RegistrationAssumption
  <2>8. AccountIsApproved'
    BY <2>1, <2>2, <2>3
    DEF RegistrationInv, AccountIsApproved, ApprovesAlone, Applying!RegistrationAssumption
  <2>9. \A z \in Applications : CaptainIsWhole(z)'
    BY <2>1, <2>2, <2>3
    DEF RegistrationInv, CaptainIsWhole, ApprovesAlone, Applying!RegistrationAssumption
  <2>10. AccountsAreWhole'
    BY <2>1, <2>2, <2>3, <2>8, <2>9
    DEF RegistrationInv, CaptainIsWhole, ApprovesAlone, AccountsAreWhole,
        Applying!AccountsAreWhole, Applying!Approving, Applying!App,
        Applying!RegistrationAssumption
  <2>11. ApprovalIsBacked'
    BY <2>1, <2>2, <2>3
    DEF RegistrationInv, ApprovesAlone, ApprovalIsBacked, Applying!ApprovalIsBacked,
        Applying!Approving, Applying!App, Applying!RegistrationAssumption
  <2> QED
    BY <2>4, <2>5, <2>6, <2>7, <2>8, <2>9, <2>10, <2>11 DEF RegistrationInv
<1>2. CASE ~Applying!IndexAllows(Applicant(w))
  <2>1. /\ registrationJobs' \in [Handlers -> Applying!Job]
        /\ \A v \in Handlers \ {w} : Stage(v)' = Stage(v) /\ Applicant(v)' = Applicant(v)
        /\ Stage(w)' = "idle" /\ Applicant(w)' = Nobody
    BY <1>0, <1>2, HandlerIsDone DEF Applying!HandBack, Applying!Pcs, Applying!App
  <2>2. /\ Stage(w) = "undo" /\ Applicant(w) \in Applications
        /\ registration[Applicant(w)] = "APPROVED" /\ captains[Applicant(w)] = 0
    BY DEF Applying!HandBack, Applying!At, RegistrationInv, ApplicantIsKnown, ApprovesAlone
  <2>3. /\ undoRefused' = undoRefused \cup {Applicant(w)}
        /\ UNCHANGED <<useTransactions, registration, code, account, captains,
                       registrationCrashes>>
    BY <1>0, <1>2, <2>2
    DEF Applying!HandBack, Applying!App, Applying!SetStatus, Applying!accountVars
  <2>4. Applying!TypeOK'
    BY <2>1, <2>2, <2>3 DEF RegistrationInv, Applying!Statuses
  <2>5. \A v \in Handlers : ApplicantIsKnown(v)'
    BY <2>1, <2>2, <2>3 DEF RegistrationInv, ApplicantIsKnown
  <2>6. \A v \in Handlers : InsertsAlone(v)'
    BY <2>1, <2>2, <2>3
    DEF RegistrationInv, ApplicantIsKnown, InsertsAlone, ApprovesAlone,
        Applying!RegistrationAssumption
  <2>7. \A v \in Handlers : ApprovesAlone(v)'
    BY <2>1, <2>2, <2>3
    DEF RegistrationInv, ApplicantIsKnown, ApprovesAlone, AccountIsApproved, CaptainIsWhole,
        Applying!RegistrationAssumption
  <2>8. AccountIsApproved'
    BY <2>1, <2>2, <2>3
    DEF RegistrationInv, AccountIsApproved, ApprovesAlone, Applying!RegistrationAssumption
  <2>9. \A z \in Applications : CaptainIsWhole(z)'
    BY <2>1, <2>2, <2>3
    DEF RegistrationInv, CaptainIsWhole, ApprovesAlone, Applying!RegistrationAssumption
  <2>10. AccountsAreWhole'
    BY <2>1, <2>2, <2>3, <2>8, <2>9
    DEF RegistrationInv, CaptainIsWhole, ApprovesAlone, AccountsAreWhole,
        Applying!AccountsAreWhole, Applying!Approving, Applying!App,
        Applying!RegistrationAssumption
  <2>11. ApprovalIsBacked'
    BY <2>1, <2>2, <2>3
    DEF RegistrationInv, ApprovesAlone, ApprovalIsBacked, Applying!ApprovalIsBacked,
        Applying!Approving, Applying!App, Applying!RegistrationAssumption
  <2> QED
    BY <2>4, <2>5, <2>6, <2>7, <2>8, <2>9, <2>10, <2>11 DEF RegistrationInv
<1> QED
  BY <1>1, <1>2 DEF Applying!HandBack

LEMMA RegistrationStep ==
  Applying!RegistrationAssumption /\ RegistrationInv /\ [Applying!Next]_Applying!vars
    => RegistrationInv'
<1> SUFFICES ASSUME Applying!RegistrationAssumption, RegistrationInv,
                    [Applying!Next]_Applying!vars
             PROVE  RegistrationInv'
  OBVIOUS
<1>1. ASSUME NEW w \in Handlers, Applying!JobStep(w)
      PROVE  RegistrationInv'
  BY <1>1, InsertApplicationKeeps, IssueCodeKeeps, ConsumeCodeKeeps, MoveToApprovalKeeps,
     LookForClashKeeps, ClaimDecisionKeeps, CreateInTransactionKeeps, CreateAccountKeeps,
     CreateCaptainKeeps, RemoveAccountKeeps, HandBackKeeps DEF Applying!JobStep
<1>2. ASSUME NEW w \in Handlers, NEW a \in Applications,
             Applying!Register(w, a) \/ Applying!VerifyRead(w, a) \/ Applying!ApproveRead(w, a)
      PROVE  RegistrationInv'
  BY <1>2, RegisterKeeps, VerifyReadKeeps, ApproveReadKeeps
<1> USE DEF RegistrationInv, Stage, Applicant, Approves, ApprovalStages, ApplicantIsKnown,
            InsertsAlone, ApprovesAlone, AccountIsApproved, CaptainIsWhole, AccountsAreWhole,
            ApprovalIsBacked,
            Applying!AccountsAreWhole, Applying!ApprovalIsBacked, Applying!Approving, Applying!App,
            Applying!TypeOK, Applying!Statuses, Applying!RegistrationAssumption,
            Applying!accountVars
<1>3. ASSUME NEW a \in Applications, Applying!RejectRegistration(a)
      PROVE  RegistrationInv'
  BY <1>3 DEF Applying!RejectRegistration, Applying!Live, Applying!SetStatus
<1>4. CASE Applying!AdminCreatesAccount
  BY <1>4 DEF Applying!AdminCreatesAccount
<1>5. CASE Applying!Crash
  BY <1>5 DEF Applying!Crash, Applying!Idle, Applying!Job, Applying!Pcs
<1>6. CASE UNCHANGED Applying!vars
  BY <1>6 DEF Applying!vars
<1> QED
  BY <1>1, <1>2, <1>3, <1>4, <1>5, <1>6 DEF Applying!Next

LEMMA RegistrationInvariant ==
  Applying!RegistrationAssumption /\ Applying!Spec => []RegistrationInv
<1> SUFFICES ASSUME Applying!RegistrationAssumption
             PROVE  Applying!Spec => []RegistrationInv
  OBVIOUS
<1>1. ASSUME Applying!Init
      PROVE  RegistrationInv
  <2> USE <1>1 DEF Applying!Init
  <2>1. \A w \in Handlers : Stage(w) = "idle" /\ Applicant(w) = Nobody /\ ~Approves(w)
    BY DEF Stage, Applicant, Approves, ApprovalStages, Applying!Idle
  <2>2. registrationJobs \in [Handlers -> Applying!Job]
    BY DEF Applying!Idle, Applying!Job, Applying!Pcs
  <2>3. Applying!TypeOK
    BY <2>2 DEF Applying!TypeOK, Applying!Statuses, Applying!RegistrationAssumption
  <2>4. AccountsAreWhole /\ ApprovalIsBacked
    BY DEF AccountsAreWhole, Applying!AccountsAreWhole, ApprovalIsBacked,
           Applying!ApprovalIsBacked, Applying!RegistrationAssumption
  <2> QED
    BY <2>1, <2>3, <2>4 DEF RegistrationInv, ApplicantIsKnown, InsertsAlone, ApprovesAlone,
       AccountIsApproved, CaptainIsWhole, Applying!RegistrationAssumption
<1>2. RegistrationInv /\ [Applying!Next]_Applying!vars => RegistrationInv'
  BY RegistrationStep
<1> QED
  BY <1>1, <1>2, PTL DEF Applying!Spec

\* For any number of applications and of administrators who decide at once, whatever
\* fails: an applicant's account comes with the captain of that application.
THEOREM AccountsComeWhole ==
  Applying!RegistrationAssumption /\ Applying!Spec => []AccountsAreWhole
<1>1. RegistrationInv => AccountsAreWhole
  BY DEF RegistrationInv
<1> QED
  BY <1>1, RegistrationInvariant, PTL

\* And an approval that came to nothing is handed back.
THEOREM ApprovalsAreBacked ==
  Applying!RegistrationAssumption /\ Applying!Spec => []ApprovalIsBacked
<1>1. RegistrationInv => ApprovalIsBacked
  BY DEF RegistrationInv
<1> QED
  BY <1>1, RegistrationInvariant, PTL

-----------------------------------------------------------------------------
(* The services together *)

\* A step of the services is a step of one of them, and for the others none: each
\* behaves as it does alone.
LEMMA ServicesStep ==
  [ServicesNext]_<<part, serviceVars>> =>
    /\ [Callback!Next]_Callback!vars /\ [Lock!Next]_Lock!vars
    /\ [Presence!Next]_Presence!vars /\ [Setting!Next]_Setting!vars
<1>1. UNCHANGED callbackVars => UNCHANGED Callback!vars
  BY DEF callbackVars, Callback!vars, Callback!rowVars
<1>2. UNCHANGED lockVars => UNCHANGED Lock!vars
  BY DEF lockVars, Lock!vars
<1>3. UNCHANGED presenceVars => UNCHANGED Presence!vars
  BY DEF presenceVars, Presence!vars, Presence!codeVars, Presence!sessionVars
<1>4. UNCHANGED settingVars => UNCHANGED Setting!vars
  BY DEF settingVars, Setting!vars
<1> QED
  BY <1>1, <1>2, <1>3, <1>4 DEF ServicesNext, serviceVars

\* Whatever the services do: the lock is exclusive in its time, a code opens one
\* session, no ending is told but the one a payment had, and no change of the
\* settings is lost.
THEOREM ServicesKeepTheirPromises ==
  Lock!LockAssumption /\ Presence!SessionsAssumption /\ Callback!CallbacksAssumption
    /\ Setting!SettingsAssumption /\ ServicesSpec
  => [](ExclusiveInTime /\ OneSessionPerCode /\ ToldAsItEnded) /\ NoLostUpdate
<1>1. ServicesInit => Callback!Init /\ Lock!Init /\ Presence!Init /\ Setting!Init
  BY DEF ServicesInit
<1>2. ServicesSpec => Callback!Spec /\ Lock!Spec /\ Presence!Spec /\ Setting!Spec
  BY <1>1, ServicesStep, PTL
  DEF ServicesSpec, Callback!Spec, Lock!Spec, Presence!Spec, Setting!Spec
<1> QED
  BY <1>2, LockIsExclusive, CodesOpenOnce, EndingsAreToldTrue, ChangesAreKept, PTL

-----------------------------------------------------------------------------
(* The desk *)

\* A step of the desk is a step of one of the three, and for the others none: each
\* of them behaves as it does alone, and what is proved of it alone holds.
THEOREM DeskIsFunding == DeskSpec => FundingSpec
<1>1. DeskInit => FundingInit
  BY DEF DeskInit
<1>2. [DeskNext]_deskVars => [FundingNext]_fundingVars
  BY DEF DeskNext, deskVars
<1> QED
  BY <1>1, <1>2, PTL DEF DeskSpec, FundingSpec

\* The withdrawals among the desk's steps behave as PlatformWithdrawal says.
THEOREM DeskIsWithdrawal == DeskSpec => Spec
<1>1. DeskInit => Init
  BY DEF DeskInit
<1>2. [DeskNext]_deskVars => [Next]_vars
  BY DEF DeskNext, deskVars
<1> QED
  BY <1>1, <1>2, PTL DEF DeskSpec, Spec

LEMMA OthersAreFree ==
  ASSUME UNCHANGED <<useTransactions, registrationVars>>
  PROVE  UNCHANGED Applying!vars
  BY DEF registrationVars, Applying!vars, Applying!accountVars

\* And the applications as Registration says.
THEOREM DeskIsRegistration == DeskSpec => Applying!Spec
<1>1. DeskInit => Applying!Init
  BY DEF DeskInit
<1>2. [DeskNext]_deskVars => [Applying!Next]_Applying!vars
  BY OthersAreFree DEF DeskNext, deskVars, fundingVars, faultVars, vars
<1> QED
  BY <1>1, <1>2, PTL DEF DeskSpec, Applying!Spec

\* Every variable of the desk has its type.
THEOREM DeskTypeCorrect ==
  Applying!RegistrationAssumption /\ WithdrawalAssumption /\ DeskSpec => []MoneyTypeOK
<1>1. RegistrationInv => Applying!TypeOK
  BY DEF RegistrationInv
<1>2. FundingTypeOK /\ TypeOK /\ Applying!TypeOK => MoneyTypeOK
  BY DEF MoneyTypeOK
<1> QED
  BY <1>1, <1>2, DeskIsFunding, DeskIsWithdrawal, DeskIsRegistration, FundingTypeCorrect,
     WithdrawalTypeCorrect, RegistrationInvariant, PTL

\* Whatever the desk does, in both deployments, with failing inserts and stops:
\* the books add up, no share is spent twice or stranded, a party is paid once, a
\* request closes in full, and what an application leaves behind is whole.
THEOREM DeskKeepsTheBooks ==
  Applying!RegistrationAssumption /\ WithdrawalAssumption /\ PromptRequests /\ DeskSpec =>
    /\ [](CommissionIsCovered /\ FundsAddUp /\ FeesAddUp)
    /\ [](NotSpentTwice /\ NothingStranded /\ PaidOnce /\ ClosesInFull)
    /\ [](AccountsAreWhole /\ ApprovalIsBacked)
<1>1. DeskSpec => [](CommissionIsCovered /\ FundsAddUp /\ FeesAddUp)
  BY DeskIsFunding, FeeIsInTheBalance, BooksAddUp, FeesStayFees, PTL
<1>2. WithdrawalAssumption /\ PromptRequests /\ DeskSpec
        => [](NotSpentTwice /\ NothingStranded /\ PaidOnce /\ ClosesInFull)
  BY DeskIsWithdrawal, NoShareIsSpentTwice, NothingIsStranded, CreditedAtMostOnce,
     RequestsCloseInFull, PTL
<1>3. Applying!RegistrationAssumption /\ DeskSpec => [](AccountsAreWhole /\ ApprovalIsBacked)
  BY DeskIsRegistration, AccountsComeWhole, ApprovalsAreBacked, PTL
<1> QED
  BY <1>1, <1>2, <1>3
=============================================================================
