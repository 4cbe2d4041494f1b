------------------------------ MODULE Sessions ------------------------------
(***************************************************************************)
(* A captain's sign-ins and whether routing sees them online: the codes of *)
(* otp.service.ts, the sessions of auth.service.ts, and the flag isOnline, *)
(* which sign-in, sign-out, the captain, admin and the sweep of            *)
(* presence.service.ts all write.  One captain.                            *)
(*                                                                         *)
(* A handler's writes are separate steps; what it read is its pc.  Wrong   *)
(* codes, their attempt budget, passwords and the lock of an account are   *)
(* left out: a code here is the right one.                                 *)
(***************************************************************************)
EXTENDS Integers, FiniteSets

CONSTANTS
  Codes,       \* challenges that may be issued
  SessionIds,  \* sessions that may be opened
  Handlers,    \* requests being served at a time
  Sweeper,     \* the presence sweep
  None         \* null

SessionsAssumption == Sweeper \notin Handlers /\ None \notin Codes

Workers == Handlers \cup {Sweeper}

VARIABLES
  purpose,     \* purpose[k]: what code k was issued for, or "none"
  code,        \* LIVE, EXPIRED; CONSUMED: consumedAt is set
  session,     \* NONE, LIVE; ENDED: revoked or deleted; EXPIRED: expiresAt passed
  openedWith,  \* openedWith[s]: the code that opened session s
  active,      \* User.status is ACTIVE
  isOnline,
  jobs

codeVars == <<purpose, code>>
sessionVars == <<session, openedWith>>
vars == <<codeVars, sessionVars, active, isOnline, jobs>>

Purposes == {"LOGIN", "PASSWORD_RESET"}
Pcs == {"idle", "consume", "account", "open", "endAll", "online", "offline", "list", "clear"}

Job == [pc : Pcs, code : Codes \cup {None}]
Idle == [pc |-> "idle", code |-> None]

HasLiveSession == \E s \in SessionIds : session[s] = "LIVE"

At(w, pc) == jobs[w].pc = pc
GoTo(w, pc) == jobs' = [jobs EXCEPT ![w].pc = pc]
EndJob(w) == jobs' = [jobs EXCEPT ![w] = Idle]
Begin(w, pc) == At(w, "idle") /\ GoTo(w, pc)

Init ==
  /\ purpose = [k \in Codes |-> "none"] /\ code = [k \in Codes |-> "EXPIRED"]
  /\ session = [s \in SessionIds |-> "NONE"] /\ openedWith = [s \in SessionIds |-> None]
  /\ active = TRUE /\ isOnline = FALSE
  /\ jobs = [w \in Workers |-> Idle]

-----------------------------------------------------------------------------
(* Codes *)

\* loginStepOne or requestPasswordReset, for an account that is ACTIVE.
IssueCode(k) ==
  /\ purpose[k] = "none" /\ active
  /\ \E p \in Purposes : purpose' = [purpose EXCEPT ![k] = p]
  /\ code' = [code EXCEPT ![k] = "LIVE"]
  /\ UNCHANGED <<sessionVars, active, isOnline, jobs>>

\* resendOtp renews a code that was not used, expired or not.
ResendCode(k) ==
  /\ purpose[k] # "none" /\ code[k] = "EXPIRED"
  /\ code' = [code EXCEPT ![k] = "LIVE"]
  /\ UNCHANGED <<purpose, sessionVars, active, isOnline, jobs>>

CodeExpires(k) ==
  /\ code[k] = "LIVE"
  /\ code' = [code EXCEPT ![k] = "EXPIRED"]
  /\ UNCHANGED <<purpose, sessionVars, active, isOnline, jobs>>

\* verifyOtpChallenge: the row is read and the code is the right one.
ReadCode(w, k) ==
  /\ code[k] = "LIVE"
  /\ At(w, "idle")
  /\ jobs' = [jobs EXCEPT ![w] = [pc |-> "consume", code |-> k]]
  /\ UNCHANGED <<codeVars, sessionVars, active, isOnline>>

ConsumeAnyway(w) ==
  /\ At(w, "consume")
  /\ code' = [code EXCEPT ![jobs[w].code] = "CONSUMED"] /\ GoTo(w, "account")
  /\ UNCHANGED <<purpose, sessionVars, active, isOnline>>

\* The compare-and-swap on consumedAt.
ConsumeCode(w) ==
  /\ At(w, "consume")
  /\ IF code[jobs[w].code] # "CONSUMED"
     THEN code' = [code EXCEPT ![jobs[w].code] = "CONSUMED"] /\ GoTo(w, "account")
     ELSE EndJob(w) /\ UNCHANGED code
  /\ UNCHANGED <<purpose, sessionVars, active, isOnline>>

-----------------------------------------------------------------------------
(* Sessions *)

\* The account is read again and must be ACTIVE.
ReadAccount(w) ==
  /\ At(w, "account")
  /\ CASE ~active -> EndJob(w)
       [] active /\ purpose[jobs[w].code] = "LOGIN" -> GoTo(w, "open")
       [] active /\ purpose[jobs[w].code] = "PASSWORD_RESET" -> GoTo(w, "endAll")
  /\ UNCHANGED <<codeVars, sessionVars, active, isOnline>>

OpenSession(w) ==
  /\ At(w, "open")
  /\ \E s \in SessionIds :
       /\ session[s] = "NONE"
       /\ session' = [session EXCEPT ![s] = "LIVE"]
       /\ openedWith' = [openedWith EXCEPT ![s] = jobs[w].code]
  /\ GoTo(w, "online")
  /\ UNCHANGED <<codeVars, active, isOnline>>

\* resetPassword: the new password is saved, then every session deleted.
EndAllSessions(w) ==
  /\ At(w, "endAll")
  /\ session' = [s \in SessionIds |-> IF session[s] = "LIVE" THEN "ENDED" ELSE session[s]]
  /\ EndJob(w)
  /\ UNCHANGED <<codeVars, openedWith, active, isOnline>>

\* logout of a session requireAuth found live: revoked first, offline next.
Logout(w, s) ==
  /\ session[s] = "LIVE"
  /\ Begin(w, "offline")
  /\ session' = [session EXCEPT ![s] = "ENDED"]
  /\ UNCHANGED <<codeVars, openedWith, active, isOnline>>

SessionExpires(s) ==
  /\ session[s] = "LIVE"
  /\ session' = [session EXCEPT ![s] = "EXPIRED"]
  /\ UNCHANGED <<codeVars, openedWith, active, isOnline, jobs>>

-----------------------------------------------------------------------------
(* Presence *)

\* setPresence, after requireAuth found the session live.
SetPresence(w) ==
  /\ HasLiveSession
  /\ \E pc \in {"online", "offline"} : Begin(w, pc)
  /\ UNCHANGED <<codeVars, sessionVars, active, isOnline>>

\* The write of isOnline that ends a sign-in, a sign-out, setPresence or a suspension.
WritePresence(w) ==
  /\ \/ At(w, "online") /\ isOnline' = TRUE
     \/ At(w, "offline") /\ isOnline' = FALSE
  /\ EndJob(w)
  /\ UNCHANGED <<codeVars, sessionVars, active>>

\* captain:presence on a socket, which was let in with a session and is not
\* asked again.
SocketPresence ==
  /\ \E s \in SessionIds : session[s] # "NONE"
  /\ isOnline' \in BOOLEAN
  /\ UNCHANGED <<codeVars, sessionVars, active, jobs>>

\* setUserStatus: the account first, then the captain's profile, which is put
\* offline unless the account is ACTIVE.
SetUserStatus(w) ==
  /\ active' \in BOOLEAN
  /\ IF active' THEN UNCHANGED jobs ELSE Begin(w, "offline")
  /\ UNCHANGED <<codeVars, sessionVars, isOnline>>

\* sweepStaleCaptainPresence lists who is online ...
SweepOnline ==
  /\ isOnline
  /\ Begin(Sweeper, "list")
  /\ UNCHANGED <<codeVars, sessionVars, active, isOnline>>

NotRevoked == \E s \in SessionIds : session[s] \in {"LIVE", "EXPIRED"}
SweepUnrevoked ==
  /\ At(Sweeper, "list")
  /\ IF NotRevoked THEN EndJob(Sweeper) ELSE GoTo(Sweeper, "clear")
  /\ UNCHANGED <<codeVars, sessionVars, active, isOnline>>

\* ... then who of them has a session, neither revoked nor expired ...
SweepSessions ==
  /\ At(Sweeper, "list")
  /\ IF HasLiveSession THEN EndJob(Sweeper) ELSE GoTo(Sweeper, "clear")
  /\ UNCHANGED <<codeVars, sessionVars, active, isOnline>>

\* ... and puts the others offline, whoever signed in since.
SweepClear ==
  /\ At(Sweeper, "clear")
  /\ isOnline' = FALSE
  /\ EndJob(Sweeper)
  /\ UNCHANGED <<codeVars, sessionVars, active>>

-----------------------------------------------------------------------------
JobStep(w) ==
  \/ ConsumeCode(w) \/ ReadAccount(w) \/ OpenSession(w) \/ EndAllSessions(w) \/ WritePresence(w)

SweepStep == SweepOnline \/ SweepSessions \/ SweepClear

Next ==
  \/ \E k \in Codes : IssueCode(k) \/ ResendCode(k) \/ CodeExpires(k)
  \/ \E w \in Handlers :
       \/ JobStep(w) \/ SetPresence(w) \/ SetUserStatus(w)
       \/ \E k \in Codes : ReadCode(w, k)
  \/ \E w \in Handlers, s \in SessionIds : Logout(w, s)
  \/ \E s \in SessionIds : SessionExpires(s)
  \/ SocketPresence \/ SweepStep

\* The sweep runs every minute.
Fairness == WF_vars(SweepStep)

Spec == Init /\ [][Next]_vars
FairSpec == Spec /\ Fairness

-----------------------------------------------------------------------------
(* Properties *)

\* Every variable has its type.
TypeOK ==
  /\ purpose \in [Codes -> Purposes \cup {"none"}]
  /\ code \in [Codes -> {"LIVE", "EXPIRED", "CONSUMED"}]
  /\ session \in [SessionIds -> {"NONE", "LIVE", "ENDED", "EXPIRED"}]
  /\ openedWith \in [SessionIds -> Codes \cup {None}]
  /\ active \in BOOLEAN /\ isOnline \in BOOLEAN
  /\ jobs \in [Workers -> Job]

\* The same correct code, submitted twice at once, opens one session, even when
\* it expires or is sent again in between.
OneSessionPerCode ==
  \A s, z \in SessionIds : openedWith[s] = openedWith[z] /\ openedWith[s] # None => s = z

\* A captain whose last session has quietly expired, been revoked or deleted
\* does not stay online: a pool that offers work to nobody there.
StaleIsCleared == (isOnline /\ ~HasLiveSession) ~> (~isOnline \/ HasLiveSession)
=============================================================================
