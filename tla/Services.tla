------------------------------ MODULE Services ------------------------------
(***************************************************************************)
(* The services around the payments: callbacks, the lock around a claim,   *)
(* sign-ins and presence, settings.  They share no rows with each other,   *)
(* nor with a payout any that the modules keep.                            *)
(***************************************************************************)

CONSTANTS
  ServedRequests, \* requests being served at a time
  Sweeper,     \* the pass or sweep of a service
  Nothing,     \* no token, no code
  MaxAttempts, MaxReturns, MaxFaults, Codes, SessionIds,
  Readers, Admins, NoSnapshot, MaxVersion

VARIABLES
  part,        \* whose behaviour this is
  direction, paymentStatus, told, delivered, attempts, callbackJobs, returns, faults,
  token, client, handle, outlived,
  purpose, codeStatus, session, openedWith, active, isOnline, sessionJobs,
  config, history, cache, cacheDies, calls

callbackVars ==
  <<direction, paymentStatus, told, delivered, attempts, callbackJobs, returns, faults>>
lockVars == <<token, client, handle, outlived>>
presenceVars == <<purpose, codeStatus, session, openedWith, active, isOnline, sessionJobs>>
settingVars == <<config, history, cache, cacheDies, calls>>
serviceVars == <<callbackVars, lockVars, presenceVars, settingVars>>

Callback == INSTANCE Callbacks WITH
  Handlers <- ServedRequests, status <- paymentStatus, jobs <- callbackJobs

Lock == INSTANCE ClaimLock WITH Clients <- ServedRequests \cup {Sweeper}, NoToken <- Nothing

Presence == INSTANCE Sessions WITH
  Handlers <- ServedRequests, None <- Nothing, code <- codeStatus, jobs <- sessionJobs

Setting == INSTANCE Settings

-----------------------------------------------------------------------------
(* One of them at a time: a behaviour is of the part it starts with. *)

\* What a part leaves open at the start is open in its own behaviours only.
ServicesInit ==
  /\ Callback!Init /\ Lock!Init /\ Presence!Init /\ Setting!Init
  /\ part # "callbacks" => direction = "PAY_IN"

ServicesNext ==
  \/ /\ part = "callbacks" /\ Callback!Next
     /\ UNCHANGED <<part, lockVars, presenceVars, settingVars>>
  \/ /\ part = "lock" /\ Lock!Next
     /\ UNCHANGED <<part, callbackVars, presenceVars, settingVars>>
  \/ /\ part = "presence" /\ Presence!Next
     /\ UNCHANGED <<part, callbackVars, lockVars, settingVars>>
  \/ /\ part = "settings" /\ Setting!Next
     /\ UNCHANGED <<part, callbackVars, lockVars, presenceVars>>

ServicesSpec == ServicesInit /\ [][ServicesNext]_<<part, serviceVars>>

\* The sends and the pass of callbacks, the presence sweep, the expiry of Redis.
\* Nothing has to run on in the other parts, and what is fair in one part is
\* disabled in the others.
ServicesFairness == Callback!Fairness /\ Presence!Fairness /\ Setting!Fairness

-----------------------------------------------------------------------------
(* What each of them promises: see there. *)

ToldAsItEnded     == Callback!ToldAsItEnded
EndingIsTold      == Callback!EndingIsTold
ExclusiveInTime   == Lock!ExclusiveInTime
OneSessionPerCode == Presence!OneSessionPerCode
StaleIsCleared    == Presence!StaleIsCleared
StaleCacheDies    == Setting!StaleCacheDies
NoLostUpdate      == Setting!NoLostUpdate
=============================================================================
