-------------------------------- MODULE Desk --------------------------------
(***************************************************************************)
(* What admin decides, in one specification: the money that comes in and   *)
(* goes back (Funding), what the platform takes out of its pool            *)
(* (PlatformWithdrawal) and captains who apply (Registration).             *)
(*                                                                         *)
(* A step is one of the three's, and a behaviour keeps to the one flow it  *)
(* starts with: they share no row but the pool and the balances of         *)
(* parties, and of these each keeps what it moves itself, and lets others  *)
(* draw on the pool.                                                       *)
(***************************************************************************)
EXTENDS FundingLedger, PlatformWithdrawal

CONSTANTS Applications, Nobody, Admin

VARIABLES
  flow,
  registration, code, account, captains, undoRefused, registrationJobs, registrationCrashes

Applying == INSTANCE Registration WITH jobs <- registrationJobs, crashes <- registrationCrashes

registrationVars ==
  <<registration, code, account, captains, undoRefused, registrationJobs, registrationCrashes>>

deskVars == <<flow, fundingVars, vars, registrationVars>>

DeskInit ==
  /\ flow \in {"funding", "withdrawal", "registration"}
  /\ FundingInit /\ Init /\ Applying!Init

DeskNext ==
  \/ flow = "funding" /\ FundingNext /\ UNCHANGED <<flow, vars, registrationVars>>
  \/ flow = "withdrawal" /\ Next /\ UNCHANGED <<flow, fundingVars, registrationVars>>
  \/ flow = "registration" /\ Applying!Next /\ UNCHANGED <<flow, fundingVars, vars>>

DeskSpec == DeskInit /\ [][DeskNext]_deskVars

-----------------------------------------------------------------------------
(* Properties *)

\* Every variable of the three has its type.
MoneyTypeOK == FundingTypeOK /\ TypeOK /\ Applying!TypeOK

\* See Registration: nobody can sign in as a captain who does not exist, and an
\* approval that came to nothing is handed back.
AccountsAreWhole == Applying!AccountsAreWhole
ApprovalIsBacked == Applying!ApprovalIsBacked
=============================================================================
