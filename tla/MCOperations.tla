---------------------------- MODULE MCOperations ----------------------------
(***************************************************************************)
(* What has to keep going, for TLC: a payout, and the services around the  *)
(* payments.  A behaviour is one of the parts, chosen at the start.        *)
(***************************************************************************)
EXTENDS MCPayout, Services

ASSUME Callback!CallbacksAssumption
ASSUME Lock!LockAssumption
ASSUME Presence!SessionsAssumption
ASSUME Setting!SettingsAssumption

payoutVars == vars

MCInit ==
  /\ part \in {"payout", "callbacks", "lock", "presence", "settings"}
  /\ Init /\ ServicesInit

MCNext ==
  \/ part = "payout" /\ Next /\ UNCHANGED <<part, serviceVars>>
  \/ ServicesNext /\ UNCHANGED payoutVars

\* What has to run on: the requests and sweeps of the payout and its clocks, and
\* what is fair in the services.
MCSpec ==
  /\ MCInit /\ [][MCNext]_<<part, payoutVars, serviceVars>>
  /\ Fairness /\ ServicesFairness
=============================================================================
