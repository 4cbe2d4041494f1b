-------------------------- MODULE PayoutRefinement --------------------------
(***************************************************************************)
(* PayoutWorkflow keeps the promise of PayoutEscrow: which of its states   *)
(* and records stand for the stages and credits promised there.            *)
(***************************************************************************)
EXTENDS PayoutWorkflow

\* The stage of the promise a row has come to.
Stage(s) ==
  CASE s = "ABSENT"           -> "none"
    [] s \in CLAIMABLE_STATES -> "open"
    [] s = "EXPIRED"          -> "lapsed"
    [] s = "COMPLETED"        -> "paid"
    [] s = "CANCELLED"        -> "refunded"
    [] OTHER                  -> "taken"

\* Who has been credited for t, and how often.
Credited(t) ==
  (IF reimbursed[t] > 0 THEN {<<paidCaptain[t], reimbursed[t]>>} ELSE {})
    \cup (IF refunded[t] > 0 THEN {<<"PARTY", refunded[t]>>} ELSE {})

Escrowed == INSTANCE PayoutEscrow WITH
  stage <- [t \in Payouts |-> Stage(status[t])],
  holder <- captainId,
  barred <- previousCaptainIds,
  credited <- [t \in Payouts |-> Credited(t)]

\* The workflow keeps the promise of PayoutEscrow: every write of a handler
\* or sweep is one step of it or none.
KeepsTheEscrow == Escrowed!Spec
=============================================================================
