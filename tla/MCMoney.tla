------------------------------- MODULE MCMoney -------------------------------
(***************************************************************************)
(* What admin decides (Desk), for TLC.                                     *)
(***************************************************************************)
EXTENDS Desk, TLC

\* Three shares from two parties, the oldest and the newest from the same one,
\* so that a portion may hold two slices and a row may be drawn on twice.
MCRows == 1..3
MCEarned == [r \in Rows |-> IF r = 1 THEN 2 ELSE 1]
MCSource == [r \in Rows |-> IF r = 2 THEN "B" ELSE "A"]

\* A deposit of which half is locked allows a purchase of the smaller amount;
\* a redemption may take more than the captain's commission, or less.
MCOwner == [r \in AllRequests |-> IF r \in TopUps THEN "A" ELSE "c"]
MCAmount == [r \in AllRequests |-> CASE r \in Deposits -> 5
                                     [] r \in LimitPurchases -> 2
                                     [] r \in Redemptions -> 3
                                     [] OTHER -> 1]

ASSUME WithdrawalAssumption
ASSUME Applying!RegistrationAssumption

\* Requests in progress are interchangeable, and so are withdrawals.
MCSymmetry ==
  Permutations(Workers) \cup Permutations(Requests) \cup Permutations(Handlers)
=============================================================================
