------------------------------- MODULE MCPayIn -------------------------------
(***************************************************************************)
(* PayIn for TLC.                                                          *)
(***************************************************************************)
EXTENDS PayInLedger, TLC

\* Two pay-ins of different size and charge; a captain can carry one at a
\* time, so that a hold can be refused.  One agreed share is paid in full,
\* the other is capped.
MCAmount       == [t \in Payments |-> IF t = CHOOSE u \in Payments : TRUE THEN 10 ELSE 8]
MCCharge       == [t \in Payments |-> 3]
MCDefaultShare == [t \in Payments |-> 1]
MCAgreedShare  == [c \in Captains |-> IF c = CHOOSE d \in Captains : TRUE THEN 5 ELSE 2]
MCCeiling      == [c \in Captains |-> 15]
MCOpeningDmc   == [c \in Captains |-> 12]

\* Requests are interchangeable.
MCSymmetry == Permutations(Workers)
=============================================================================
