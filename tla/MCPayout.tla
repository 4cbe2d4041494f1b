------------------------------ MODULE MCPayout ------------------------------
(***************************************************************************)
(* PayoutWorkflow for TLC: small amounts that differ where it matters.     *)
(***************************************************************************)
EXTENDS PayoutLedger, PayoutRefinement, Commission, TLC

\* Amounts differ from each other and from every share, so that a payment of
\* the wrong figure shows up in the sums.  The captains' agreed shares fall
\* on both sides of the charge: 2 is paid in full, 5 is capped.
MCConfig == [party |-> [d \in Directions |-> 3000], captain |-> [d \in Directions |-> 1000]]
MCNoRates == [d \in Directions |-> NoRate]
MCRates(c) == [d \in Directions |-> IF c = CHOOSE e \in Captains : TRUE THEN 2000 ELSE 5000]

MCAmount       == [t \in Payouts |-> 10]
MCCharge       == [t \in Payouts |-> chargeFor("PAY_OUT", Amount[t], MCConfig, MCNoRates)]
MCDefaultShare == [t \in Payouts |->
  commissionFor("PAY_OUT", Amount[t], MCConfig, MCNoRates, MCNoRates).captainPaise]
MCAgreedShare  == [c \in Captains |->
  percentOfPaise(10, captainRateFor("PAY_OUT", MCConfig, MCRates(c), NoRate))]
MCCeiling      == [c \in Captains |-> 15]
\* Enough for one hold, not for two.
MCOpeningDmc   == [c \in Captains |-> 12]

\* The process may stop where transactions make up for it; the compensations
\* of a standalone server do not survive a stop.
MCCrashes == [d \in BOOLEAN |-> IF d THEN 1 ELSE 0]
MCNoCrashes == [d \in BOOLEAN |-> 0]

\* Requests are interchangeable.
MCSymmetry == Permutations(Workers)
=============================================================================
