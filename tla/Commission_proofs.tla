-------------------------- MODULE Commission_proofs --------------------------
(***************************************************************************)
(* What the split of a charge guarantees, for every amount and all rates.  *)
(***************************************************************************)
EXTENDS Commission, TLAPS

\* A percentage of an amount is an amount, and no more than the whole of it.
LEMMA PercentBounds ==
  ASSUME NEW a \in Nat, NEW r \in Rates
  PROVE  percentOfPaise(a, r) \in 0..a
<1>1. a * r \in Nat /\ a * r <= a * 10000
  BY DEF Rates, Whole
<1> DEFINE p == a * r
<1>2. p \in Nat /\ p <= a * 10000
  BY <1>1
<1> HIDE DEF p
<1>3. (p + 5000) \div 10000 \in 0..a /\ p \div 10000 \in 0..a
  BY <1>2
<1> QED
  BY <1>3 DEF percentOfPaise, Whole, Half, p

\* A higher rate never gives a smaller figure, whatever the rounding and
\* wherever the doubles fall short.
LEMMA PercentMonotone ==
  ASSUME NEW a \in Nat, NEW r \in Rates, NEW s \in Rates, r < s
  PROVE  percentOfPaise(a, r) <= percentOfPaise(a, s)
<1>1. a * r \in Nat /\ a * s \in Nat /\ a * r <= a * s /\ (a # 0 => a * r < a * s)
  BY DEF Rates, Whole
<1> DEFINE p == a * r
           q == a * s
<1>2. p \in Nat /\ q \in Nat /\ p <= q /\ (a # 0 => p < q)
  BY <1>1
<1>3. a = 0 => p = 0 /\ q = 0
  BY DEF Rates, Whole
<1> HIDE DEF p, q
<1>4. /\ p \div 10000 <= q \div 10000
      /\ (p + 5000) \div 10000 <= (q + 5000) \div 10000
      /\ p \div 10000 <= (q + 5000) \div 10000
  BY <1>2
<1>5. p < q /\ q % 10000 = 5000 => (p + 5000) \div 10000 <= q \div 10000
  BY <1>2
<1>6. a = 0 => p % 10000 = 0 /\ q % 10000 = 0
  BY <1>3
<1> QED
  BY <1>2, <1>4, <1>5, <1>6 DEF percentOfPaise, Whole, Half, p, q

\* Whichever rates are set, the rates that apply are rates.
LEMMA RatesApply ==
  ASSUME NEW d \in Directions, NEW config \in RateConfigs,
         NEW party \in AccountRates, NEW captain \in AccountRates, NEW locked \in OwnRates
  PROVE  /\ partyRateFor(d, config, party) \in Rates
         /\ captainRateFor(d, config, captain, locked) \in Rates
<1>1. party[d] \in OwnRates /\ captain[d] \in OwnRates
  BY DEF AccountRates
<1>2. config.party[d] \in Rates /\ config.captain[d] \in Rates
  BY DEF RateConfigs
<1>3. partyRateFor(d, config, party) \in Rates
  BY <1>1, <1>2 DEF partyRateFor, OwnRates
<1>4. captainRateFor(d, config, captain, locked) \in Rates
  BY <1>1, <1>2 DEF captainRateFor, OwnRates
<1> QED
  BY <1>3, <1>4

\* Re-pricing divides the charge and never changes it: both halves are amounts
\* and they add up to what the party was billed and would be refunded.
THEOREM RepriceKeepsTheCharge ==
  ASSUME NEW charge \in Nat, NEW amount \in Nat, NEW agreed \in Rates, NEW rate \in Rates
  PROVE  LET split == repriceCaptainShare(charge, amount, agreed, rate)
         IN  /\ split.captainPaise \in 0..charge /\ split.platformPaise \in 0..charge
             /\ split.captainPaise + split.platformPaise = charge
<1>1. percentOfPaise(amount, agreed) \in Nat
  BY PercentBounds
<1> QED
  BY <1>1 DEF repriceCaptainShare

\* What PayoutWorkflow and PayIn assume of their constants is so: a charge is no
\* more than the amount, and the captain's share of it, at whichever rate, no
\* more than the charge.
THEOREM SplitIsCovered ==
  ASSUME NEW d \in Directions, NEW amount \in Nat, NEW config \in RateConfigs,
         NEW party \in AccountRates, NEW captain \in AccountRates
  PROVE  LET charge == chargeFor(d, amount, config, party)
             split  == commissionFor(d, amount, config, party, captain)
         IN  /\ charge \in 0..amount
             /\ split.captainPaise \in 0..charge
             /\ split.captainPaise + split.platformPaise = charge
<1> DEFINE charge == chargeFor(d, amount, config, party)
           agreed == captainRateFor(d, config, captain, NoRate)
           rate   == partyRateFor(d, config, party)
<1>1. agreed \in Rates /\ rate \in Rates
  BY RatesApply DEF OwnRates
<1>2. charge \in 0..amount
  BY <1>1, PercentBounds DEF chargeFor
<1>3. charge \in Nat
  BY <1>2
<1> HIDE DEF charge, agreed, rate
<1>4. LET split == repriceCaptainShare(charge, amount, agreed, rate)
      IN  /\ split.captainPaise \in 0..charge /\ split.platformPaise \in 0..charge
          /\ split.captainPaise + split.platformPaise = charge
  BY <1>1, <1>3, RepriceKeepsTheCharge
<1>5. commissionFor(d, amount, config, party, captain)
        = repriceCaptainShare(charge, amount, agreed, rate)
  BY DEF commissionFor, charge, agreed, rate
<1> QED
  BY <1>2, <1>4, <1>5 DEF charge

\* The rate the ledger shows is the one the captain was paid at, capped or not
\* (commission.service.ts:86): the share is that rate of the amount; and the
\* cap bites only a captain who was promised more than the party pays.
THEOREM PaidAtTheRateShown ==
  ASSUME NEW amount \in Nat, NEW agreed \in Rates, NEW rate \in Rates
  PROVE  LET split == repriceCaptainShare(percentOfPaise(amount, rate), amount, agreed, rate)
         IN  /\ split.captainPaise = percentOfPaise(amount, split.captainRate)
             /\ split.capped => agreed > rate
<1> DEFINE charge   == percentOfPaise(amount, rate)
           uncapped == percentOfPaise(amount, agreed)
<1>1. charge \in Nat /\ uncapped \in Nat
  BY PercentBounds
<1>2. charge < uncapped => agreed > rate
  <2> SUFFICES ASSUME ~(agreed > rate) PROVE ~(charge < uncapped)
    OBVIOUS
  <2>1. agreed < rate \/ agreed = rate
    BY DEF Rates, Whole
  <2>2. uncapped <= charge
    BY <2>1, <1>1, PercentMonotone
  <2> QED
    BY <2>2, <1>1
<1> QED
  BY <1>1, <1>2 DEF repriceCaptainShare
=============================================================================
