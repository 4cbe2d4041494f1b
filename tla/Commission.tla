----------------------------- MODULE Commission -----------------------------
(***************************************************************************)
(* What a payment costs its party and pays its captain: the pure functions *)
(* of commission.service.ts and the rounding of utils/money.ts.            *)
(*                                                                         *)
(* Amounts are paise.  A rate is in hundredths of a percent; the settings  *)
(* hold percentages from 0 to 100.                                         *)
(***************************************************************************)
EXTENDS Integers

CONSTANT FallsShort   \* the <<paise, rate>> whose product of doubles is short of it

Whole == 10000
Rates == 0..Whole

\* null: admin has set no rate for the account.
NoRate == -1
OwnRates == Rates \cup {NoRate}

Directions == {"PAY_IN", "PAY_OUT"}

\* Half of a paise.
Half == Whole \div 2

\* Rounded half up, unless the figure is half a paise and the product of
\* doubles fell short of it: 2.28% of 1250 is 28.499999999999996, and the
\* EPSILON the code adds is too small to be felt.  Away from a half the error
\* of a double decides nothing.
percentOfPaise(paise, rate) ==
  LET product == paise * rate IN
  IF product % Whole = Half /\ <<paise, rate>> \in FallsShort
    THEN product \div Whole
    ELSE (product + Half) \div Whole

\* config.party[d], config.captain[d]: the default rates; party[d]: its own.
partyRateFor(d, config, party) ==
  IF party[d] # NoRate THEN party[d] ELSE config.party[d]

\* lockedDefault: the default the work was priced under, kept on its row.
captainRateFor(d, config, captain, lockedDefault) ==
  CASE captain[d] # NoRate                            -> captain[d]
    [] captain[d] = NoRate /\ lockedDefault # NoRate  -> lockedDefault
    [] captain[d] = NoRate /\ lockedDefault = NoRate  -> config.captain[d]

\* The captain's half of what the party was charged, capped at the whole of it.
repriceCaptainShare(charge, amount, agreedRate, partyRate) ==
  LET uncapped == percentOfPaise(amount, agreedRate)
      capped   == charge < uncapped
      captain  == IF capped THEN charge ELSE uncapped
  IN  [captainPaise  |-> captain,
       platformPaise |-> charge - captain,
       captainRate   |-> IF capped THEN partyRate ELSE agreedRate,
       capped        |-> capped]

\* partyPaise, and its split.
chargeFor(d, amount, config, party) ==
  percentOfPaise(amount, partyRateFor(d, config, party))

commissionFor(d, amount, config, party, captain) ==
  repriceCaptainShare(chargeFor(d, amount, config, party), amount,
                      captainRateFor(d, config, captain, NoRate),
                      partyRateFor(d, config, party))

-----------------------------------------------------------------------------
RateConfigs == [party : [Directions -> Rates], captain : [Directions -> Rates]]
AccountRates == [Directions -> OwnRates]
=============================================================================
