---------------------------- MODULE FundingLedger ----------------------------
(***************************************************************************)
(* The books of Funding: where every paise that came in is.                *)
(***************************************************************************)
EXTENDS Funding, Totals

\* The rows, the accounts and the requests being served can be counted.
ASSUME FundingFiniteAssumption ==
  /\ IsFiniteSet(AllRequests) /\ IsFiniteSet(Handlers)
  /\ IsFiniteSet(Captains) /\ IsFiniteSet(Parties)

\* What admin has confirmed receiving for r.
Confirmed(r) == IF status[r] = "APPROVED" THEN Amount[r] ELSE 0

CameIn == funded + Total([r \in AllRequests |-> Confirmed(r)], AllRequests)

\* What a captain asked to have back and has not been refused.
Redeemed(r) == r \in Redemptions /\ status[r] \in {"PENDING", "PAID"}
AskedBack(r) == IF Redeemed(r) THEN Amount[r] ELSE 0
FeeSpent(r, c) == IF Redeemed(r) /\ Owner[r] = c THEN consumed[r] ELSE 0

\* What a handler has taken from one place and not put in another.
OnHand(h) ==
  CASE serving[h].pc = "credit" -> Amount[serving[h].r]
    [] serving[h].pc \in {"insertHeld", "giveBack", "creditShare", "collect"} -> serving[h].amount
    [] OTHER -> 0

FeeInHand(h, c) ==
  IF serving[h].pc \in {"insertHeld", "giveBack"} /\ serving[h].c = c THEN serving[h].fee ELSE 0

Balances ==
  Total(partyBalance, Parties) + poolBalance + Total(dmc, Captains)
    + Total(collateral, Captains) + Total(working, Captains)

WhereItIs ==
  Balances + Total([r \in AllRequests |-> AskedBack(r)], AllRequests)
    + Total([h \in Handlers |-> OnHand(h)], Handlers)

\* Every approved request is credited once and in full, every redemption is
\* debited once, and what is refused comes back; a process that stops can lose
\* what it had in hand.  An entry that cannot be written after its credit is
\* the exception: see NothingMinted.
FundsAddUp ==
  refused = 0 => IF stops = 0 THEN WhereItIs = CameIn ELSE WhereItIs <= CameIn

\* Commission of c that is retained, was spent by a redemption, which remembers
\* it for the day it is refused, or is on its way back.
Kept(c) ==
  earned[c] + Total([r \in AllRequests |-> FeeSpent(r, c)], AllRequests)
    + Total([h \in Handlers |-> FeeInHand(h, c)], Handlers)

\* A captain's earnings and their capital do not turn into each other: what was
\* ever paid as commission is all there, unless the process stopped.
FeesAddUp ==
  \A c \in Captains :
    IF stops = 0 THEN Kept(c) = commissions[c] ELSE Kept(c) <= commissions[c]

\* What captainBalance.service.ts:53 says of a commission: "It is a *transfer*,
\* never a credit out of nowhere".  Without transactions it is not: the handler
\* that puts a failed credit back in the pool also catches the entry that is
\* written after the credit has landed.
NothingMinted == WhereItIs <= CameIn
=============================================================================
