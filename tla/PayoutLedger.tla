---------------------------- MODULE PayoutLedger ----------------------------
(***************************************************************************)
(* The books of PayoutWorkflow: properties that add balances up.           *)
(***************************************************************************)
EXTENDS PayoutWorkflow, Totals

\* The rows, the accounts and the requests being served can be counted.
ASSUME FiniteAssumption ==
  IsFiniteSet(Payouts) /\ IsFiniteSet(Captains) /\ IsFiniteSet(Workers)

\* What the party was debited for a payout it would be refunded today.
Billed(t) == Amount[t] + commissionPaise[t] + adminCommissionPaise[t]

\* Committed by the party to a payout that has not ended.
Escrow(t) == IF status[t] \notin TERMINAL_STATES \cup {"ABSENT"} THEN Billed(t) ELSE 0

\* Committed by the captain who holds it.
Held(t) == IF status[t] \in DMC_HELD_STATES THEN Amount[t] ELSE 0

\* What a running job has taken and not yet passed on, or has yet to pay.
InFlight(w) ==
  LET j == jobs[w]
      amount == Amount[j.t]
      charge == j.share + j.platform
  IN CASE j.pc \in {"insert", "refundDebit"}    -> amount + Charge[j.t]
       [] j.pc \in {"claim", "release"}         -> amount
       [] j.pc = "supersede" /\ j.c # None      -> amount
       [] j.pc = "releaseCancelled"             -> 2 * amount + charge
       [] j.pc = "refund"                       -> amount + charge
       [] j.pc \in {"commission", "collect"}    -> 2 * amount + charge
       [] j.pc = "reimburse"                    -> 2 * amount
       [] OTHER                                 -> 0

Ledger ==
  partyDmc + pool
    + Total(dmc, Captains)
    + Total([t \in Payouts |-> Escrow(t) + Held(t)], Payouts)
    + Total([w \in Workers |-> InFlight(w)], Workers)

OpeningTotal == OpeningParty + Total(OpeningDmc, Captains)

\* Every paise is in a balance, committed to an open payout, or in the hands
\* of a running request; a process that stops half way can strand money but
\* nothing ever creates it ("so it can never pay out more than the party was
\* charged").
MoneyConserved ==
  IF crashes = 0 THEN Ledger = OpeningTotal ELSE Ledger <= OpeningTotal

\* A running job has taken the amount of t from c, or must still return it.
Carries(w, t, c) ==
  /\ jobs[w].t = t /\ jobs[w].c = c
  /\ jobs[w].pc \in {"claim", "release", "supersede", "releaseCancelled",
                     "commission", "collect", "reimburse"}

\* What is held from a captain for a payout: the amount once while they hold
\* it, and once for each request that has taken or must still return it.
DueOn(t, c) ==
  (IF captainId[t] = c /\ status[t] \in DMC_HELD_STATES THEN 1 ELSE 0)
  + Total([w \in Workers |-> IF Carries(w, t, c) THEN 1 ELSE 0], Workers)

\* A captain's DMC is held exactly while they hold the payout: never released
\* twice, never released to another, and only a stopped process can strand it.
HoldsMatchHolders ==
  \A t \in Payouts, c \in Captains :
    IF crashes = 0 THEN hold[t][c] = DueOn(t, c) ELSE hold[t][c] >= DueOn(t, c)
=============================================================================
