----------------------------- MODULE PayInLedger -----------------------------
(***************************************************************************)
(* The books of PayIn: properties that add balances up.                    *)
(***************************************************************************)
EXTENDS PayIn, Totals

\* The rows, the accounts and the requests being served can be counted.
ASSUME PayInFiniteAssumption ==
  IsFiniteSet(Payments) /\ IsFiniteSet(Captains) /\ IsFiniteSet(Workers)

\* Held by a row that has not ended.
Held(t) == IF status[t] \in TRANSACTION_HELD_STATES THEN Amount[t] ELSE 0

\* What a running job has taken and not yet passed on, less what it has yet
\* to take for the row it has claimed.
InFlight(w) ==
  LET t == jobs[w].t IN
  CASE jobs[w].pc \in UnheldPcs   -> 0 - Amount[t]
    [] jobs[w].pc \in {"release", "credit"} -> Amount[t]
    [] jobs[w].pc = "collect"     -> Charge[t]
    [] jobs[w].pc \in {"creditShare", "collectBack"} -> commissionPaise[t]
    [] OTHER                      -> 0

Books ==
  partyDmc + pool
    + Total(dmc, Captains)
    + Total([t \in Payments |-> Held(t)], Payments)
    + Total([w \in Workers |-> InFlight(w)], Workers)

\* Every paise is in a balance, held for an open pay-in or in the hands of a
\* running request, whatever others take from the pool or put into it.  DMC is
\* made only where a share is put back that the captain has already been given.
BooksBalance == Books = Total(OpeningDmc, Captains) + funded - drawn + minted

\* What the job of w will still give back to c for t, or has still to take.
Due(w, t, c) ==
  IF jobs[w].t = t /\ jobs[w].c = c
  THEN CASE jobs[w].pc = "release"   -> 1
         [] jobs[w].pc \in UnheldPcs -> 0 - 1
         [] OTHER                    -> 0
  ELSE 0

\* What has been taken from c for t: the amount once while c has the pay-in or
\* it was settled from them, once for each release that is due, and not yet
\* while the hold itself is due.
DueOn(t, c) ==
  (IF captainId[t] = c /\ status[t] \in TRANSACTION_HELD_STATES \cup {"SETTLED"} THEN 1 ELSE 0)
  + Total([w \in Workers |-> Due(w, t, c)], Workers)

\* A captain's DMC is committed exactly while they carry the pay-in.
HoldsMatchCarriers ==
  \A t \in Payments, c \in Captains : hold[t][c] = DueOn(t, c)
=============================================================================
