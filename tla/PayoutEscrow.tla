---------------------------- MODULE PayoutEscrow ----------------------------
(***************************************************************************)
(* What a pay-out promises its party and its captains.  The party commits  *)
(* the money once; one captain at a time takes the work, and whoever gives *)
(* it up is barred from it; it ends paid or refunded, and then exactly one *)
(* of them is credited, once.                                              *)
(***************************************************************************)
EXTENDS Naturals

CONSTANTS Payouts, Captains, None

VARIABLES
  stage,     \* none, open, taken, lapsed, paid, refunded
  holder,    \* the captain whose work it is
  barred,    \* the captains who had it and lost it
  credited   \* <<who, times>>: the credits made

vars == <<stage, holder, barred, credited>>

Stages == {"none", "open", "taken", "lapsed", "paid", "refunded"}

Init ==
  /\ stage = [t \in Payouts |-> "none"]
  /\ holder = [t \in Payouts |-> None]
  /\ barred = [t \in Payouts |-> {}]
  /\ credited = [t \in Payouts |-> {}]

Move(t, from, to) == stage[t] \in from /\ stage' = [stage EXCEPT ![t] = to]

Commit(t) == Move(t, {"none"}, "open") /\ UNCHANGED <<holder, barred, credited>>

Take(t, c) ==
  /\ Move(t, {"open"}, "taken")
  /\ c \notin barred[t]
  /\ holder' = [holder EXCEPT ![t] = c]
  /\ UNCHANGED <<barred, credited>>

Lapse(t) == Move(t, {"taken"}, "lapsed") /\ UNCHANGED <<holder, barred, credited>>

GiveUp(t) ==
  /\ Move(t, {"taken", "lapsed"}, "open")
  /\ holder' = [holder EXCEPT ![t] = None]
  /\ barred' = [barred EXCEPT ![t] = @ \cup {holder[t]}]
  /\ UNCHANGED credited

Owed(t) == IF stage'[t] = "paid" THEN <<holder[t], 1>> ELSE <<"PARTY", 1>>

\* Whoever is owed is credited with the decision, or later.
CreditNow(t) == credited[t] = {} /\ credited' = [credited EXCEPT ![t] = {Owed(t)}]

Pay(t) ==
  /\ Move(t, {"taken"}, "paid")
  /\ CreditNow(t) \/ UNCHANGED credited
  /\ UNCHANGED <<holder, barred>>

Refund(t) ==
  /\ Move(t, {"open", "taken"}, "refunded")
  /\ CreditNow(t) \/ UNCHANGED credited
  /\ UNCHANGED <<holder, barred>>

Credit(t) ==
  /\ stage[t] \in {"paid", "refunded"}
  /\ CreditNow(t)
  /\ UNCHANGED <<stage, holder, barred>>

Next ==
  \E t \in Payouts :
    \/ Commit(t) \/ Lapse(t) \/ GiveUp(t) \/ Pay(t) \/ Refund(t) \/ Credit(t)
    \/ \E c \in Captains : Take(t, c)

Spec == Init /\ [][Next]_vars
=============================================================================
