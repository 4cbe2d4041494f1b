------------------------------ MODULE Callbacks ------------------------------
(***************************************************************************)
(* Telling a party on its own server how a payment went:                   *)
(* callback.service.ts, the handlers that send at once, and the pass of    *)
(* transactionSweep.service.ts that tries again.                           *)
(*                                                                         *)
(* One payment, a pay-in or a payout, with a callback URL and the key it   *)
(* was made with; a pass lists up to 50, each on its own.  The payment's   *)
(* workflow is PayIn and PayoutWorkflow: only what a callback reports of   *)
(* it is kept.                                                             *)
(***************************************************************************)
EXTENDS Integers, FiniteSets

CONSTANTS
  Handlers,        \* requests whose callback is on its way
  Sweeper,         \* the one retry pass: a second does not start while it runs
  MaxAttempts,     \* MAX_CALLBACK_ATTEMPTS
  MaxReturns,      \* bound: how often a payout is handed to another captain
  MaxFaults        \* bound: delivery records lost and process stops

CallbacksAssumption ==
  /\ Sweeper \notin Handlers
  /\ MaxAttempts \in Nat \ {0} /\ MaxReturns \in Nat /\ MaxFaults \in Nat

Workers == Handlers \cup {Sweeper}

VARIABLES
  direction,     \* of the payment
  status,
  told,          \* the statuses the party's endpoint accepted
  delivered,     \* callbackDeliveredAt is set
  attempts,      \* callbackAttempts; compared with MaxAttempts only, so it stops there
  jobs, returns, faults

rowVars == <<direction, status, told, delivered, attempts>>
vars == <<rowVars, jobs, returns, faults>>

\* OPEN is every status of a payment under way, but AUDIT_PENDING: ASKED.
Statuses == {"OPEN", "ASKED", "EXPIRED", "SETTLED", "COMPLETED", "CANCELLED"}
TERMINAL_PAYOUT_STATUSES == {"COMPLETED", "CANCELLED", "EXPIRED"}

\* The statuses nothing leaves.
Final == IF direction = "PAY_IN" THEN {"SETTLED", "EXPIRED"} ELSE {"COMPLETED", "CANCELLED"}

\* payload: the status the sender read; answered: whether the answer came.
Job == [pc : {"idle", "post", "record"}, payload : Statuses, answered : BOOLEAN]
Idle == [pc |-> "idle", payload |-> "OPEN", answered |-> FALSE]

Init ==
  /\ direction \in {"PAY_IN", "PAY_OUT"}
  /\ status = "OPEN" /\ told = {}
  /\ delivered = FALSE /\ attempts = 0
  /\ jobs = [w \in Workers |-> Idle]
  /\ returns = 0 /\ faults = 0

-----------------------------------------------------------------------------
(* The payment, and the handlers that send at once *)

Send(w, s) ==
  jobs[w].pc = "idle" /\ jobs' = [jobs EXCEPT ![w] = [Idle EXCEPT !.pc = "post", !.payload = s]]

\* Without an ACTIVE key of the party nothing is sent.
SendIfKeyed(w, s) == Send(w, s) \/ UNCHANGED jobs

Moves(from, to) ==
  /\ status = from /\ status' = to
  /\ UNCHANGED <<direction, told, delivered, attempts, faults>>

SettleAnyway(w) ==
  /\ direction = "PAY_IN"
  /\ status' = (IF status = "OPEN" THEN "SETTLED" ELSE status) /\ SendIfKeyed(w, "SETTLED")
  /\ UNCHANGED <<direction, told, delivered, attempts, returns, faults>>

\* The gateway's webhook: the pay-in is settled, then the party told.
Settle(w) ==
  /\ direction = "PAY_IN"
  /\ Moves("OPEN", "SETTLED") /\ SendIfKeyed(w, "SETTLED")
  /\ UNCHANGED returns

\* The other ways a pay-in ends: its window closes, or admin decides a dispute.
EndPayIn ==
  /\ direction = "PAY_IN"
  /\ \E s \in Final : Moves("OPEN", s)
  /\ UNCHANGED <<jobs, returns>>

\* submitProof: the party is asked, and nudged.
AskParty(w) ==
  /\ direction = "PAY_OUT"
  /\ Moves("OPEN", "ASKED") /\ SendIfKeyed(w, "ASKED")
  /\ UNCHANGED returns

\* A payout is approved, cancelled, or runs out with its captain.
EndPayout ==
  /\ direction = "PAY_OUT"
  /\ Moves("ASKED", "COMPLETED") \/ Moves("OPEN", "CANCELLED") \/ Moves("OPEN", "EXPIRED")
  /\ UNCHANGED <<jobs, returns>>

\* The captain hands an expired payout back, or a rejected one is reassigned:
\* the next captain works on the same row.
ReturnPayout ==
  /\ direction = "PAY_OUT" /\ returns < MaxReturns
  /\ Moves("EXPIRED", "OPEN") \/ Moves("ASKED", "OPEN")
  /\ returns' = returns + 1
  /\ UNCHANGED jobs

\* replayCallback: the party asks to be told of a pay-in again, whatever its
\* status.
Replay(w) ==
  /\ direction = "PAY_IN"
  /\ Send(w, status)
  /\ UNCHANGED <<rowVars, returns, faults>>

-----------------------------------------------------------------------------
(* The retry pass *)

RetriedStatuses ==
  IF direction = "PAY_IN" THEN {"SETTLED", "EXPIRED"} ELSE TERMINAL_PAYOUT_STATUSES

Pending == ~delivered /\ attempts < MaxAttempts /\ status \in RetriedStatuses

\* What was listed is sent later, as it was read.
Retry ==
  /\ Pending
  /\ Send(Sweeper, status)
  /\ UNCHANGED <<rowVars, returns, faults>>

-----------------------------------------------------------------------------
(* One callback *)

\* The endpoint accepts it and answers; accepts it and the answer is lost or
\* late; or does not accept it (or it could not be signed).
Post(w) ==
  /\ jobs[w].pc = "post"
  /\ \E accepted, answered \in BOOLEAN :
       /\ answered => accepted
       /\ told' = IF accepted THEN told \cup {jobs[w].payload} ELSE told
       /\ jobs' = [jobs EXCEPT ![w].pc = "record", ![w].answered = answered]
  /\ UNCHANGED <<direction, status, delivered, attempts, returns, faults>>

\* Of a payout only a callback with one of the terminal statuses is recorded.
IsRecorded(s) == direction = "PAY_IN" \/ s \in TERMINAL_PAYOUT_STATUSES

WriteDelivery(w) ==
  /\ attempts' = IF attempts < MaxAttempts THEN attempts + 1 ELSE attempts
  /\ delivered' = jobs[w].answered

RecordEverySend(w) ==
  /\ jobs[w].pc = "record"
  /\ WriteDelivery(w)
  /\ jobs' = [jobs EXCEPT ![w] = Idle]
  /\ UNCHANGED <<direction, status, told, returns, faults>>

Record(w) ==
  /\ jobs[w].pc = "record"
  /\ IF IsRecorded(jobs[w].payload) THEN WriteDelivery(w) ELSE UNCHANGED <<delivered, attempts>>
  /\ jobs' = [jobs EXCEPT ![w] = Idle]
  /\ UNCHANGED <<direction, status, told, returns, faults>>

\* The write of the record fails, and the failure is swallowed.
RecordLost(w) ==
  /\ jobs[w].pc = "record" /\ faults < MaxFaults
  /\ faults' = faults + 1
  /\ jobs' = [jobs EXCEPT ![w] = Idle]
  /\ UNCHANGED <<rowVars, returns>>

\* The process stops: what was on its way is forgotten.
Crash ==
  /\ \E w \in Workers : jobs[w].pc # "idle"
  /\ faults < MaxFaults
  /\ faults' = faults + 1
  /\ jobs' = [w \in Workers |-> Idle]
  /\ UNCHANGED <<rowVars, returns>>

-----------------------------------------------------------------------------
SendStep(w) == Post(w) \/ Record(w) \/ RecordLost(w)

Next ==
  \/ \E w \in Workers : SendStep(w)
  \/ \E w \in Handlers : Settle(w) \/ AskParty(w) \/ Replay(w)
  \/ EndPayIn \/ EndPayout \/ ReturnPayout
  \/ Retry \/ Crash

\* A send runs into its timeout at the latest, and the pass runs every minute.
Fairness == (\A w \in Workers : WF_vars(SendStep(w))) /\ WF_vars(Retry)

Spec == Init /\ [][Next]_vars
FairSpec == Spec /\ Fairness

-----------------------------------------------------------------------------
(* Properties *)

\* Every variable has its type.
TypeOK ==
  /\ direction \in {"PAY_IN", "PAY_OUT"}
  /\ status \in Statuses /\ told \subseteq Statuses
  /\ delivered \in BOOLEAN /\ attempts \in 0..MaxAttempts
  /\ jobs \in [Workers -> Job]
  /\ returns \in 0..MaxReturns /\ faults \in 0..MaxFaults

\* A party that is told an ending is told the ending the payment had, however
\* the sends of a handler and of the pass overlap; and a delivery that is on
\* record was made.
ToldAsItEnded ==
  /\ told \cap Final # {} => told \cap Final = {status}
  /\ delivered => told # {}

\* The delivery on record is of a status that was not the ending: a pay-in
\* replayed while under way, a payout told EXPIRED and handed on.
ClosedEarly == delivered /\ (IF direction = "PAY_IN" THEN "OPEN" ELSE "EXPIRED") \in told

\* Every ending reaches the party, or the attempts are used up, or an earlier
\* status is on record as delivered: through lost answers, lost records and
\* restarts.  The nudge about a payout does not close the book on it.
EndingIsTold ==
  status \in Final ~> (status \in told \/ attempts = MaxAttempts \/ ClosedEarly)

\* What the comment above TERMINAL_PAYOUT_STATUSES promises: the delivery record
\* of a payout is only written for its last word, so that the ending is sent.
\* It is not so: EXPIRED counts as one, and an expired payout is handed on.
DeliveredIsTheEnding ==
  direction = "PAY_OUT" /\ delivered /\ status \in Final => status \in told
=============================================================================
