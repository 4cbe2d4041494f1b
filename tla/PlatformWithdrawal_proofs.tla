--------------------- MODULE PlatformWithdrawal_proofs ---------------------
(***************************************************************************)
(* What holds of PlatformWithdrawal for every number of allocation rows,   *)
(* parties, requests and overlapping handlers, whatever the amounts: its   *)
(* types, and, under the timing assumption PromptRequests, that no share   *)
(* is promised or spent twice, that nothing available is hidden, that a    *)
(* share is paid for once, and that a request closes in full.              *)
(***************************************************************************)
EXTENDS PlatformWithdrawal, Totals_proofs

-----------------------------------------------------------------------------
(* Types.  No row is overdrawn: what a request sees of it is a natural     *)
(* number.  A handler knows the row or the request it works on.            *)

RowsInv ==
  /\ used \in [Rows -> Int] /\ \A r \in Rows : used[r] <= Earned[r]
  /\ rowStatus \in [Rows -> RowStatuses]
  /\ version \in [Rows -> Nat]

RequestsInv ==
  /\ requestStatus \in [Requests -> REQUEST_STATUSES \cup {None}]
  /\ portionStatus \in [Requests -> [Parties -> WITHDRAWAL_STATUSES \cup {None}]]
  /\ asked \in [Requests -> Nat]
  /\ slices \in [Requests -> [Rows -> Nat]]

MoneyInv == pool \in Nat /\ partyDmc \in [Parties -> Nat]

JobKnows(job) ==
  /\ job.pc = "consume" => job.row = 0
  /\ job.pc \in {"mark", "unmark"} => job.row \in Rows
  /\ job.pc \in {"portions"} \cup CancellingPcs \cup ConfirmingPcs => job.q \in Requests
  /\ job.pc \in {"debit", "credit"} => job.p \in Parties

JobsInv == jobs \in [Workers -> Job] /\ \A w \in Workers : JobKnows(jobs[w])

\* The constants are as assumed, and every variable has its type.
TypeInv ==
  /\ WithdrawalAssumption
  /\ useTransactions \in BOOLEAN /\ crashes \in Nat
  /\ RowsInv /\ RequestsInv /\ MoneyInv /\ JobsInv

-----------------------------------------------------------------------------
(* What the timing assumption buys *)

\* A cancellation overlaps with no request that draws and no other cancellation.
ExclusiveInv ==
  \A v, w \in Workers :
    v # w /\ jobs[v].pc \in CancellingPcs
      => jobs[w].pc \notin CreatingPcs \cup CancellingPcs

\* Nothing is stored for a request or a party before its insert.
StoredInv ==
  /\ \A q \in Requests :
       requestStatus[q] = None => \A p \in Parties : portionStatus[q][p] = None
  /\ \A q \in Requests, r \in Rows :
       portionStatus[q][Source[r]] = None => slices[q][r] = 0

\* Only without transactions is a request drawn and stored row by row; what a
\* draw left of a row is at least what there is of it now, and a request that
\* is being inserted has drawn all it planned.
DrawingInv ==
  \A w \in Workers :
    /\ jobs[w].pc \in {"draw", "mark", "insert", "portions", "debit", "credit"}
         => ~useTransactions
    /\ jobs[w].pc = "mark" => Earned[jobs[w].row] <= used[jobs[w].row] + jobs[w].left
    /\ jobs[w].pc \in {"insert", "portions"}
         => \A r \in Rows : jobs[w].plan[r] > 0 => r <= jobs[w].row

\* The portions of a request are stored by one handler, which has not stored
\* those it still plans; no party has answered yet.
StoringInv ==
  \A w \in Workers : jobs[w].pc = "portions" =>
    LET q == jobs[w].q IN
    /\ requestStatus[q] \notin {None, "CANCELLED"}
    /\ \A v \in Workers : v # w => ~ (jobs[v].pc = "portions" /\ jobs[v].q = q)
    /\ \A p \in Parties : portionStatus[q][p] \in {None, "PENDING"}
    /\ \A r \in Rows : jobs[w].plan[r] > 0 => portionStatus[q][Source[r]] = None

GivingPcs == {"release", "unmark", "cancelPortions"}

\* A cancellation that gives back slices works on portions nobody has paid, and
\* has no more left to give back than they hold; the row it gave to is as it
\* left it.  A cancelled request has no portion that is not cancelled.
GivingInv ==
  /\ \A w \in Workers : jobs[w].pc = "cancelRequest" =>
       \A p \in Parties : portionStatus[jobs[w].q][p] \in {None, "CANCELLED"}
  /\ \A q \in Requests : requestStatus[q] = "CANCELLED" =>
       \A p \in Parties : portionStatus[q][p] \in {None, "CANCELLED"}
  /\ \A w \in Workers : jobs[w].pc \in GivingPcs =>
       LET q == jobs[w].q IN
       /\ \A p \in Parties : portionStatus[q][p] \in {None, "PENDING"}
       /\ \A r \in Rows : jobs[w].plan[r] <= slices[q][r]
       /\ jobs[w].pc = "cancelPortions" => jobs[w].plan = NoSlices
       /\ jobs[w].pc = "unmark" =>
            version[jobs[w].row] = jobs[w].ver /\ used[jobs[w].row] = jobs[w].left

PromptInv ==
  /\ PromptRequests
  /\ ExclusiveInv /\ StoredInv /\ DrawingInv /\ StoringInv /\ GivingInv

\* The portion a confirmation pays for is settled.
ConfirmInv ==
  \A w \in Workers :
    jobs[w].pc \in {"debit", "credit"} => portionStatus[jobs[w].q][jobs[w].p] = "FULFILLED"

\* What party p was paid, is about to be paid, and is due.
Settled(q, p) == IF portionStatus[q][p] = "FULFILLED" THEN PortionAmount(q, p) ELSE 0
Paying(w, p) ==
  IF jobs[w].pc \in {"debit", "credit"} /\ jobs[w].p = p
    THEN PortionAmount(jobs[w].q, p) ELSE 0
Due(p) == Total([q \in Requests |-> Settled(q, p)], Requests)
OnItsWay(p) == Total([w \in Workers |-> Paying(w, p)], Workers)

PayingInv ==
  /\ ConfirmInv
  /\ \A p \in Parties :
       /\ partyDmc[p] + OnItsWay(p) <= Due(p)
       /\ useTransactions => partyDmc[p] = Due(p)

\* What a handler plans to draw, or has drawn, is what it was asked for.
PlannedInv ==
  \A w \in Workers :
    /\ jobs[w].pc \in {"draw", "mark", "insert"} => Total(jobs[w].plan, Rows) = jobs[w].amount
    /\ jobs[w].pc = "portions" =>
         Total(jobs[w].plan, Rows) + Total(slices[jobs[w].q], Rows) = asked[jobs[w].q]

Storing(q) == \E w \in Workers : jobs[w].pc = "portions" /\ jobs[w].q = q
Refreshing(q) == \E w \in Workers : jobs[w].pc \in {"refresh", "close"} /\ jobs[w].q = q

\* Once its portions are stored, a request has them all.
AskedInv ==
  \A q \in Requests :
    (useTransactions \/ crashes = 0) /\ requestStatus[q] # None /\ ~Storing(q)
      => Total(slices[q], Rows) = asked[q]

\* A request is closed, or being closed, when all its portions are settled; with
\* transactions, whoever settled the last of them is still to look.
ClosedInv ==
  /\ \A w \in Workers : jobs[w].pc = "close" => AllFulfilled(jobs[w].q)
  /\ \A q \in Requests : requestStatus[q] = "FULFILLED" => AllFulfilled(q)
  /\ \A q \in Requests :
       useTransactions /\ crashes = 0 /\ AllFulfilled(q)
         => requestStatus[q] = "FULFILLED" \/ Refreshing(q)

-----------------------------------------------------------------------------
(* Every step keeps the types *)

LEMMA SetJob ==
  ASSUME TypeInv, NEW w \in Workers, NEW job \in Job, JobKnows(job),
         jobs' = [jobs EXCEPT ![w] = job]
  PROVE  JobsInv'
<1>1. jobs' \in [Workers -> Job]
  BY DEF TypeInv, JobsInv
<1>2. ASSUME NEW v \in Workers PROVE JobKnows(jobs'[v])
  BY DEF TypeInv, JobsInv
<1>3. ASSUME NEW v \in Workers PROVE JobKnows(jobs[v])'
  BY <1>2, <1>3 DEF JobKnows
<1> QED
  BY <1>1, <1>3 DEF JobsInv

LEMMA NoSlicesType == TypeInv => NoSlices \in [Rows -> Nat] /\ Idle \in Job
BY DEF TypeInv, WithdrawalAssumption, NoSlices, Idle, Job, Pcs

LEMMA RowsOK ==
  TypeInv => /\ Rows \subseteq Nat /\ 0 \notin Rows
             /\ IsFiniteSet(Rows) /\ IsFiniteSet(Requests) /\ IsFiniteSet(Workers)
             /\ \A r \in Rows : Source[r] \in Parties /\ Earned[r] \in Nat
BY DEF TypeInv, WithdrawalAssumption

\* A handler that goes on with what it has.
LEMMA GotoType ==
  ASSUME TypeInv, NEW w \in Workers, NEW pc \in Pcs, Goto(w, pc),
         JobKnows([jobs[w] EXCEPT !.pc = pc])
  PROVE  JobsInv'
<1>1. jobs[w] \in Job
  BY DEF TypeInv, JobsInv
<1>2. [jobs[w] EXCEPT !.pc = pc] \in Job
  BY <1>1 DEF Job
<1>3. jobs' = [jobs EXCEPT ![w] = [jobs[w] EXCEPT !.pc = pc]]
  BY DEF Goto
<1> QED
  BY <1>2, <1>3, SetJob

LEMMA FinishType ==
  ASSUME TypeInv, NEW w \in Workers, Finish(w)
  PROVE  JobsInv'
<1>1. Idle \in Job /\ JobKnows(Idle)
  BY NoSlicesType DEF JobKnows, Idle, CancellingPcs, ConfirmingPcs
<1> QED
  BY <1>1, SetJob DEF Finish

\* What a request sees of a row, and what it plans to draw on it.
LEMMA CandidatesType ==
  ASSUME TypeInv
  PROVE  /\ Candidates \in [Rows -> Nat]
         /\ \A r \in Rows : Candidates[r] <= Available(r)
         /\ \A r \in Rows : Available(r) \in Nat
BY DEF TypeInv, WithdrawalAssumption, RowsInv, Candidates, Available

\* The plan draws no more on a row than was seen of it.
LEMMA FifoPlanType ==
  ASSUME TypeInv, NEW seen \in [Rows -> Nat], NEW amount \in Nat
  PROVE  /\ FifoPlan(seen, amount) \in [Rows -> Nat]
         /\ \A r \in Rows : FifoPlan(seen, amount)[r] <= seen[r]
<1> DEFINE Before(r) == Total(seen, {s \in Rows : s < r})
<1>1. ASSUME NEW r \in Rows PROVE Before(r) \in Nat
  BY FS_Subset, TotalNat DEF TypeInv, WithdrawalAssumption
<1> HIDE DEF Before
<1>2. ASSUME NEW r \in Rows
      PROVE  LET d == IF Before(r) >= amount THEN 0 ELSE Least(seen[r], amount - Before(r))
             IN d \in Nat /\ d <= seen[r]
  BY <1>1 DEF Least
<1>3. FifoPlan(seen, amount) =
        [r \in Rows |-> IF Before(r) >= amount THEN 0 ELSE Least(seen[r], amount - Before(r))]
  BY DEF FifoPlan, Before
<1> QED
  BY <1>2, <1>3

LEMMA PortionAmountType ==
  ASSUME TypeInv, NEW q \in Requests, NEW p \in Parties
  PROVE  PortionAmount(q, p) \in Nat
<1>1. IsFiniteSet(RowsOf(p)) /\ RowsOf(p) \subseteq Rows
  BY FS_Subset DEF TypeInv, WithdrawalAssumption, RowsOf
<1>2. \A r \in RowsOf(p) : slices[q][r] \in Nat
  BY <1>1 DEF TypeInv, RequestsInv
<1> QED
  BY <1>1, <1>2, TotalNat DEF PortionAmount

LEMMA StatusTypes ==
  /\ \A n : StatusAfterDraw(n) \in RowStatuses
  /\ {"AVAILABLE", "PARTIALLY_USED", "SETTLED"} \subseteq RowStatuses
BY DEF StatusAfterDraw, RowStatuses

LEMMA NoneIsNoStatus ==
  TypeInv => None \notin {"PENDING", "PARTY_PAID", "FULFILLED", "DISPUTED", "CANCELLED"}
BY DEF TypeInv, WithdrawalAssumption, WITHDRAWAL_STATUSES

LEMMA TypeStep == TypeInv /\ [Next]_vars => TypeInv'
<1> SUFFICES ASSUME TypeInv, [Next]_vars PROVE TypeInv'
  OBVIOUS
<1>1. ASSUME NEW r \in Rows, CreateAllocation(r)
      PROVE  TypeInv'
  <2>1. RowsInv'
    BY <1>1
    DEF CreateAllocation, TypeInv, RowsInv, RowStatuses, allocationVars,
        withdrawalVars, moneyVars
  <2>2. RequestsInv'
    BY <1>1
    DEF CreateAllocation, TypeInv, RequestsInv, REQUEST_STATUSES, WITHDRAWAL_STATUSES,
        allocationVars, withdrawalVars, moneyVars
  <2>3. MoneyInv'
    BY <1>1
    DEF CreateAllocation, TypeInv, MoneyInv, WithdrawalAssumption, allocationVars,
        withdrawalVars, moneyVars
  <2>4. JobsInv'
    BY <1>1 DEF CreateAllocation, TypeInv, JobsInv, JobKnows
  <2>5. useTransactions' \in BOOLEAN /\ crashes' \in Nat
    BY <1>1 DEF CreateAllocation, TypeInv
  <2> QED
    BY <2>1, <2>2, <2>3, <2>4, <2>5 DEF TypeInv
<1>2. ASSUME NEW c \in Commissions, PayCommissionFromPool(c)
      PROVE  TypeInv'
  <2>1. RowsInv'
    BY <1>2
    DEF PayCommissionFromPool, TypeInv, RowsInv, allocationVars, withdrawalVars,
        moneyVars
  <2>2. RequestsInv'
    BY <1>2
    DEF PayCommissionFromPool, TypeInv, RequestsInv, REQUEST_STATUSES,
        WITHDRAWAL_STATUSES, allocationVars, withdrawalVars, moneyVars
  <2>3. MoneyInv'
    BY <1>2
    DEF PayCommissionFromPool, TypeInv, MoneyInv, WithdrawalAssumption,
        allocationVars, withdrawalVars, moneyVars
  <2>4. JobsInv'
    BY <1>2 DEF PayCommissionFromPool, TypeInv, JobsInv, JobKnows
  <2>5. useTransactions' \in BOOLEAN /\ crashes' \in Nat
    BY <1>2 DEF PayCommissionFromPool, TypeInv
  <2> QED
    BY <2>1, <2>2, <2>3, <2>4, <2>5 DEF TypeInv
<1>3. ASSUME NEW w \in Workers, NEW a \in Amounts, RequestPlatformWithdrawal(w, a)
      PROVE  TypeInv'
  <2>1. RowsInv'
    BY <1>3
    DEF RequestPlatformWithdrawal, Begin, TypeInv, RowsInv, allocationVars,
        withdrawalVars, moneyVars
  <2>2. RequestsInv'
    BY <1>3
    DEF RequestPlatformWithdrawal, Begin, TypeInv, RequestsInv, REQUEST_STATUSES,
        WITHDRAWAL_STATUSES, allocationVars, withdrawalVars, moneyVars
  <2>3. MoneyInv'
    BY <1>3
    DEF RequestPlatformWithdrawal, Begin, TypeInv, MoneyInv, allocationVars,
        withdrawalVars, moneyVars
  <2> DEFINE job == [Idle EXCEPT !.pc = "consume", !.amount = a]
  <2>4. JobsInv'
    <3>1. job \in Job /\ JobKnows(job)
      BY <1>3, NoSlicesType
      DEF RequestPlatformWithdrawal, At, TypeInv, JobsInv, JobKnows, Job, Pcs,
          CreatingPcs, CancellingPcs, ConfirmingPcs, WithdrawalAssumption, Idle
    <3>2. jobs' = [jobs EXCEPT ![w] = job]
      BY <1>3 DEF RequestPlatformWithdrawal, Begin, DrawOn, TypeInv, JobsInv, Job
    <3> HIDE DEF job
    <3> QED
      BY <3>1, <3>2, SetJob
  <2>5. useTransactions' \in BOOLEAN /\ crashes' \in Nat
    BY <1>3 DEF RequestPlatformWithdrawal, Begin, TypeInv
  <2> QED
    BY <2>1, <2>2, <2>3, <2>4, <2>5 DEF TypeInv
<1>4. ASSUME NEW w \in Workers, NEW q \in Requests, CancelPlatformWithdrawal(w, q)
      PROVE  TypeInv'
  <2>1. RowsInv'
    BY <1>4
    DEF CancelPlatformWithdrawal, TypeInv, RowsInv, allocationVars, withdrawalVars,
        moneyVars
  <2>2. RequestsInv'
    BY <1>4
    DEF CancelPlatformWithdrawal, TypeInv, RequestsInv, REQUEST_STATUSES,
        WITHDRAWAL_STATUSES, allocationVars, withdrawalVars, moneyVars
  <2>3. MoneyInv'
    BY <1>4
    DEF CancelPlatformWithdrawal, TypeInv, MoneyInv, allocationVars, withdrawalVars,
        moneyVars
  <2> DEFINE job == [Idle EXCEPT !.pc = "readPortions", !.q = q]
  <2>4. JobsInv'
    <3>1. job \in Job /\ JobKnows(job)
      BY <1>4, NoSlicesType
      DEF CancelPlatformWithdrawal, At, TypeInv, JobsInv, JobKnows, Job, Pcs,
          CreatingPcs, CancellingPcs, ConfirmingPcs, Idle
    <3>2. jobs' = [jobs EXCEPT ![w] = job]
      BY <1>4 DEF CancelPlatformWithdrawal, Begin, DrawOn, TypeInv, JobsInv, Job
    <3> HIDE DEF job
    <3> QED
      BY <3>1, <3>2, SetJob
  <2>5. useTransactions' \in BOOLEAN /\ crashes' \in Nat
    BY <1>4 DEF CancelPlatformWithdrawal, TypeInv
  <2> QED
    BY <2>1, <2>2, <2>3, <2>4, <2>5 DEF TypeInv
<1>5. ASSUME NEW w \in Workers, Refuse(w)
      PROVE  TypeInv'
  <2>1. RowsInv'
    BY <1>5 DEF Refuse, TypeInv, RowsInv, allocationVars, withdrawalVars, moneyVars
  <2>2. RequestsInv'
    BY <1>5
    DEF Refuse, TypeInv, RequestsInv, REQUEST_STATUSES, WITHDRAWAL_STATUSES,
        allocationVars, withdrawalVars, moneyVars
  <2>3. MoneyInv'
    BY <1>5 DEF Refuse, TypeInv, MoneyInv, allocationVars, withdrawalVars, moneyVars
  <2>4. JobsInv'
    BY <1>5, FinishType DEF Refuse
  <2>5. useTransactions' \in BOOLEAN /\ crashes' \in Nat
    BY <1>5 DEF Refuse, TypeInv
  <2> QED
    BY <2>1, <2>2, <2>3, <2>4, <2>5 DEF TypeInv
<1>6. ASSUME NEW w \in Workers, ReadCandidates(w)
      PROVE  TypeInv'
  <2>1. RowsInv'
    BY <1>6
    DEF ReadCandidates, TypeInv, RowsInv, allocationVars, withdrawalVars, moneyVars
  <2>2. RequestsInv'
    BY <1>6
    DEF ReadCandidates, TypeInv, RequestsInv, REQUEST_STATUSES, WITHDRAWAL_STATUSES,
        allocationVars, withdrawalVars, moneyVars
  <2>3. MoneyInv'
    BY <1>6
    DEF ReadCandidates, TypeInv, MoneyInv, allocationVars, withdrawalVars, moneyVars
  <2> DEFINE job == [jobs[w] EXCEPT !.pc = "draw", !.plan = FifoPlan(Candidates, jobs[w].amount)]
  <2>4. JobsInv'
    <3>0. FifoPlan(Candidates, jobs[w].amount) \in [Rows -> Nat]
      BY CandidatesType, FifoPlanType DEF TypeInv, JobsInv, Job
    <3>1. jobs[w] \in Job /\ JobKnows(jobs[w]) /\ jobs[w].pc = "consume"
      BY <1>6 DEF ReadCandidates, At, TypeInv, JobsInv
    <3>3. /\ job \in Job
          /\ job.pc = "draw"
      BY <3>1, <3>0 DEF Job, Pcs, CreatingPcs, CancellingPcs
    <3>4. jobs' = [jobs EXCEPT ![w] = job]
      BY <1>6 DEF ReadCandidates, Begin, DrawOn, TypeInv, JobsInv, Job
    <3> HIDE DEF job
    <3>5. JobKnows(job)
      BY <3>1, <3>0, <3>3 DEF JobKnows, CancellingPcs, ConfirmingPcs
    <3> QED
      BY <3>3, <3>4, <3>5, SetJob
  <2>5. useTransactions' \in BOOLEAN /\ crashes' \in Nat
    BY <1>6 DEF ReadCandidates, TypeInv
  <2> QED
    BY <2>1, <2>2, <2>3, <2>4, <2>5 DEF TypeInv
<1>7. ASSUME NEW w \in Workers, Mark(w)
      PROVE  TypeInv'
  <2>1. RowsInv'
    <3> DEFINE status == StatusAfterDraw(jobs[w].left)
               next(r) == IF rowStatus[r] = status THEN version[r] ELSE version[r] + 1
    <3>1. /\ rowStatus' = [rowStatus EXCEPT ![jobs[w].row] = status]
          /\ version' = [version EXCEPT ![jobs[w].row] = next(jobs[w].row)]
          /\ used' = used
      BY <1>7 DEF Mark, SaveStatus, TypeInv, RowsInv, allocationVars
    <3>2. status \in RowStatuses /\ \A r \in Rows : next(r) \in Nat
      BY StatusTypes DEF TypeInv, RowsInv
    <3>3. jobs[w].row \in Rows
      BY <1>7 DEF Mark, At, TypeInv, JobsInv, JobKnows
    <3> HIDE DEF status, next
    <3> QED
      BY <3>1, <3>2, <3>3 DEF TypeInv, RowsInv
  <2>2. RequestsInv'
    BY <1>7
    DEF Mark, SaveStatus, TypeInv, RequestsInv, REQUEST_STATUSES, WITHDRAWAL_STATUSES,
        allocationVars, withdrawalVars, moneyVars
  <2>3. MoneyInv'
    BY <1>7
    DEF Mark, SaveStatus, TypeInv, MoneyInv, allocationVars, withdrawalVars, moneyVars
  <2>4. JobsInv'
    <3>1. ASSUME Goto(w, "draw") PROVE JobsInv'
      BY <1>7, <3>1, GotoType
      DEF Mark, At, TypeInv, JobsInv, JobKnows, Job, Pcs, CreatingPcs, CancellingPcs,
          ConfirmingPcs
    <3>2. ASSUME Goto(w, "insert") PROVE JobsInv'
      BY <1>7, <3>2, GotoType
      DEF Mark, At, TypeInv, JobsInv, JobKnows, Job, Pcs, CreatingPcs, CancellingPcs,
          ConfirmingPcs
    <3> QED
      BY <1>7, <3>1, <3>2 DEF Mark
  <2>5. useTransactions' \in BOOLEAN /\ crashes' \in Nat
    BY <1>7 DEF Mark, SaveStatus, TypeInv
  <2> QED
    BY <2>1, <2>2, <2>3, <2>4, <2>5 DEF TypeInv
<1>8. ASSUME NEW w \in Workers, MarkLost(w)
      PROVE  TypeInv'
  <2>1. RowsInv'
    BY <1>8 DEF MarkLost, TypeInv, RowsInv, allocationVars, withdrawalVars, moneyVars
  <2>2. RequestsInv'
    BY <1>8
    DEF MarkLost, TypeInv, RequestsInv, REQUEST_STATUSES, WITHDRAWAL_STATUSES,
        allocationVars, withdrawalVars, moneyVars
  <2>3. MoneyInv'
    BY <1>8 DEF MarkLost, TypeInv, MoneyInv, allocationVars, withdrawalVars, moneyVars
  <2>4. JobsInv'
    BY <1>8, FinishType DEF MarkLost
  <2>5. useTransactions' \in BOOLEAN /\ crashes' \in Nat
    BY <1>8 DEF MarkLost, TypeInv
  <2> QED
    BY <2>1, <2>2, <2>3, <2>4, <2>5 DEF TypeInv
<1>9. ASSUME NEW w \in Workers, NEW r \in Rows, Draw(w, r)
      PROVE  TypeInv'
  <2>1. RowsInv'
    BY <1>9
    DEF Draw, NextDraw, DrawOn, TypeInv, RowsInv, Available, WithdrawalAssumption,
        JobsInv, Job, allocationVars, withdrawalVars, moneyVars
  <2>2. RequestsInv'
    BY <1>9
    DEF Draw, NextDraw, DrawOn, TypeInv, RequestsInv, REQUEST_STATUSES,
        WITHDRAWAL_STATUSES, allocationVars, withdrawalVars, moneyVars
  <2>3. MoneyInv'
    BY <1>9
    DEF Draw, NextDraw, DrawOn, TypeInv, MoneyInv, allocationVars, withdrawalVars,
        moneyVars
  <2> DEFINE job == [jobs[w] EXCEPT !.pc = "mark", !.row = r, !.left = Available(r) - jobs[w].plan[r],
                            !.ver = version[r]]
  <2>4. JobsInv'
    <3>0. jobs[w] \in Job /\ version[r] \in Nat /\ Available(r) \in Nat
      BY CandidatesType DEF TypeInv, JobsInv, RowsInv
    <3>a. Available(r) - jobs[w].plan[r] \in Int
      BY <3>0 DEF Job
    <3>1. job \in Job /\ JobKnows(job)
      BY <3>0, <3>a
      DEF Draw, Job, JobKnows, Pcs, CreatingPcs, CancellingPcs, ConfirmingPcs
    <3>2. jobs' = [jobs EXCEPT ![w] = job]
      BY <1>9 DEF Draw, Begin, DrawOn, TypeInv, JobsInv, Job
    <3> HIDE DEF job
    <3> QED
      BY <3>1, <3>2, SetJob
  <2>5. useTransactions' \in BOOLEAN /\ crashes' \in Nat
    BY <1>9 DEF Draw, NextDraw, DrawOn, TypeInv
  <2> QED
    BY <2>1, <2>2, <2>3, <2>4, <2>5 DEF TypeInv
<1>10. ASSUME NEW w \in Workers, NEW r \in Rows, DrawLost(w, r)
       PROVE  TypeInv'
  <2>1. RowsInv'
    BY <1>10
    DEF DrawLost, NextDraw, TypeInv, RowsInv, allocationVars, withdrawalVars,
        moneyVars
  <2>2. RequestsInv'
    BY <1>10
    DEF DrawLost, NextDraw, TypeInv, RequestsInv, REQUEST_STATUSES,
        WITHDRAWAL_STATUSES, allocationVars, withdrawalVars, moneyVars
  <2>3. MoneyInv'
    BY <1>10
    DEF DrawLost, NextDraw, TypeInv, MoneyInv, allocationVars, withdrawalVars,
        moneyVars
  <2>4. JobsInv'
    BY <1>10, FinishType DEF DrawLost
  <2>5. useTransactions' \in BOOLEAN /\ crashes' \in Nat
    BY <1>10 DEF DrawLost, NextDraw, TypeInv
  <2> QED
    BY <2>1, <2>2, <2>3, <2>4, <2>5 DEF TypeInv
<1>11. ASSUME NEW w \in Workers, NEW r \in Rows, ReleaseSlice(w, r)
       PROVE  TypeInv'
  <2>1. RowsInv'
    BY <1>11
    DEF ReleaseSlice, TypeInv, RowsInv, JobsInv, Job, allocationVars, withdrawalVars,
        moneyVars
  <2>2. RequestsInv'
    BY <1>11
    DEF ReleaseSlice, TypeInv, RequestsInv, REQUEST_STATUSES, WITHDRAWAL_STATUSES,
        allocationVars, withdrawalVars, moneyVars
  <2>3. MoneyInv'
    BY <1>11
    DEF ReleaseSlice, TypeInv, MoneyInv, allocationVars, withdrawalVars, moneyVars
  <2> DEFINE job == [jobs[w] EXCEPT !.pc = "unmark", !.plan[r] = 0, !.row = r,
                            !.left = used[r] - jobs[w].plan[r], !.ver = version[r]]
  <2>4. JobsInv'
    <3>1. job \in Job /\ JobKnows(job)
      BY <1>11
      DEF ReleaseSlice, At, TypeInv, JobsInv, JobKnows, Job, Pcs, CreatingPcs,
          CancellingPcs, ConfirmingPcs, RowsInv
    <3>2. jobs' = [jobs EXCEPT ![w] = job]
      BY <1>11 DEF ReleaseSlice, Begin, DrawOn, TypeInv, JobsInv, Job
    <3> HIDE DEF job
    <3> QED
      BY <3>1, <3>2, SetJob
  <2>5. useTransactions' \in BOOLEAN /\ crashes' \in Nat
    BY <1>11 DEF ReleaseSlice, TypeInv
  <2> QED
    BY <2>1, <2>2, <2>3, <2>4, <2>5 DEF TypeInv
<1>12. ASSUME NEW w \in Workers, NEW q \in Requests, InsertRequest(w, q)
       PROVE  TypeInv'
  <2>1. RowsInv'
    BY <1>12
    DEF InsertRequest, TypeInv, RowsInv, allocationVars, withdrawalVars, moneyVars
  <2>2. RequestsInv'
    BY <1>12
    DEF InsertRequest, TypeInv, RequestsInv, REQUEST_STATUSES, WITHDRAWAL_STATUSES,
        JobsInv, Job, allocationVars, withdrawalVars, moneyVars
  <2>3. MoneyInv'
    BY <1>12
    DEF InsertRequest, TypeInv, MoneyInv, allocationVars, withdrawalVars, moneyVars
  <2> DEFINE job == [jobs[w] EXCEPT !.pc = "portions", !.q = q]
  <2>4. JobsInv'
    <3>1. jobs[w] \in Job /\ JobKnows(jobs[w]) /\ jobs[w].pc = "insert"
      BY <1>12 DEF InsertRequest, At, TypeInv, JobsInv
    <3>3. /\ job \in Job
          /\ job.pc = "portions" /\ job.q = q
      BY <3>1 DEF Job, Pcs, CreatingPcs, CancellingPcs
    <3>4. jobs' = [jobs EXCEPT ![w] = job]
      BY <1>12 DEF InsertRequest, Begin, DrawOn, TypeInv, JobsInv, Job
    <3> HIDE DEF job
    <3>5. JobKnows(job)
      BY <3>1, <3>3 DEF JobKnows, CancellingPcs, ConfirmingPcs
    <3> QED
      BY <3>3, <3>4, <3>5, SetJob
  <2>5. useTransactions' \in BOOLEAN /\ crashes' \in Nat
    BY <1>12 DEF InsertRequest, TypeInv
  <2> QED
    BY <2>1, <2>2, <2>3, <2>4, <2>5 DEF TypeInv
<1>13. ASSUME NEW w \in Workers, NEW q \in Requests, RequestInTransaction(w, q)
       PROVE  TypeInv'
  <2> DEFINE plan == FifoPlan(Candidates, jobs[w].amount)
  <2>0. /\ plan \in [Rows -> Nat]
        /\ \A r \in Rows : plan[r] <= Available(r)
    <3>1. jobs[w].amount \in Nat
      BY DEF TypeInv, JobsInv, Job
    <3>2. plan \in [Rows -> Nat] /\ \A r \in Rows : plan[r] <= Candidates[r]
      BY <3>1, CandidatesType, FifoPlanType
    <3> HIDE DEF plan
    <3> QED
      BY <3>2, CandidatesType
  <2>1. RowsInv'
    <3>1. /\ used' = [r \in Rows |-> used[r] + plan[r]]
          /\ \A r \in Rows :
               rowStatus'[r] = rowStatus[r] \/ \E n : rowStatus'[r] = StatusAfterDraw(n)
          /\ \A r \in Rows : version'[r] = version[r] \/ version'[r] = version[r] + 1
          /\ rowStatus' = [r \in Rows |-> rowStatus'[r]]
          /\ version' = [r \in Rows |-> version'[r]]
      BY <1>13 DEF RequestInTransaction
    <3> HIDE DEF plan
    <3>2. used' \in [Rows -> Int] /\ \A r \in Rows : used'[r] <= Earned[r]
      BY <2>0, <3>1 DEF TypeInv, RowsInv, Available, WithdrawalAssumption
    <3>3. \A r \in Rows : rowStatus'[r] \in RowStatuses /\ version'[r] \in Nat
      BY <3>1, StatusTypes DEF TypeInv, RowsInv
    <3> QED
      BY <3>1, <3>2, <3>3 DEF RowsInv
  <2>2. RequestsInv'
    <3>1. /\ requestStatus' = [requestStatus EXCEPT ![q] = "PENDING"]
          /\ asked' = [asked EXCEPT ![q] = jobs[w].amount]
          /\ portionStatus' = [portionStatus EXCEPT ![q] =
                [p \in Parties |-> IF p \in Drawing(plan) THEN "PENDING" ELSE None]]
          /\ slices' = [slices EXCEPT ![q] = plan]
      BY <1>13 DEF RequestInTransaction
    <3> HIDE DEF plan
    <3> QED
      BY <2>0, <3>1
      DEF TypeInv, RequestsInv, REQUEST_STATUSES, WITHDRAWAL_STATUSES, JobsInv, Job
  <2>3. MoneyInv'
    BY <1>13
    DEF RequestInTransaction, TypeInv, MoneyInv, allocationVars, withdrawalVars,
        moneyVars
  <2>4. JobsInv'
    BY <1>13, FinishType DEF RequestInTransaction
  <2>5. useTransactions' \in BOOLEAN /\ crashes' \in Nat
    BY <1>13 DEF RequestInTransaction, TypeInv
  <2> QED
    BY <2>1, <2>2, <2>3, <2>4, <2>5 DEF TypeInv
<1>14. ASSUME NEW w \in Workers, NEW p \in Parties, InsertPortion(w, p)
       PROVE  TypeInv'
  <2>1. RowsInv'
    BY <1>14
    DEF InsertPortion, TypeInv, RowsInv, allocationVars, withdrawalVars, moneyVars
  <2>2. RequestsInv'
    <3> DEFINE sq == [r \in Rows |-> IF Source[r] = p THEN jobs[w].plan[r] ELSE slices[jobs[w].q][r]]
    <3>0. jobs[w].q \in Requests /\ jobs[w].plan \in [Rows -> Nat]
      BY <1>14 DEF InsertPortion, At, TypeInv, JobsInv, JobKnows, Job
    <3>1. /\ requestStatus' = requestStatus /\ asked' = asked
          /\ portionStatus' = [portionStatus EXCEPT ![jobs[w].q][p] = "PENDING"]
          /\ slices' = [slices EXCEPT ![jobs[w].q] = sq]
      BY <1>14, <3>0 DEF InsertPortion, TypeInv, RequestsInv
    <3>2. sq \in [Rows -> Nat]
      BY <3>0 DEF TypeInv, RequestsInv
    <3>3. slices' \in [Requests -> [Rows -> Nat]]
      <4> HIDE DEF sq
      <4> QED
        BY <3>1, <3>2 DEF TypeInv, RequestsInv
    <3> HIDE DEF sq
    <3> QED
      BY <3>0, <3>1, <3>3 DEF TypeInv, RequestsInv, WITHDRAWAL_STATUSES
  <2>3. MoneyInv'
    BY <1>14
    DEF InsertPortion, TypeInv, MoneyInv, allocationVars, withdrawalVars, moneyVars
  <2> DEFINE rest == [r \in Rows |-> IF Source[r] = p THEN 0 ELSE jobs[w].plan[r]]
             job == [jobs[w] EXCEPT !.plan = rest]
  <2>4. JobsInv'
    <3>1. jobs[w] \in Job /\ JobKnows(jobs[w]) /\ jobs[w].pc = "portions"
      BY <1>14 DEF InsertPortion, At, TypeInv, JobsInv
    <3>2. rest \in [Rows -> Nat]
      BY <3>1 DEF Job
    <3>3. job \in Job /\ job.pc = "portions" /\ job.q = jobs[w].q
      <4> HIDE DEF rest
      <4> QED
        BY <3>1, <3>2 DEF Job
    <3>4. jobs' = [jobs EXCEPT ![w] = job] \/ Finish(w)
      BY <1>14 DEF InsertPortion
    <3> HIDE DEF job
    <3>5. JobKnows(job)
      BY <3>1, <3>3 DEF JobKnows, CancellingPcs, ConfirmingPcs
    <3> QED
      BY <3>3, <3>4, <3>5, SetJob, FinishType
  <2>5. useTransactions' \in BOOLEAN /\ crashes' \in Nat
    BY <1>14 DEF InsertPortion, TypeInv
  <2> QED
    BY <2>1, <2>2, <2>3, <2>4, <2>5 DEF TypeInv
<1>15. ASSUME NEW w \in Workers, CancelRefused(w)
       PROVE  TypeInv'
  <2>1. RowsInv'
    BY <1>15
    DEF CancelRefused, TypeInv, RowsInv, allocationVars, withdrawalVars, moneyVars
  <2>2. RequestsInv'
    BY <1>15
    DEF CancelRefused, TypeInv, RequestsInv, REQUEST_STATUSES, WITHDRAWAL_STATUSES,
        allocationVars, withdrawalVars, moneyVars
  <2>3. MoneyInv'
    BY <1>15
    DEF CancelRefused, TypeInv, MoneyInv, allocationVars, withdrawalVars, moneyVars
  <2>4. JobsInv'
    BY <1>15, FinishType DEF CancelRefused
  <2>5. useTransactions' \in BOOLEAN /\ crashes' \in Nat
    BY <1>15 DEF CancelRefused, TypeInv
  <2> QED
    BY <2>1, <2>2, <2>3, <2>4, <2>5 DEF TypeInv
<1>16. ASSUME NEW w \in Workers, CancelRead(w)
       PROVE  TypeInv'
  <2>1. RowsInv'
    BY <1>16
    DEF CancelRead, TypeInv, RowsInv, allocationVars, withdrawalVars, moneyVars
  <2>2. RequestsInv'
    BY <1>16
    DEF CancelRead, TypeInv, RequestsInv, REQUEST_STATUSES, WITHDRAWAL_STATUSES,
        allocationVars, withdrawalVars, moneyVars
  <2>3. MoneyInv'
    BY <1>16
    DEF CancelRead, TypeInv, MoneyInv, allocationVars, withdrawalVars, moneyVars
  <2> DEFINE job == [jobs[w] EXCEPT !.plan = slices[jobs[w].q],
                            !.pc = IF slices[jobs[w].q] = NoSlices THEN "cancelPortions" ELSE "release"]
  <2>4. JobsInv'
    <3>1. jobs[w] \in Job /\ JobKnows(jobs[w]) /\ jobs[w].pc = "readPortions"
      BY <1>16 DEF CancelRead, At, TypeInv, JobsInv
    <3>2. slices[jobs[w].q] \in [Rows -> Nat] /\ jobs[w].q \in Requests
      BY <3>1 DEF JobKnows, CancellingPcs, TypeInv, RequestsInv
    <3>3. /\ job \in Job
          /\ job.pc \in {"cancelPortions", "release"} /\ job.q = jobs[w].q
      BY <3>1, <3>2 DEF Job, Pcs, CreatingPcs, CancellingPcs
    <3>4. jobs' = [jobs EXCEPT ![w] = job]
      BY <1>16 DEF CancelRead, Begin, DrawOn, TypeInv, JobsInv, Job
    <3> HIDE DEF job
    <3>5. JobKnows(job)
      BY <3>1, <3>2, <3>3 DEF JobKnows, CancellingPcs, ConfirmingPcs
    <3> QED
      BY <3>3, <3>4, <3>5, SetJob
  <2>5. useTransactions' \in BOOLEAN /\ crashes' \in Nat
    BY <1>16 DEF CancelRead, TypeInv
  <2> QED
    BY <2>1, <2>2, <2>3, <2>4, <2>5 DEF TypeInv
<1>17. ASSUME NEW w \in Workers, Unmark(w)
       PROVE  TypeInv'
  <2>1. RowsInv'
    <3> DEFINE status == IF jobs[w].left = 0 THEN "AVAILABLE" ELSE "PARTIALLY_USED"
               next(r) == IF rowStatus[r] = status THEN version[r] ELSE version[r] + 1
    <3>1. /\ used' = used
          /\ \/ UNCHANGED <<rowStatus, version>>
             \/ /\ rowStatus' = [rowStatus EXCEPT ![jobs[w].row] = status]
                /\ version' = [version EXCEPT ![jobs[w].row] = next(jobs[w].row)]
      BY <1>17 DEF Unmark, SaveStatus, TypeInv, RowsInv
    <3>2. status \in RowStatuses /\ \A r \in Rows : next(r) \in Nat
      BY StatusTypes DEF TypeInv, RowsInv
    <3>3. jobs[w].row \in Rows
      BY <1>17 DEF Unmark, At, TypeInv, JobsInv, JobKnows
    <3> HIDE DEF status, next
    <3> QED
      BY <3>1, <3>2, <3>3 DEF TypeInv, RowsInv
  <2>2. RequestsInv'
    BY <1>17
    DEF Unmark, SaveStatus, TypeInv, RequestsInv, REQUEST_STATUSES,
        WITHDRAWAL_STATUSES, allocationVars, withdrawalVars, moneyVars
  <2>3. MoneyInv'
    BY <1>17
    DEF Unmark, SaveStatus, TypeInv, MoneyInv, allocationVars, withdrawalVars,
        moneyVars
  <2>4. JobsInv'
    <3>1. ASSUME Goto(w, "cancelPortions") PROVE JobsInv'
      BY <1>17, <3>1, GotoType
      DEF Unmark, At, TypeInv, JobsInv, JobKnows, Job, Pcs, CreatingPcs,
          CancellingPcs, ConfirmingPcs
    <3>2. ASSUME Goto(w, "release") PROVE JobsInv'
      BY <1>17, <3>2, GotoType
      DEF Unmark, At, TypeInv, JobsInv, JobKnows, Job, Pcs, CreatingPcs,
          CancellingPcs, ConfirmingPcs
    <3> QED
      BY <1>17, <3>1, <3>2, FinishType DEF Unmark, AfterRelease
  <2>5. useTransactions' \in BOOLEAN /\ crashes' \in Nat
    BY <1>17 DEF Unmark, SaveStatus, TypeInv
  <2> QED
    BY <2>1, <2>2, <2>3, <2>4, <2>5 DEF TypeInv
<1>18. ASSUME NEW w \in Workers, CancelPortions(w)
       PROVE  TypeInv'
  <2>1. RowsInv'
    BY <1>18
    DEF CancelPortions, TypeInv, RowsInv, allocationVars, withdrawalVars, moneyVars
  <2>2. RequestsInv'
    BY <1>18
    DEF CancelPortions, TypeInv, RequestsInv, REQUEST_STATUSES, WITHDRAWAL_STATUSES,
        JobsInv, Job, allocationVars, withdrawalVars, moneyVars
  <2>3. MoneyInv'
    BY <1>18
    DEF CancelPortions, TypeInv, MoneyInv, allocationVars, withdrawalVars, moneyVars
  <2>4. JobsInv'
    <3>1. ASSUME Goto(w, "cancelRequest") PROVE JobsInv'
      BY <1>18, <3>1, GotoType
      DEF CancelPortions, At, TypeInv, JobsInv, JobKnows, Job, Pcs, CreatingPcs,
          CancellingPcs, ConfirmingPcs
    <3> QED
      BY <1>18, <3>1 DEF CancelPortions
  <2>5. useTransactions' \in BOOLEAN /\ crashes' \in Nat
    BY <1>18 DEF CancelPortions, TypeInv
  <2> QED
    BY <2>1, <2>2, <2>3, <2>4, <2>5 DEF TypeInv
<1>19. ASSUME NEW w \in Workers, CancelRequest(w)
       PROVE  TypeInv'
  <2>1. RowsInv'
    BY <1>19
    DEF CancelRequest, TypeInv, RowsInv, allocationVars, withdrawalVars, moneyVars
  <2>2. RequestsInv'
    BY <1>19
    DEF CancelRequest, TypeInv, RequestsInv, REQUEST_STATUSES, WITHDRAWAL_STATUSES,
        JobsInv, Job, allocationVars, withdrawalVars, moneyVars
  <2>3. MoneyInv'
    BY <1>19
    DEF CancelRequest, TypeInv, MoneyInv, allocationVars, withdrawalVars, moneyVars
  <2>4. JobsInv'
    BY <1>19, FinishType DEF CancelRequest
  <2>5. useTransactions' \in BOOLEAN /\ crashes' \in Nat
    BY <1>19 DEF CancelRequest, TypeInv
  <2> QED
    BY <2>1, <2>2, <2>3, <2>4, <2>5 DEF TypeInv
<1>20. ASSUME NEW w \in Workers, Debit(w)
       PROVE  TypeInv'
  <2>1. RowsInv'
    BY <1>20 DEF Debit, TypeInv, RowsInv, allocationVars, withdrawalVars, moneyVars
  <2>2. RequestsInv'
    BY <1>20
    DEF Debit, TypeInv, RequestsInv, REQUEST_STATUSES, WITHDRAWAL_STATUSES,
        allocationVars, withdrawalVars, moneyVars
  <2>0. PortionAmount(jobs[w].q, jobs[w].p) \in Nat
    <3>1. jobs[w].q \in Requests /\ jobs[w].p \in Parties
      BY <1>20 DEF Debit, At, TypeInv, JobsInv, JobKnows, ConfirmingPcs
    <3> QED
      BY <3>1, PortionAmountType
  <2>3. MoneyInv'
    BY <1>20, <2>0
    DEF Debit, TypeInv, MoneyInv, allocationVars, withdrawalVars, moneyVars
  <2>4. JobsInv'
    <3>1. ASSUME Goto(w, "credit") PROVE JobsInv'
      BY <1>20, <3>1, GotoType
      DEF Debit, At, TypeInv, JobsInv, JobKnows, Job, Pcs, CreatingPcs, CancellingPcs,
          ConfirmingPcs
    <3> QED
      BY <1>20, <3>1 DEF Debit
  <2>5. useTransactions' \in BOOLEAN /\ crashes' \in Nat
    BY <1>20 DEF Debit, TypeInv
  <2> QED
    BY <2>1, <2>2, <2>3, <2>4, <2>5 DEF TypeInv
<1>21. ASSUME NEW w \in Workers, DebitRefused(w)
       PROVE  TypeInv'
  <2>1. RowsInv'
    BY <1>21
    DEF DebitRefused, TypeInv, RowsInv, allocationVars, withdrawalVars, moneyVars
  <2>2. RequestsInv'
    BY <1>21
    DEF DebitRefused, TypeInv, RequestsInv, REQUEST_STATUSES, WITHDRAWAL_STATUSES,
        allocationVars, withdrawalVars, moneyVars
  <2>3. MoneyInv'
    BY <1>21
    DEF DebitRefused, TypeInv, MoneyInv, allocationVars, withdrawalVars, moneyVars
  <2>4. JobsInv'
    BY <1>21, FinishType DEF DebitRefused
  <2>5. useTransactions' \in BOOLEAN /\ crashes' \in Nat
    BY <1>21 DEF DebitRefused, TypeInv
  <2> QED
    BY <2>1, <2>2, <2>3, <2>4, <2>5 DEF TypeInv
<1>22. ASSUME NEW w \in Workers, Credit(w)
       PROVE  TypeInv'
  <2>1. RowsInv'
    BY <1>22 DEF Credit, TypeInv, RowsInv, allocationVars, withdrawalVars, moneyVars
  <2>2. RequestsInv'
    BY <1>22
    DEF Credit, TypeInv, RequestsInv, REQUEST_STATUSES, WITHDRAWAL_STATUSES,
        allocationVars, withdrawalVars, moneyVars
  <2>0. PortionAmount(jobs[w].q, jobs[w].p) \in Nat
    <3>1. jobs[w].q \in Requests /\ jobs[w].p \in Parties
      BY <1>22 DEF Credit, At, TypeInv, JobsInv, JobKnows, ConfirmingPcs
    <3> QED
      BY <3>1, PortionAmountType
  <2>3. MoneyInv'
    <3>1. PICK n \in Nat : n = PortionAmount(jobs[w].q, jobs[w].p)
      BY <2>0
    <3>2. PICK p \in Parties : p = jobs[w].p
      BY <1>22 DEF Credit, At, TypeInv, JobsInv, JobKnows
    <3>3. partyDmc' = [partyDmc EXCEPT ![p] = partyDmc[p] + n] /\ pool' = pool
      BY <1>22, <3>1, <3>2 DEF Credit, TypeInv, MoneyInv
    <3>4. partyDmc[p] + n \in Nat
      BY DEF TypeInv, MoneyInv
    <3> QED
      BY <3>3, <3>4 DEF TypeInv, MoneyInv
  <2>4. JobsInv'
    <3>1. ASSUME Goto(w, "refresh") PROVE JobsInv'
      BY <1>22, <3>1, GotoType
      DEF Credit, At, TypeInv, JobsInv, JobKnows, Job, Pcs, CreatingPcs,
          CancellingPcs, ConfirmingPcs
    <3> QED
      BY <1>22, <3>1 DEF Credit
  <2>5. useTransactions' \in BOOLEAN /\ crashes' \in Nat
    BY <1>22 DEF Credit, TypeInv
  <2> QED
    BY <2>1, <2>2, <2>3, <2>4, <2>5 DEF TypeInv
<1>23. ASSUME NEW w \in Workers, Refresh(w)
       PROVE  TypeInv'
  <2>1. RowsInv'
    BY <1>23 DEF Refresh, TypeInv, RowsInv, allocationVars, withdrawalVars, moneyVars
  <2>2. RequestsInv'
    BY <1>23
    DEF Refresh, TypeInv, RequestsInv, REQUEST_STATUSES, WITHDRAWAL_STATUSES,
        allocationVars, withdrawalVars, moneyVars
  <2>3. MoneyInv'
    BY <1>23 DEF Refresh, TypeInv, MoneyInv, allocationVars, withdrawalVars, moneyVars
  <2>4. JobsInv'
    <3>1. ASSUME Goto(w, "close") PROVE JobsInv'
      BY <1>23, <3>1, GotoType
      DEF Refresh, At, TypeInv, JobsInv, JobKnows, Job, Pcs, CreatingPcs,
          CancellingPcs, ConfirmingPcs
    <3> QED
      BY <1>23, <3>1, FinishType DEF Refresh
  <2>5. useTransactions' \in BOOLEAN /\ crashes' \in Nat
    BY <1>23 DEF Refresh, TypeInv
  <2> QED
    BY <2>1, <2>2, <2>3, <2>4, <2>5 DEF TypeInv
<1>24. ASSUME NEW w \in Workers, Close(w)
       PROVE  TypeInv'
  <2>1. RowsInv'
    BY <1>24 DEF Close, TypeInv, RowsInv, allocationVars, withdrawalVars, moneyVars
  <2>2. RequestsInv'
    BY <1>24
    DEF Close, TypeInv, RequestsInv, REQUEST_STATUSES, WITHDRAWAL_STATUSES, JobsInv,
        Job, allocationVars, withdrawalVars, moneyVars
  <2>3. MoneyInv'
    BY <1>24 DEF Close, TypeInv, MoneyInv, allocationVars, withdrawalVars, moneyVars
  <2>4. JobsInv'
    BY <1>24, FinishType DEF Close
  <2>5. useTransactions' \in BOOLEAN /\ crashes' \in Nat
    BY <1>24 DEF Close, TypeInv
  <2> QED
    BY <2>1, <2>2, <2>3, <2>4, <2>5 DEF TypeInv
<1>25. ASSUME NEW q \in Requests, NEW p \in Parties,
              SubmitPlatformPortionPaymentProof(q, p)
       PROVE  TypeInv'
  <2>1. RowsInv'
    BY <1>25
    DEF SubmitPlatformPortionPaymentProof, MovePortion, TypeInv, RowsInv,
        allocationVars, withdrawalVars, moneyVars
  <2>2. RequestsInv'
    BY <1>25
    DEF SubmitPlatformPortionPaymentProof, MovePortion, TypeInv, RequestsInv,
        REQUEST_STATUSES, WITHDRAWAL_STATUSES, allocationVars, withdrawalVars,
        moneyVars
  <2>3. MoneyInv'
    BY <1>25
    DEF SubmitPlatformPortionPaymentProof, MovePortion, TypeInv, MoneyInv,
        allocationVars, withdrawalVars, moneyVars
  <2>4. JobsInv'
    BY <1>25 DEF SubmitPlatformPortionPaymentProof, TypeInv, JobsInv, JobKnows
  <2>5. useTransactions' \in BOOLEAN /\ crashes' \in Nat
    BY <1>25 DEF SubmitPlatformPortionPaymentProof, MovePortion, TypeInv
  <2> QED
    BY <2>1, <2>2, <2>3, <2>4, <2>5 DEF TypeInv
<1>26. ASSUME NEW q \in Requests, NEW p \in Parties,
              DisputePlatformPortionReceipt(q, p)
       PROVE  TypeInv'
  <2>1. RowsInv'
    BY <1>26
    DEF DisputePlatformPortionReceipt, MovePortion, TypeInv, RowsInv, allocationVars,
        withdrawalVars, moneyVars
  <2>2. RequestsInv'
    BY <1>26
    DEF DisputePlatformPortionReceipt, MovePortion, TypeInv, RequestsInv,
        REQUEST_STATUSES, WITHDRAWAL_STATUSES, allocationVars, withdrawalVars,
        moneyVars
  <2>3. MoneyInv'
    BY <1>26
    DEF DisputePlatformPortionReceipt, MovePortion, TypeInv, MoneyInv, allocationVars,
        withdrawalVars, moneyVars
  <2>4. JobsInv'
    BY <1>26 DEF DisputePlatformPortionReceipt, TypeInv, JobsInv, JobKnows
  <2>5. useTransactions' \in BOOLEAN /\ crashes' \in Nat
    BY <1>26 DEF DisputePlatformPortionReceipt, MovePortion, TypeInv
  <2> QED
    BY <2>1, <2>2, <2>3, <2>4, <2>5 DEF TypeInv
<1>27. ASSUME NEW q \in Requests, NEW p \in Parties, RetryPortion(q, p)
       PROVE  TypeInv'
  <2>1. RowsInv'
    BY <1>27
    DEF RetryPortion, MovePortion, TypeInv, RowsInv, allocationVars, withdrawalVars,
        moneyVars
  <2>2. RequestsInv'
    BY <1>27
    DEF RetryPortion, MovePortion, TypeInv, RequestsInv, REQUEST_STATUSES,
        WITHDRAWAL_STATUSES, allocationVars, withdrawalVars, moneyVars
  <2>3. MoneyInv'
    BY <1>27
    DEF RetryPortion, MovePortion, TypeInv, MoneyInv, allocationVars, withdrawalVars,
        moneyVars
  <2>4. JobsInv'
    BY <1>27 DEF RetryPortion, TypeInv, JobsInv, JobKnows
  <2>5. useTransactions' \in BOOLEAN /\ crashes' \in Nat
    BY <1>27 DEF RetryPortion, MovePortion, TypeInv
  <2> QED
    BY <2>1, <2>2, <2>3, <2>4, <2>5 DEF TypeInv
<1>28. ASSUME NEW w \in Workers, NEW q \in Requests, NEW p \in Parties,
              ConfirmInTransaction(w, q, p)
       PROVE  TypeInv'
  <2>1. RowsInv'
    BY <1>28
    DEF ConfirmInTransaction, MovePortion, TypeInv, RowsInv, allocationVars,
        withdrawalVars, moneyVars
  <2>2. RequestsInv'
    BY <1>28
    DEF ConfirmInTransaction, MovePortion, TypeInv, RequestsInv, REQUEST_STATUSES,
        WITHDRAWAL_STATUSES, Confirmable, allocationVars, withdrawalVars, moneyVars
  <2>3. MoneyInv'
    BY <1>28, PortionAmountType
    DEF ConfirmInTransaction, MovePortion, TypeInv, MoneyInv, allocationVars,
        withdrawalVars, moneyVars
  <2> DEFINE job == [Idle EXCEPT !.pc = "refresh", !.q = q]
  <2>4. JobsInv'
    <3>1. job \in Job /\ JobKnows(job)
      BY <1>28, NoSlicesType
      DEF ConfirmInTransaction, At, TypeInv, JobsInv, JobKnows, Job, Pcs, CreatingPcs,
          CancellingPcs, ConfirmingPcs, Idle
    <3>2. jobs' = [jobs EXCEPT ![w] = job]
      BY <1>28 DEF ConfirmInTransaction, Begin, DrawOn, TypeInv, JobsInv, Job
    <3> HIDE DEF job
    <3> QED
      BY <3>1, <3>2, SetJob
  <2>5. useTransactions' \in BOOLEAN /\ crashes' \in Nat
    BY <1>28 DEF ConfirmInTransaction, MovePortion, TypeInv
  <2> QED
    BY <2>1, <2>2, <2>3, <2>4, <2>5 DEF TypeInv
<1>29. ASSUME NEW w \in Workers, NEW q \in Requests, NEW p \in Parties,
              ConfirmClaim(w, q, p)
       PROVE  TypeInv'
  <2>1. RowsInv'
    BY <1>29
    DEF ConfirmClaim, MovePortion, TypeInv, RowsInv, allocationVars, withdrawalVars,
        moneyVars
  <2>2. RequestsInv'
    BY <1>29
    DEF ConfirmClaim, MovePortion, TypeInv, RequestsInv, REQUEST_STATUSES,
        WITHDRAWAL_STATUSES, Confirmable, allocationVars, withdrawalVars, moneyVars
  <2>3. MoneyInv'
    BY <1>29
    DEF ConfirmClaim, MovePortion, TypeInv, MoneyInv, allocationVars, withdrawalVars,
        moneyVars
  <2> DEFINE job == [Idle EXCEPT !.pc = "debit", !.q = q, !.p = p]
  <2>4. JobsInv'
    <3>1. job \in Job /\ JobKnows(job)
      BY <1>29, NoSlicesType
      DEF ConfirmClaim, At, TypeInv, JobsInv, JobKnows, Job, Pcs, CreatingPcs,
          CancellingPcs, ConfirmingPcs, Idle
    <3>2. jobs' = [jobs EXCEPT ![w] = job]
      BY <1>29 DEF ConfirmClaim, Begin, DrawOn, TypeInv, JobsInv, Job
    <3> HIDE DEF job
    <3> QED
      BY <3>1, <3>2, SetJob
  <2>5. useTransactions' \in BOOLEAN /\ crashes' \in Nat
    BY <1>29 DEF ConfirmClaim, MovePortion, TypeInv
  <2> QED
    BY <2>1, <2>2, <2>3, <2>4, <2>5 DEF TypeInv
<1>30. ASSUME Crash
       PROVE  TypeInv'
  <2>1. RowsInv'
    BY <1>30 DEF Crash, TypeInv, RowsInv, allocationVars, withdrawalVars, moneyVars
  <2>2. RequestsInv'
    BY <1>30
    DEF Crash, TypeInv, RequestsInv, REQUEST_STATUSES, WITHDRAWAL_STATUSES,
        allocationVars, withdrawalVars, moneyVars
  <2>3. MoneyInv'
    BY <1>30 DEF Crash, TypeInv, MoneyInv, allocationVars, withdrawalVars, moneyVars
  <2>4. JobsInv'
    BY <1>30, NoSlicesType
    DEF Crash, TypeInv, JobsInv, JobKnows, Idle, CancellingPcs, ConfirmingPcs
  <2>5. useTransactions' \in BOOLEAN /\ crashes' \in Nat
    BY <1>30 DEF Crash, TypeInv
  <2> QED
    BY <2>1, <2>2, <2>3, <2>4, <2>5 DEF TypeInv
<1>31. CASE UNCHANGED vars
  BY <1>31
  DEF vars, allocationVars, withdrawalVars, moneyVars, TypeInv, RowsInv, RequestsInv,
      MoneyInv, JobsInv, JobKnows
<1> QED
  BY <1>1, <1>2, <1>3, <1>4, <1>5, <1>6, <1>7, <1>8, <1>9, <1>10, <1>11,
     <1>12, <1>13, <1>14, <1>15, <1>16, <1>17, <1>18, <1>19, <1>20, <1>21,
     <1>22, <1>23, <1>24, <1>25, <1>26, <1>27, <1>28, <1>29, <1>30, <1>31
  DEF Next, JobStep, Handshake

LEMMA TypeInit == WithdrawalAssumption /\ Init => TypeInv
<1> SUFFICES ASSUME WithdrawalAssumption, Init PROVE TypeInv
  OBVIOUS
<1>1. RowsInv
  BY DEF Init, RowsInv, RowStatuses, WithdrawalAssumption
<1>2. RequestsInv
  BY DEF Init, RequestsInv, NoSlices
<1>3. MoneyInv
  BY DEF Init, MoneyInv, WithdrawalAssumption
<1>4. JobsInv
  BY
  DEF Init, JobsInv, JobKnows, Idle, NoSlices, Job, Pcs, CancellingPcs, ConfirmingPcs
<1> QED
  BY <1>1, <1>2, <1>3, <1>4 DEF Init, TypeInv

\* For every number of rows, parties, requests and handlers, and with no timing
\* assumption: rows, requests, portions, balances and handlers keep their
\* types.  In particular the pool is never overdrawn.
THEOREM WithdrawalTypeCorrect == WithdrawalAssumption /\ Spec => []TypeOK
<1>1. TypeInv => TypeOK
  BY DEF TypeInv, RowsInv, RequestsInv, MoneyInv, JobsInv, TypeOK
<1> QED
  BY <1>1, TypeInit, TypeStep, PTL DEF Spec

-----------------------------------------------------------------------------
(* What a step does to the handler that takes it, and to nobody else *)

LEMMA RequestPlatformWithdrawalMoves ==
  ASSUME TypeInv, NEW w \in Workers, NEW a \in Amounts,
         RequestPlatformWithdrawal(w, a)
  PROVE  /\ jobs[w].pc = "idle" /\ \A v \in Workers \ {w} : jobs'[v] = jobs[v]
         /\ jobs'[w].pc = "consume" /\ jobs'[w].amount = a /\ jobs'[w].row = 0
<1>1. jobs \in [Workers -> Job]
  BY DEF TypeInv, JobsInv
<1> QED
  BY <1>1 DEF RequestPlatformWithdrawal, At, Begin, Idle, Job

LEMMA CancelPlatformWithdrawalMoves ==
  ASSUME TypeInv, NEW w \in Workers, NEW q \in Requests,
         CancelPlatformWithdrawal(w, q)
  PROVE  /\ jobs[w].pc = "idle" /\ \A v \in Workers \ {w} : jobs'[v] = jobs[v]
         /\ jobs'[w].pc = "readPortions" /\ jobs'[w].q = q
<1>1. jobs \in [Workers -> Job]
  BY DEF TypeInv, JobsInv
<1> QED
  BY <1>1 DEF CancelPlatformWithdrawal, At, Begin, Idle, Job

LEMMA RefuseMoves ==
  ASSUME TypeInv, NEW w \in Workers, Refuse(w)
  PROVE  /\ jobs[w].pc = "consume" /\ \A v \in Workers \ {w} : jobs'[v] = jobs[v]
         /\ jobs'[w] = Idle
<1>1. jobs \in [Workers -> Job]
  BY DEF TypeInv, JobsInv
<1> QED
  BY <1>1 DEF Refuse, At, Finish, Job

LEMMA ReadCandidatesMoves ==
  ASSUME TypeInv, NEW w \in Workers, ReadCandidates(w)
  PROVE  /\ jobs[w].pc = "consume" /\ \A v \in Workers \ {w} : jobs'[v] = jobs[v]
         /\ jobs'[w].pc = "draw" /\ jobs'[w].amount = jobs[w].amount
         /\ jobs'[w].row = jobs[w].row
         /\ jobs'[w].plan = FifoPlan(Candidates, jobs[w].amount)
<1>1. jobs \in [Workers -> Job]
  BY DEF TypeInv, JobsInv
<1> QED
  BY <1>1 DEF ReadCandidates, At, Job

LEMMA MarkMoves ==
  ASSUME TypeInv, NEW w \in Workers, Mark(w)
  PROVE  /\ jobs[w].pc = "mark" /\ \A v \in Workers \ {w} : jobs'[v] = jobs[v]
         /\ jobs'[w].pc \in {"draw", "insert"} /\ jobs'[w].amount = jobs[w].amount
         /\ jobs'[w].plan = jobs[w].plan /\ jobs'[w].row = jobs[w].row
         /\ jobs'[w].pc = "insert" => \A r \in Rows : jobs[w].plan[r] > 0 => r <= jobs[w].row
<1>1. jobs \in [Workers -> Job]
  BY DEF TypeInv, JobsInv
<1> DEFINE more == \E s \in Rows : s > jobs[w].row /\ jobs[w].plan[s] > 0
           pc == IF more THEN "draw" ELSE "insert"
<1>2. At(w, "mark") /\ Goto(w, pc)
  BY DEF Mark
<1>3. pc \in {"draw", "insert"} /\ (pc = "insert" => ~more)
  OBVIOUS
<1>4. ~more => \A r \in Rows : jobs[w].plan[r] > 0 => r <= jobs[w].row
  <2>1. jobs[w].row \in Rows \cup {0}
    BY <1>1 DEF Job
  <2>2. Rows \subseteq Nat /\ jobs[w].row \in Nat
    BY <2>1, RowsOK
  <2> QED
    BY <2>2
<1> HIDE DEF pc, more
<1> QED
  BY <1>1, <1>2, <1>3, <1>4 DEF Goto, At, Job

LEMMA MarkLostMoves ==
  ASSUME TypeInv, NEW w \in Workers, MarkLost(w)
  PROVE  /\ jobs[w].pc = "mark" /\ \A v \in Workers \ {w} : jobs'[v] = jobs[v]
         /\ jobs'[w] = Idle
<1>1. jobs \in [Workers -> Job]
  BY DEF TypeInv, JobsInv
<1> QED
  BY <1>1 DEF MarkLost, At, Finish, Job

LEMMA DrawMoves ==
  ASSUME TypeInv, NEW w \in Workers, NEW r \in Rows, Draw(w, r)
  PROVE  /\ jobs[w].pc = "draw" /\ \A v \in Workers \ {w} : jobs'[v] = jobs[v]
         /\ jobs'[w].pc = "mark" /\ jobs'[w].amount = jobs[w].amount
         /\ jobs'[w].plan = jobs[w].plan
         /\ jobs'[w].row = r /\ jobs'[w].left = Available(r) - jobs[w].plan[r]
<1>1. jobs \in [Workers -> Job]
  BY DEF TypeInv, JobsInv
<1> QED
  BY <1>1 DEF Draw, At, DrawOn, NextDraw, Job

LEMMA DrawLostMoves ==
  ASSUME TypeInv, NEW w \in Workers, NEW r \in Rows, DrawLost(w, r)
  PROVE  /\ jobs[w].pc = "draw" /\ \A v \in Workers \ {w} : jobs'[v] = jobs[v]
         /\ jobs'[w] = Idle
<1>1. jobs \in [Workers -> Job]
  BY DEF TypeInv, JobsInv
<1> QED
  BY <1>1 DEF DrawLost, At, Finish, NextDraw, Job

LEMMA ReleaseSliceMoves ==
  ASSUME TypeInv, NEW w \in Workers, NEW r \in Rows, ReleaseSlice(w, r)
  PROVE  /\ jobs[w].pc = "release" /\ \A v \in Workers \ {w} : jobs'[v] = jobs[v]
         /\ jobs'[w].pc = "unmark" /\ jobs'[w].row = r /\ jobs'[w].q = jobs[w].q
         /\ jobs'[w].plan[r] = 0 /\ \A s \in Rows \ {r} : jobs'[w].plan[s] = jobs[w].plan[s]
         /\ jobs'[w].left = used[r] - jobs[w].plan[r] /\ jobs'[w].ver = version[r]
<1>1. jobs \in [Workers -> Job]
  BY DEF TypeInv, JobsInv
<1> QED
  BY <1>1 DEF ReleaseSlice, At, Job

LEMMA InsertRequestMoves ==
  ASSUME TypeInv, NEW w \in Workers, NEW q \in Requests, InsertRequest(w, q)
  PROVE  /\ jobs[w].pc = "insert" /\ \A v \in Workers \ {w} : jobs'[v] = jobs[v]
         /\ jobs'[w].pc = "portions" /\ jobs'[w].q = q /\ jobs'[w].row = jobs[w].row
         /\ jobs'[w].plan = jobs[w].plan
<1>1. jobs \in [Workers -> Job]
  BY DEF TypeInv, JobsInv
<1> QED
  BY <1>1 DEF InsertRequest, At, Job

LEMMA RequestInTransactionMoves ==
  ASSUME TypeInv, NEW w \in Workers, NEW q \in Requests, RequestInTransaction(w, q)
  PROVE  /\ jobs[w].pc = "consume" /\ \A v \in Workers \ {w} : jobs'[v] = jobs[v]
         /\ jobs'[w] = Idle
<1>1. jobs \in [Workers -> Job]
  BY DEF TypeInv, JobsInv
<1> QED
  BY <1>1 DEF RequestInTransaction, At, Finish, Job

LEMMA InsertPortionMoves ==
  ASSUME TypeInv, NEW w \in Workers, NEW p \in Parties, InsertPortion(w, p)
  PROVE  /\ jobs[w].pc = "portions" /\ \A v \in Workers \ {w} : jobs'[v] = jobs[v]
         /\ \/ /\ jobs'[w].pc = "portions" /\ jobs'[w].q = jobs[w].q
               /\ jobs'[w].row = jobs[w].row
               /\ \A r \in Rows :
                    jobs'[w].plan[r] = IF Source[r] = p THEN 0 ELSE jobs[w].plan[r]
            \/ /\ jobs'[w] = Idle
               /\ \A r \in Rows : Source[r] # p => jobs[w].plan[r] = 0
<1>1. jobs \in [Workers -> Job]
  BY DEF TypeInv, JobsInv
<1> DEFINE rest == [r \in Rows |-> IF Source[r] = p THEN 0 ELSE jobs[w].plan[r]]
<1>2. At(w, "portions")
  BY DEF InsertPortion
<1>3. CASE rest = NoSlices
  <2>1. \A r \in Rows : rest[r] = 0
    BY <1>3 DEF NoSlices
  <2>2. \A r \in Rows : Source[r] # p => jobs[w].plan[r] = 0
    BY <2>1
  <2>3. Finish(w)
    BY <1>3 DEF InsertPortion
  <2> QED
    BY <1>1, <1>2, <2>2, <2>3 DEF Finish, At
<1>4. CASE rest # NoSlices
  <2>1. jobs' = [jobs EXCEPT ![w].plan = rest]
    BY <1>4 DEF InsertPortion
  <2>2. \A r \in Rows : rest[r] = IF Source[r] = p THEN 0 ELSE jobs[w].plan[r]
    OBVIOUS
  <2> HIDE DEF rest
  <2> QED
    BY <1>1, <1>2, <2>1, <2>2 DEF At, Job
<1> QED
  BY <1>3, <1>4

LEMMA CancelRefusedMoves ==
  ASSUME TypeInv, NEW w \in Workers, CancelRefused(w)
  PROVE  /\ jobs[w].pc = "readPortions" /\ \A v \in Workers \ {w} : jobs'[v] = jobs[v]
         /\ jobs'[w] = Idle
<1>1. jobs \in [Workers -> Job]
  BY DEF TypeInv, JobsInv
<1> QED
  BY <1>1 DEF CancelRefused, At, Finish, Job

LEMMA CancelReadMoves ==
  ASSUME TypeInv, NEW w \in Workers, CancelRead(w)
  PROVE  /\ jobs[w].pc = "readPortions" /\ \A v \in Workers \ {w} : jobs'[v] = jobs[v]
         /\ jobs'[w].pc \in {"release", "cancelPortions"} /\ jobs'[w].q = jobs[w].q
         /\ jobs'[w].plan = slices[jobs[w].q]
         /\ jobs'[w].pc = "cancelPortions" => slices[jobs[w].q] = NoSlices
<1>1. jobs \in [Workers -> Job]
  BY DEF TypeInv, JobsInv
<1> QED
  BY <1>1 DEF CancelRead, At, Job

LEMMA UnmarkMoves ==
  ASSUME TypeInv, NEW w \in Workers, Unmark(w)
  PROVE  /\ jobs[w].pc = "unmark" /\ \A v \in Workers \ {w} : jobs'[v] = jobs[v]
         /\ \/ /\ jobs'[w].pc \in {"release", "cancelPortions"}
               /\ jobs'[w].q = jobs[w].q /\ jobs'[w].plan = jobs[w].plan
               /\ jobs'[w].pc = "cancelPortions" => jobs[w].plan = NoSlices
            \/ /\ jobs'[w] = Idle /\ UNCHANGED <<rowStatus, version>>
               /\ ~ (version[jobs[w].row] = jobs[w].ver /\ jobs[w].left >= 0)
<1>1. jobs \in [Workers -> Job]
  BY DEF TypeInv, JobsInv
<1>2. CASE version[jobs[w].row] = jobs[w].ver /\ jobs[w].left >= 0
  <2>1. At(w, "unmark") /\ Goto(w, AfterRelease(w))
    BY <1>2 DEF Unmark
  <2>2. /\ AfterRelease(w) \in {"release", "cancelPortions"}
        /\ AfterRelease(w) = "cancelPortions" => jobs[w].plan = NoSlices
    BY DEF AfterRelease
  <2> QED
    BY <1>1, <2>1, <2>2 DEF Goto, At, Job
<1>3. CASE ~ (version[jobs[w].row] = jobs[w].ver /\ jobs[w].left >= 0)
  BY <1>1, <1>3 DEF Unmark, At, Finish
<1> QED
  BY <1>2, <1>3

LEMMA CancelPortionsMoves ==
  ASSUME TypeInv, NEW w \in Workers, CancelPortions(w)
  PROVE  /\ jobs[w].pc = "cancelPortions" /\ \A v \in Workers \ {w} : jobs'[v] = jobs[v]
         /\ jobs'[w].pc = "cancelRequest" /\ jobs'[w].q = jobs[w].q
<1>1. jobs \in [Workers -> Job]
  BY DEF TypeInv, JobsInv
<1> QED
  BY <1>1 DEF CancelPortions, At, Goto, Job

LEMMA CancelRequestMoves ==
  ASSUME TypeInv, NEW w \in Workers, CancelRequest(w)
  PROVE  /\ jobs[w].pc = "cancelRequest" /\ \A v \in Workers \ {w} : jobs'[v] = jobs[v]
         /\ jobs'[w] = Idle
<1>1. jobs \in [Workers -> Job]
  BY DEF TypeInv, JobsInv
<1> QED
  BY <1>1 DEF CancelRequest, At, Finish, Job

LEMMA DebitMoves ==
  ASSUME TypeInv, NEW w \in Workers, Debit(w)
  PROVE  /\ jobs[w].pc = "debit" /\ \A v \in Workers \ {w} : jobs'[v] = jobs[v]
         /\ jobs'[w].pc = "credit" /\ jobs'[w].q = jobs[w].q /\ jobs'[w].p = jobs[w].p
<1>1. jobs \in [Workers -> Job]
  BY DEF TypeInv, JobsInv
<1> QED
  BY <1>1 DEF Debit, At, Goto, Job

LEMMA DebitRefusedMoves ==
  ASSUME TypeInv, NEW w \in Workers, DebitRefused(w)
  PROVE  /\ jobs[w].pc = "debit" /\ \A v \in Workers \ {w} : jobs'[v] = jobs[v]
         /\ jobs'[w] = Idle
<1>1. jobs \in [Workers -> Job]
  BY DEF TypeInv, JobsInv
<1> QED
  BY <1>1 DEF DebitRefused, At, Finish, Job

LEMMA CreditMoves ==
  ASSUME TypeInv, NEW w \in Workers, Credit(w)
  PROVE  /\ jobs[w].pc = "credit" /\ \A v \in Workers \ {w} : jobs'[v] = jobs[v]
         /\ jobs'[w].pc = "refresh" /\ jobs'[w].q = jobs[w].q
<1>1. jobs \in [Workers -> Job]
  BY DEF TypeInv, JobsInv
<1> QED
  BY <1>1 DEF Credit, At, Goto, Job

LEMMA RefreshMoves ==
  ASSUME TypeInv, NEW w \in Workers, Refresh(w)
  PROVE  /\ jobs[w].pc = "refresh" /\ \A v \in Workers \ {w} : jobs'[v] = jobs[v]
         /\ IF AllFulfilled(jobs[w].q) THEN jobs'[w].pc = "close" /\ jobs'[w].q = jobs[w].q
                                       ELSE jobs'[w] = Idle
<1>1. jobs \in [Workers -> Job]
  BY DEF TypeInv, JobsInv
<1> QED
  BY <1>1 DEF Refresh, At, Goto, Finish, Job

LEMMA CloseMoves ==
  ASSUME TypeInv, NEW w \in Workers, Close(w)
  PROVE  /\ jobs[w].pc = "close" /\ \A v \in Workers \ {w} : jobs'[v] = jobs[v]
         /\ jobs'[w] = Idle
<1>1. jobs \in [Workers -> Job]
  BY DEF TypeInv, JobsInv
<1> QED
  BY <1>1 DEF Close, At, Finish, Job

LEMMA ConfirmInTransactionMoves ==
  ASSUME TypeInv, NEW w \in Workers, NEW q \in Requests, NEW p \in Parties,
         ConfirmInTransaction(w, q, p)
  PROVE  /\ jobs[w].pc = "idle" /\ \A v \in Workers \ {w} : jobs'[v] = jobs[v]
         /\ jobs'[w].pc = "refresh" /\ jobs'[w].q = q
<1>1. jobs \in [Workers -> Job]
  BY DEF TypeInv, JobsInv
<1> QED
  BY <1>1 DEF ConfirmInTransaction, At, Begin, Idle, Job

LEMMA ConfirmClaimMoves ==
  ASSUME TypeInv, NEW w \in Workers, NEW q \in Requests, NEW p \in Parties,
         ConfirmClaim(w, q, p)
  PROVE  /\ jobs[w].pc = "idle" /\ \A v \in Workers \ {w} : jobs'[v] = jobs[v]
         /\ jobs'[w].pc = "debit" /\ jobs'[w].q = q /\ jobs'[w].p = p
<1>1. jobs \in [Workers -> Job]
  BY DEF TypeInv, JobsInv
<1> QED
  BY <1>1 DEF ConfirmClaim, At, Begin, Idle, Job

-----------------------------------------------------------------------------
(* What a step does to the requests and their portions *)

\* The portion of q and p, which nobody is storing or cancelling, goes from one
\* status to another.
Answered(q, p, from, to) ==
  /\ portionStatus[q][p] = from /\ portionStatus'[q][p] = to
  /\ \A u \in Requests, x \in Parties :
       u # q \/ x # p => portionStatus'[u][x] = portionStatus[u][x]
  /\ UNCHANGED <<requestStatus, asked, slices>>
  /\ PromptRequests =>
       \A v \in Workers : /\ jobs[v].pc \notin CancellingPcs
                          /\ jobs[v].pc = "portions" => jobs[v].q # q

LEMMA MovePortionAnswers ==
  ASSUME TypeInv, NEW q \in Requests, NEW p \in Parties, NEW from, NEW to,
         MovePortion(q, p, from, to), UNCHANGED <<requestStatus, asked, slices>>
  PROVE  Answered(q, p, from, to)
<1>1. /\ portionStatus[q][p] = from
      /\ portionStatus' = [portionStatus EXCEPT ![q][p] = to]
  BY DEF MovePortion
<1>2. \A u \in Requests :
        portionStatus[u] \in [Parties -> WITHDRAWAL_STATUSES \cup {None}]
  BY DEF TypeInv, RequestsInv
<1>3. PromptRequests =>
       \A v \in Workers : /\ jobs[v].pc \notin CancellingPcs
                          /\ jobs[v].pc = "portions" => jobs[v].q # q
  BY DEF MovePortion, Undisturbed, Running
<1>4. /\ portionStatus'[q][p] = to
      /\ \A u \in Requests, x \in Parties :
           u # q \/ x # p => portionStatus'[u][x] = portionStatus[u][x]
  <2>1. \A u \in Requests : portionStatus'[u] =
          IF u = q THEN [portionStatus[q] EXCEPT ![p] = to] ELSE portionStatus[u]
    BY <1>1 DEF TypeInv, RequestsInv
  <2> QED
    BY <1>2, <2>1
<1> QED
  BY <1>1, <1>3, <1>4 DEF Answered

LEMMA HandshakeAnswers ==
  ASSUME TypeInv, NEW q \in Requests, NEW p \in Parties,
         \/ SubmitPlatformPortionPaymentProof(q, p)
         \/ DisputePlatformPortionReceipt(q, p)
         \/ RetryPortion(q, p)
  PROVE  \E from, to \in {"PENDING", "PARTY_PAID", "DISPUTED"} : Answered(q, p, from, to)
BY MovePortionAnswers
DEF SubmitPlatformPortionPaymentProof, DisputePlatformPortionReceipt, RetryPortion

LEMMA ConfirmAnswers ==
  ASSUME TypeInv, NEW q \in Requests, NEW p \in Parties, NEW w \in Workers,
         ConfirmInTransaction(w, q, p) \/ ConfirmClaim(w, q, p)
  PROVE  \E from \in {"PARTY_PAID", "DISPUTED"} : Answered(q, p, from, "FULFILLED")
BY MovePortionAnswers
DEF ConfirmInTransaction, ConfirmClaim, Confirmable, withdrawalVars

LEMMA InsertRequestStores ==
  ASSUME TypeInv, NEW w \in Workers, NEW q \in Requests, InsertRequest(w, q)
  PROVE  /\ requestStatus[q] = None /\ requestStatus'[q] = "PENDING"
         /\ asked'[q] = jobs[w].amount
         /\ \A u \in Requests \ {q} :
              requestStatus'[u] = requestStatus[u] /\ asked'[u] = asked[u]
         /\ UNCHANGED <<portionStatus, slices>>
BY DEF InsertRequest, TypeInv, RequestsInv

LEMMA InsertPortionStores ==
  ASSUME TypeInv, NEW w \in Workers, NEW p \in Parties, InsertPortion(w, p)
  PROVE  \E q \in Requests :
           /\ q = jobs[w].q
           /\ \E r \in Rows : Source[r] = p /\ jobs[w].plan[r] > 0
           /\ portionStatus'[q][p] = "PENDING"
           /\ \A u \in Requests, x \in Parties :
                u # q \/ x # p => portionStatus'[u][x] = portionStatus[u][x]
           /\ \A r \in Rows :
                slices'[q][r] = IF Source[r] = p THEN jobs[w].plan[r] ELSE slices[q][r]
           /\ \A u \in Requests \ {q} : slices'[u] = slices[u]
           /\ UNCHANGED <<requestStatus, asked>>
<1>1. PICK q \in Requests : q = jobs[w].q
  BY DEF InsertPortion, At, TypeInv, JobsInv, JobKnows
<1>2. /\ portionStatus' = [portionStatus EXCEPT ![q][p] = "PENDING"]
      /\ slices' = [slices EXCEPT ![q] =
                       [r \in Rows |-> IF Source[r] = p THEN jobs[w].plan[r] ELSE slices[q][r]]]
      /\ UNCHANGED <<requestStatus, asked>>
      /\ \E r \in Rows : Source[r] = p /\ jobs[w].plan[r] > 0
  BY <1>1 DEF InsertPortion, Drawing, TypeInv, RequestsInv
<1>3. /\ portionStatus'[q][p] = "PENDING"
      /\ \A u \in Requests, x \in Parties :
           u # q \/ x # p => portionStatus'[u][x] = portionStatus[u][x]
  <2>1. \A u \in Requests : portionStatus'[u] =
          IF u = q THEN [portionStatus[q] EXCEPT ![p] = "PENDING"] ELSE portionStatus[u]
    BY <1>2 DEF TypeInv, RequestsInv
  <2>2. portionStatus[q] \in [Parties -> WITHDRAWAL_STATUSES \cup {None}]
    BY DEF TypeInv, RequestsInv
  <2> QED
    BY <2>1, <2>2
<1>4. /\ \A r \in Rows :
           slices'[q][r] = IF Source[r] = p THEN jobs[w].plan[r] ELSE slices[q][r]
      /\ \A u \in Requests \ {q} : slices'[u] = slices[u]
  BY <1>2 DEF TypeInv, RequestsInv
<1> QED
  BY <1>1, <1>2, <1>3, <1>4

\* The plan of a request in a transaction.
PlanOf(w) == FifoPlan(Candidates, jobs[w].amount)

LEMMA PlanOfType ==
  ASSUME TypeInv, NEW w \in Workers
  PROVE  /\ PlanOf(w) \in [Rows -> Nat]
         /\ \A r \in Rows :
              PlanOf(w)[r] <= Candidates[r] /\ PlanOf(w)[r] <= Available(r)
<1>1. jobs[w].amount \in Nat
  BY DEF TypeInv, JobsInv, Job
<1>2. PlanOf(w) \in [Rows -> Nat] /\ \A r \in Rows : PlanOf(w)[r] <= Candidates[r]
  BY <1>1, CandidatesType, FifoPlanType DEF PlanOf
<1> QED
  BY <1>2, CandidatesType

LEMMA RequestInTransactionStores ==
  ASSUME TypeInv, NEW w \in Workers, NEW q \in Requests, RequestInTransaction(w, q)
  PROVE  /\ useTransactions
         /\ requestStatus[q] = None /\ requestStatus'[q] = "PENDING"
         /\ asked'[q] = jobs[w].amount
         /\ \A p \in Parties : portionStatus'[q][p] \in {None, "PENDING"}
         /\ \A r \in Rows : PlanOf(w)[r] > 0 => portionStatus'[q][Source[r]] = "PENDING"
         /\ slices'[q] = PlanOf(w)
         /\ \A u \in Requests \ {q} :
              /\ requestStatus'[u] = requestStatus[u] /\ asked'[u] = asked[u]
              /\ portionStatus'[u] = portionStatus[u] /\ slices'[u] = slices[u]
<1>1. /\ requestStatus[q] = None /\ useTransactions
      /\ requestStatus' = [requestStatus EXCEPT ![q] = "PENDING"]
      /\ asked' = [asked EXCEPT ![q] = jobs[w].amount]
      /\ portionStatus' = [portionStatus EXCEPT ![q] =
            [p \in Parties |-> IF p \in Drawing(PlanOf(w)) THEN "PENDING" ELSE None]]
      /\ slices' = [slices EXCEPT ![q] = PlanOf(w)]
  BY DEF RequestInTransaction, PlanOf
<1>2. \A p \in Parties :
        portionStatus'[q][p] = IF p \in Drawing(PlanOf(w)) THEN "PENDING" ELSE None
  BY <1>1 DEF TypeInv, RequestsInv
<1>3. \A r \in Rows : PlanOf(w)[r] > 0 => Source[r] \in Parties \cap Drawing(PlanOf(w))
  BY RowsOK DEF Drawing
<1>4. /\ requestStatus'[q] = "PENDING" /\ asked'[q] = jobs[w].amount
      /\ slices'[q] = PlanOf(w)
      /\ \A u \in Requests \ {q} :
           /\ requestStatus'[u] = requestStatus[u] /\ asked'[u] = asked[u]
           /\ portionStatus'[u] = portionStatus[u] /\ slices'[u] = slices[u]
  BY <1>1 DEF TypeInv, RequestsInv
<1> QED
  BY <1>1, <1>2, <1>3, <1>4

LEMMA CancelPortionsStores ==
  ASSUME TypeInv, NEW w \in Workers, CancelPortions(w)
  PROVE  \E q \in Requests :
           /\ q = jobs[w].q
           /\ \A p \in Parties :
                portionStatus'[q][p] = IF portionStatus[q][p] = None THEN None ELSE "CANCELLED"
           /\ \A u \in Requests \ {q} : portionStatus'[u] = portionStatus[u]
           /\ UNCHANGED <<requestStatus, asked, slices>>
<1>1. PICK q \in Requests : q = jobs[w].q
  BY DEF CancelPortions, At, TypeInv, JobsInv, JobKnows, CancellingPcs
<1>2. /\ portionStatus' = [portionStatus EXCEPT ![q] =
            [p \in Parties |-> IF portionStatus[q][p] = None THEN None ELSE "CANCELLED"]]
      /\ UNCHANGED <<requestStatus, asked, slices>>
  BY <1>1 DEF CancelPortions, TypeInv, RequestsInv
<1> QED
  BY <1>1, <1>2 DEF TypeInv, RequestsInv

LEMMA CancelRequestStores ==
  ASSUME TypeInv, NEW w \in Workers, CancelRequest(w)
  PROVE  \E q \in Requests :
           /\ q = jobs[w].q
           /\ requestStatus'[q] = IF requestStatus[q] = "PENDING" THEN "CANCELLED"
                                                              ELSE requestStatus[q]
           /\ \A u \in Requests \ {q} : requestStatus'[u] = requestStatus[u]
           /\ UNCHANGED <<portionStatus, asked, slices>>
<1>1. PICK q \in Requests : q = jobs[w].q
  BY DEF CancelRequest, At, TypeInv, JobsInv, JobKnows, CancellingPcs
<1> QED
  BY <1>1 DEF CancelRequest, TypeInv, RequestsInv

LEMMA CloseStores ==
  ASSUME TypeInv, NEW w \in Workers, Close(w)
  PROVE  \E q \in Requests :
           /\ q = jobs[w].q
           /\ requestStatus'[q] = IF requestStatus[q] = "PENDING" THEN "FULFILLED"
                                                              ELSE requestStatus[q]
           /\ \A u \in Requests \ {q} : requestStatus'[u] = requestStatus[u]
           /\ UNCHANGED <<portionStatus, asked, slices>>
<1>1. PICK q \in Requests : q = jobs[w].q
  BY DEF Close, At, TypeInv, JobsInv, JobKnows, ConfirmingPcs
<1> QED
  BY <1>1 DEF Close, TypeInv, RequestsInv

-----------------------------------------------------------------------------
(* What the timing assumption buys is kept by every step *)

\* A handler that does not start to draw or to cancel stays out of the way.
LEMMA StaysExclusive ==
  ASSUME ExclusiveInv, NEW w \in Workers,
         \A v \in Workers \ {w} : jobs'[v] = jobs[v],
         jobs'[w].pc \in CreatingPcs => jobs[w].pc \in CreatingPcs,
         jobs'[w].pc \in CancellingPcs => jobs[w].pc \in CancellingPcs
  PROVE  ExclusiveInv'
BY DEF ExclusiveInv, CreatingPcs, CancellingPcs

LEMMA ExclusiveStep == TypeInv /\ PromptInv /\ [Next]_vars => ExclusiveInv'
<1> SUFFICES ASSUME TypeInv, PromptInv, [Next]_vars PROVE ExclusiveInv'
  OBVIOUS
<1>1. ASSUME NEW r \in Rows, CreateAllocation(r)
      PROVE  ExclusiveInv'
  BY <1>1
  DEF CreateAllocation, PromptInv, ExclusiveInv
<1>2. ASSUME NEW c \in Commissions, PayCommissionFromPool(c)
      PROVE  ExclusiveInv'
  BY <1>2
  DEF PayCommissionFromPool, PromptInv, ExclusiveInv
<1>3. ASSUME NEW w \in Workers, NEW a \in Amounts, RequestPlatformWithdrawal(w, a)
      PROVE  ExclusiveInv'
  BY <1>3, RequestPlatformWithdrawalMoves
  DEF RequestPlatformWithdrawal, Running, PromptInv, ExclusiveInv,
      CreatingPcs, CancellingPcs
<1>4. ASSUME NEW w \in Workers, NEW q \in Requests, CancelPlatformWithdrawal(w, q)
      PROVE  ExclusiveInv'
  <2>1. \A v \in Workers : jobs[v].pc \notin CreatingPcs \cup CancellingPcs
    BY <1>4 DEF CancelPlatformWithdrawal, Running, PromptInv
  <2> QED
    BY <1>4, <2>1, CancelPlatformWithdrawalMoves DEF ExclusiveInv
<1>5. ASSUME NEW w \in Workers, Refuse(w)
      PROVE  ExclusiveInv'
  BY <1>5, RefuseMoves, StaysExclusive
  DEF PromptInv, CreatingPcs, CancellingPcs, Idle
<1>6. ASSUME NEW w \in Workers, ReadCandidates(w)
      PROVE  ExclusiveInv'
  BY <1>6, ReadCandidatesMoves, StaysExclusive
  DEF PromptInv, CreatingPcs, CancellingPcs, Idle
<1>7. ASSUME NEW w \in Workers, Mark(w)
      PROVE  ExclusiveInv'
  BY <1>7, MarkMoves, StaysExclusive
  DEF PromptInv, CreatingPcs, CancellingPcs, Idle
<1>8. ASSUME NEW w \in Workers, MarkLost(w)
      PROVE  ExclusiveInv'
  BY <1>8, MarkLostMoves, StaysExclusive
  DEF PromptInv, CreatingPcs, CancellingPcs, Idle
<1>9. ASSUME NEW w \in Workers, NEW r \in Rows, Draw(w, r)
      PROVE  ExclusiveInv'
  BY <1>9, DrawMoves, StaysExclusive
  DEF PromptInv, CreatingPcs, CancellingPcs, Idle
<1>10. ASSUME NEW w \in Workers, NEW r \in Rows, DrawLost(w, r)
       PROVE  ExclusiveInv'
  BY <1>10, DrawLostMoves, StaysExclusive
  DEF PromptInv, CreatingPcs, CancellingPcs, Idle
<1>11. ASSUME NEW w \in Workers, NEW r \in Rows, ReleaseSlice(w, r)
       PROVE  ExclusiveInv'
  BY <1>11, ReleaseSliceMoves, StaysExclusive
  DEF PromptInv, CreatingPcs, CancellingPcs, Idle
<1>12. ASSUME NEW w \in Workers, NEW q \in Requests, InsertRequest(w, q)
       PROVE  ExclusiveInv'
  BY <1>12, InsertRequestMoves, StaysExclusive
  DEF PromptInv, CreatingPcs, CancellingPcs, Idle
<1>13. ASSUME NEW w \in Workers, NEW q \in Requests, RequestInTransaction(w, q)
       PROVE  ExclusiveInv'
  BY <1>13, RequestInTransactionMoves, StaysExclusive
  DEF PromptInv, CreatingPcs, CancellingPcs, Idle
<1>14. ASSUME NEW w \in Workers, NEW p \in Parties, InsertPortion(w, p)
       PROVE  ExclusiveInv'
  BY <1>14, InsertPortionMoves, StaysExclusive
  DEF PromptInv, CreatingPcs, CancellingPcs, Idle
<1>15. ASSUME NEW w \in Workers, CancelRefused(w)
       PROVE  ExclusiveInv'
  BY <1>15, CancelRefusedMoves, StaysExclusive
  DEF PromptInv, CreatingPcs, CancellingPcs, Idle
<1>16. ASSUME NEW w \in Workers, CancelRead(w)
       PROVE  ExclusiveInv'
  BY <1>16, CancelReadMoves, StaysExclusive
  DEF PromptInv, CreatingPcs, CancellingPcs, Idle
<1>17. ASSUME NEW w \in Workers, Unmark(w)
       PROVE  ExclusiveInv'
  BY <1>17, UnmarkMoves, StaysExclusive
  DEF PromptInv, CreatingPcs, CancellingPcs, Idle
<1>18. ASSUME NEW w \in Workers, CancelPortions(w)
       PROVE  ExclusiveInv'
  BY <1>18, CancelPortionsMoves, StaysExclusive
  DEF PromptInv, CreatingPcs, CancellingPcs, Idle
<1>19. ASSUME NEW w \in Workers, CancelRequest(w)
       PROVE  ExclusiveInv'
  BY <1>19, CancelRequestMoves, StaysExclusive
  DEF PromptInv, CreatingPcs, CancellingPcs, Idle
<1>20. ASSUME NEW w \in Workers, Debit(w)
       PROVE  ExclusiveInv'
  BY <1>20, DebitMoves, StaysExclusive
  DEF PromptInv, CreatingPcs, CancellingPcs, Idle
<1>21. ASSUME NEW w \in Workers, DebitRefused(w)
       PROVE  ExclusiveInv'
  BY <1>21, DebitRefusedMoves, StaysExclusive
  DEF PromptInv, CreatingPcs, CancellingPcs, Idle
<1>22. ASSUME NEW w \in Workers, Credit(w)
       PROVE  ExclusiveInv'
  BY <1>22, CreditMoves, StaysExclusive
  DEF PromptInv, CreatingPcs, CancellingPcs, Idle
<1>23. ASSUME NEW w \in Workers, Refresh(w)
       PROVE  ExclusiveInv'
  BY <1>23, RefreshMoves, StaysExclusive
  DEF PromptInv, CreatingPcs, CancellingPcs, Idle
<1>24. ASSUME NEW w \in Workers, Close(w)
       PROVE  ExclusiveInv'
  BY <1>24, CloseMoves, StaysExclusive
  DEF PromptInv, CreatingPcs, CancellingPcs, Idle
<1>25. ASSUME NEW q \in Requests, NEW p \in Parties,
              SubmitPlatformPortionPaymentProof(q, p)
       PROVE  ExclusiveInv'
  BY <1>25
  DEF SubmitPlatformPortionPaymentProof, PromptInv, ExclusiveInv
<1>26. ASSUME NEW q \in Requests, NEW p \in Parties,
              DisputePlatformPortionReceipt(q, p)
       PROVE  ExclusiveInv'
  BY <1>26
  DEF DisputePlatformPortionReceipt, PromptInv, ExclusiveInv
<1>27. ASSUME NEW q \in Requests, NEW p \in Parties, RetryPortion(q, p)
       PROVE  ExclusiveInv'
  BY <1>27
  DEF RetryPortion, PromptInv, ExclusiveInv
<1>28. ASSUME NEW w \in Workers, NEW q \in Requests, NEW p \in Parties,
              ConfirmInTransaction(w, q, p)
       PROVE  ExclusiveInv'
  BY <1>28, ConfirmInTransactionMoves, StaysExclusive
  DEF PromptInv, CreatingPcs, CancellingPcs, Idle
<1>29. ASSUME NEW w \in Workers, NEW q \in Requests, NEW p \in Parties,
              ConfirmClaim(w, q, p)
       PROVE  ExclusiveInv'
  BY <1>29, ConfirmClaimMoves, StaysExclusive
  DEF PromptInv, CreatingPcs, CancellingPcs, Idle
<1>30. ASSUME Crash
       PROVE  ExclusiveInv'
  BY <1>30
  DEF Crash, Idle, PromptInv, ExclusiveInv, CreatingPcs, CancellingPcs
<1>31. CASE UNCHANGED vars
  BY <1>31
  DEF vars, PromptInv, ExclusiveInv
<1> QED
  BY <1>1, <1>2, <1>3, <1>4, <1>5, <1>6, <1>7, <1>8, <1>9, <1>10, <1>11,
     <1>12, <1>13, <1>14, <1>15, <1>16, <1>17, <1>18, <1>19, <1>20, <1>21,
     <1>22, <1>23, <1>24, <1>25, <1>26, <1>27, <1>28, <1>29, <1>30, <1>31
  DEF Next, JobStep, Handshake

LEMMA StoredStep == TypeInv /\ PromptInv /\ [Next]_vars => StoredInv'
<1> SUFFICES ASSUME TypeInv, PromptInv, [Next]_vars PROVE StoredInv'
  OBVIOUS
<1>1. ASSUME NEW r \in Rows, CreateAllocation(r)
      PROVE  StoredInv'
  BY <1>1
  DEF CreateAllocation, withdrawalVars, PromptInv, StoredInv
<1>2. ASSUME NEW c \in Commissions, PayCommissionFromPool(c)
      PROVE  StoredInv'
  BY <1>2
  DEF PayCommissionFromPool, withdrawalVars, PromptInv, StoredInv
<1>3. ASSUME NEW w \in Workers, NEW a \in Amounts, RequestPlatformWithdrawal(w, a)
      PROVE  StoredInv'
  BY <1>3
  DEF RequestPlatformWithdrawal, withdrawalVars, PromptInv, StoredInv
<1>4. ASSUME NEW w \in Workers, NEW q \in Requests, CancelPlatformWithdrawal(w, q)
      PROVE  StoredInv'
  BY <1>4
  DEF CancelPlatformWithdrawal, withdrawalVars, PromptInv, StoredInv
<1>5. ASSUME NEW w \in Workers, Refuse(w)
      PROVE  StoredInv'
  BY <1>5
  DEF Refuse, withdrawalVars, PromptInv, StoredInv
<1>6. ASSUME NEW w \in Workers, ReadCandidates(w)
      PROVE  StoredInv'
  BY <1>6
  DEF ReadCandidates, withdrawalVars, PromptInv, StoredInv
<1>7. ASSUME NEW w \in Workers, Mark(w)
      PROVE  StoredInv'
  BY <1>7
  DEF Mark, withdrawalVars, PromptInv, StoredInv
<1>8. ASSUME NEW w \in Workers, MarkLost(w)
      PROVE  StoredInv'
  BY <1>8
  DEF MarkLost, withdrawalVars, PromptInv, StoredInv
<1>9. ASSUME NEW w \in Workers, NEW r \in Rows, Draw(w, r)
      PROVE  StoredInv'
  BY <1>9
  DEF Draw, DrawOn, withdrawalVars, PromptInv, StoredInv
<1>10. ASSUME NEW w \in Workers, NEW r \in Rows, DrawLost(w, r)
       PROVE  StoredInv'
  BY <1>10
  DEF DrawLost, withdrawalVars, PromptInv, StoredInv
<1>11. ASSUME NEW w \in Workers, NEW r \in Rows, ReleaseSlice(w, r)
       PROVE  StoredInv'
  BY <1>11
  DEF ReleaseSlice, withdrawalVars, PromptInv, StoredInv
<1>12. ASSUME NEW w \in Workers, NEW q \in Requests, InsertRequest(w, q)
       PROVE  StoredInv'
  BY <1>12, InsertRequestStores, NoneIsNoStatus, RowsOK
  DEF PromptInv, StoredInv
<1>13. ASSUME NEW w \in Workers, NEW q \in Requests, RequestInTransaction(w, q)
       PROVE  StoredInv'
  <2>1. \A r \in Rows : portionStatus'[q][Source[r]] = None => slices'[q][r] = 0
    BY <1>13, RequestInTransactionStores, PlanOfType, NoneIsNoStatus
  <2> QED
    BY <1>13, <2>1, RequestInTransactionStores, NoneIsNoStatus
    DEF PromptInv, StoredInv
<1>14. ASSUME NEW w \in Workers, NEW p \in Parties, InsertPortion(w, p)
       PROVE  StoredInv'
  <2>1. jobs[w].pc = "portions"
    BY <1>14, InsertPortionMoves
  <2> QED
    BY <1>14, <2>1, InsertPortionStores, NoneIsNoStatus, RowsOK
    DEF PromptInv, StoredInv, StoringInv
<1>15. ASSUME NEW w \in Workers, CancelRefused(w)
       PROVE  StoredInv'
  BY <1>15
  DEF CancelRefused, withdrawalVars, PromptInv, StoredInv
<1>16. ASSUME NEW w \in Workers, CancelRead(w)
       PROVE  StoredInv'
  BY <1>16
  DEF CancelRead, withdrawalVars, PromptInv, StoredInv
<1>17. ASSUME NEW w \in Workers, Unmark(w)
       PROVE  StoredInv'
  BY <1>17
  DEF Unmark, withdrawalVars, PromptInv, StoredInv
<1>18. ASSUME NEW w \in Workers, CancelPortions(w)
       PROVE  StoredInv'
  BY <1>18, CancelPortionsStores, NoneIsNoStatus, RowsOK
  DEF PromptInv, StoredInv
<1>19. ASSUME NEW w \in Workers, CancelRequest(w)
       PROVE  StoredInv'
  BY <1>19, CancelRequestStores, NoneIsNoStatus, RowsOK
  DEF PromptInv, StoredInv
<1>20. ASSUME NEW w \in Workers, Debit(w)
       PROVE  StoredInv'
  BY <1>20
  DEF Debit, withdrawalVars, PromptInv, StoredInv
<1>21. ASSUME NEW w \in Workers, DebitRefused(w)
       PROVE  StoredInv'
  BY <1>21
  DEF DebitRefused, withdrawalVars, PromptInv, StoredInv
<1>22. ASSUME NEW w \in Workers, Credit(w)
       PROVE  StoredInv'
  BY <1>22
  DEF Credit, withdrawalVars, PromptInv, StoredInv
<1>23. ASSUME NEW w \in Workers, Refresh(w)
       PROVE  StoredInv'
  BY <1>23
  DEF Refresh, withdrawalVars, PromptInv, StoredInv
<1>24. ASSUME NEW w \in Workers, Close(w)
       PROVE  StoredInv'
  BY <1>24, CloseStores, NoneIsNoStatus, RowsOK
  DEF PromptInv, StoredInv
<1>25. ASSUME NEW q \in Requests, NEW p \in Parties,
              SubmitPlatformPortionPaymentProof(q, p)
       PROVE  StoredInv'
  <2>1. PICK from, to \in {"PENDING", "PARTY_PAID", "DISPUTED"} : Answered(q, p, from, to)
    BY <1>25, HandshakeAnswers
  <2> QED
    BY <2>1, NoneIsNoStatus, RowsOK
    DEF Answered, PromptInv, StoredInv
<1>26. ASSUME NEW q \in Requests, NEW p \in Parties,
              DisputePlatformPortionReceipt(q, p)
       PROVE  StoredInv'
  <2>1. PICK from, to \in {"PENDING", "PARTY_PAID", "DISPUTED"} : Answered(q, p, from, to)
    BY <1>26, HandshakeAnswers
  <2> QED
    BY <2>1, NoneIsNoStatus, RowsOK
    DEF Answered, PromptInv, StoredInv
<1>27. ASSUME NEW q \in Requests, NEW p \in Parties, RetryPortion(q, p)
       PROVE  StoredInv'
  <2>1. PICK from, to \in {"PENDING", "PARTY_PAID", "DISPUTED"} : Answered(q, p, from, to)
    BY <1>27, HandshakeAnswers
  <2> QED
    BY <2>1, NoneIsNoStatus, RowsOK
    DEF Answered, PromptInv, StoredInv
<1>28. ASSUME NEW w \in Workers, NEW q \in Requests, NEW p \in Parties,
              ConfirmInTransaction(w, q, p)
       PROVE  StoredInv'
  <2>1. PICK from \in {"PARTY_PAID", "DISPUTED"} : Answered(q, p, from, "FULFILLED")
    BY <1>28, ConfirmAnswers
  <2> QED
    BY <2>1, NoneIsNoStatus, RowsOK
    DEF Answered, PromptInv, StoredInv
<1>29. ASSUME NEW w \in Workers, NEW q \in Requests, NEW p \in Parties,
              ConfirmClaim(w, q, p)
       PROVE  StoredInv'
  <2>1. PICK from \in {"PARTY_PAID", "DISPUTED"} : Answered(q, p, from, "FULFILLED")
    BY <1>29, ConfirmAnswers
  <2> QED
    BY <2>1, NoneIsNoStatus, RowsOK
    DEF Answered, PromptInv, StoredInv
<1>30. ASSUME Crash
       PROVE  StoredInv'
  BY <1>30
  DEF Crash, withdrawalVars, PromptInv, StoredInv
<1>31. CASE UNCHANGED vars
  BY <1>31
  DEF vars, withdrawalVars, PromptInv, StoredInv
<1> QED
  BY <1>1, <1>2, <1>3, <1>4, <1>5, <1>6, <1>7, <1>8, <1>9, <1>10, <1>11,
     <1>12, <1>13, <1>14, <1>15, <1>16, <1>17, <1>18, <1>19, <1>20, <1>21,
     <1>22, <1>23, <1>24, <1>25, <1>26, <1>27, <1>28, <1>29, <1>30, <1>31
  DEF Next, JobStep, Handshake

LEMMA DrawingStep == TypeInv /\ PromptInv /\ [Next]_vars => DrawingInv'
<1> SUFFICES ASSUME TypeInv, PromptInv, [Next]_vars PROVE DrawingInv'
  OBVIOUS
<1>1. ASSUME NEW r \in Rows, CreateAllocation(r)
      PROVE  DrawingInv'
  BY <1>1
  DEF CreateAllocation, allocationVars, PromptInv, DrawingInv
<1>2. ASSUME NEW c \in Commissions, PayCommissionFromPool(c)
      PROVE  DrawingInv'
  BY <1>2
  DEF PayCommissionFromPool, allocationVars, PromptInv, DrawingInv
<1>3. ASSUME NEW w \in Workers, NEW a \in Amounts, RequestPlatformWithdrawal(w, a)
      PROVE  DrawingInv'
  <2>1. UNCHANGED <<used, useTransactions>>
    BY <1>3 DEF RequestPlatformWithdrawal, allocationVars
  <2> QED
    BY <1>3, <2>1, RequestPlatformWithdrawalMoves
    DEF Idle, PromptInv, DrawingInv
<1>4. ASSUME NEW w \in Workers, NEW q \in Requests, CancelPlatformWithdrawal(w, q)
      PROVE  DrawingInv'
  <2>1. UNCHANGED <<used, useTransactions>>
    BY <1>4 DEF CancelPlatformWithdrawal, allocationVars
  <2> QED
    BY <1>4, <2>1, CancelPlatformWithdrawalMoves
    DEF Idle, PromptInv, DrawingInv
<1>5. ASSUME NEW w \in Workers, Refuse(w)
      PROVE  DrawingInv'
  <2>1. UNCHANGED <<used, useTransactions>>
    BY <1>5 DEF Refuse, allocationVars
  <2> QED
    BY <1>5, <2>1, RefuseMoves
    DEF Idle, PromptInv, DrawingInv
<1>6. ASSUME NEW w \in Workers, ReadCandidates(w)
      PROVE  DrawingInv'
  <2>1. UNCHANGED <<used, useTransactions>>
    BY <1>6 DEF ReadCandidates, allocationVars
  <2>2. ~useTransactions
    BY <1>6 DEF ReadCandidates
  <2> QED
    BY <1>6, <2>1, ReadCandidatesMoves, <2>2
    DEF Idle, PromptInv, DrawingInv
<1>7. ASSUME NEW w \in Workers, Mark(w)
      PROVE  DrawingInv'
  <2>1. UNCHANGED <<used, useTransactions>>
    BY <1>7 DEF Mark, allocationVars, SaveStatus
  <2> QED
    BY <1>7, <2>1, MarkMoves
    DEF Idle, PromptInv, DrawingInv
<1>8. ASSUME NEW w \in Workers, MarkLost(w)
      PROVE  DrawingInv'
  <2>1. UNCHANGED <<used, useTransactions>>
    BY <1>8 DEF MarkLost, allocationVars
  <2> QED
    BY <1>8, <2>1, MarkLostMoves
    DEF Idle, PromptInv, DrawingInv
<1>9. ASSUME NEW w \in Workers, NEW r \in Rows, Draw(w, r)
      PROVE  DrawingInv'
  <2>1. /\ used'[r] = used[r] + jobs[w].plan[r]
        /\ \A s \in Rows \ {r} : used'[s] = used[s]
        /\ UNCHANGED useTransactions
    BY <1>9 DEF Draw, DrawOn, TypeInv, RowsInv
  <2>2. /\ jobs[w].plan[r] \in Nat /\ \A v \in Workers : jobs[v].left \in Int
        /\ \A s \in Rows : used[s] \in Int
    BY DEF TypeInv, RowsInv, JobsInv, Job
  <2>3. \A s \in Rows : used'[s] \in Int /\ used[s] <= used'[s]
    BY <2>1, <2>2
  <2>4. ASSUME NEW v \in Workers, jobs'[v].pc = "mark"
        PROVE  Earned[jobs'[v].row] <= used'[jobs'[v].row] + jobs'[v].left
    <3>1. CASE v = w
      <4>1. jobs'[w].row = r /\ jobs'[w].left = Earned[r] - used[r] - jobs[w].plan[r]
        BY <1>9, DrawMoves DEF Available
      <4> QED
        BY <2>1, <2>2, <3>1, <4>1, RowsOK
    <3>2. CASE v # w
      <4>1. jobs'[v] = jobs[v]
        BY <1>9, <3>2, DrawMoves
      <4>2. PICK s \in Rows : s = jobs[v].row
        BY <2>4, <4>1 DEF TypeInv, JobsInv, JobKnows
      <4>3. Earned[s] <= used[s] + jobs[v].left
        BY <2>4, <4>1, <4>2 DEF PromptInv, DrawingInv
      <4>4. PICK l \in Int : l = jobs[v].left
        BY <2>2
      <4>5. Earned[s] <= used'[s] + l
        BY <2>2, <2>3, <4>3, <4>4, RowsOK
      <4> QED
        BY <4>1, <4>2, <4>4, <4>5
    <3> QED
      BY <3>1, <3>2
  <2> QED
    BY <1>9, <2>1, <2>4, DrawMoves DEF PromptInv, DrawingInv
<1>10. ASSUME NEW w \in Workers, NEW r \in Rows, DrawLost(w, r)
       PROVE  DrawingInv'
  <2>1. UNCHANGED <<used, useTransactions>>
    BY <1>10 DEF DrawLost, allocationVars
  <2> QED
    BY <1>10, <2>1, DrawLostMoves
    DEF Idle, PromptInv, DrawingInv
<1>11. ASSUME NEW w \in Workers, NEW r \in Rows, ReleaseSlice(w, r)
       PROVE  DrawingInv'
  <2>1. \A v \in Workers : jobs'[v].pc # "mark"
    BY <1>11, ReleaseSliceMoves
    DEF PromptInv, ExclusiveInv, CreatingPcs, CancellingPcs
  <2>2. useTransactions' = useTransactions
    BY <1>11 DEF ReleaseSlice
  <2> QED
    BY <1>11, <2>1, <2>2, ReleaseSliceMoves DEF PromptInv, DrawingInv
<1>12. ASSUME NEW w \in Workers, NEW q \in Requests, InsertRequest(w, q)
       PROVE  DrawingInv'
  <2>1. UNCHANGED <<used, useTransactions>>
    BY <1>12 DEF InsertRequest, allocationVars
  <2> QED
    BY <1>12, <2>1, InsertRequestMoves
    DEF Idle, PromptInv, DrawingInv
<1>13. ASSUME NEW w \in Workers, NEW q \in Requests, RequestInTransaction(w, q)
       PROVE  DrawingInv'
  <2>1. \A v \in Workers : jobs'[v].pc # "mark"
    BY <1>13, RequestInTransactionMoves, RequestInTransactionStores
    DEF PromptInv, ExclusiveInv, CreatingPcs, CancellingPcs, DrawingInv, Idle
  <2>2. useTransactions' = useTransactions
    BY <1>13 DEF RequestInTransaction
  <2> QED
    BY <1>13, <2>1, <2>2, RequestInTransactionMoves DEF PromptInv, DrawingInv, Idle
<1>14. ASSUME NEW w \in Workers, NEW p \in Parties, InsertPortion(w, p)
       PROVE  DrawingInv'
  <2>1. UNCHANGED <<used, useTransactions>>
    BY <1>14 DEF InsertPortion, allocationVars
  <2>2. jobs'[w].pc = "portions" => \A r \in Rows : jobs'[w].plan[r] > 0 => r <= jobs'[w].row
    BY <1>14, InsertPortionMoves DEF PromptInv, DrawingInv, Idle
  <2> QED
    BY <1>14, <2>1, InsertPortionMoves, <2>2
    DEF Idle, PromptInv, DrawingInv
<1>15. ASSUME NEW w \in Workers, CancelRefused(w)
       PROVE  DrawingInv'
  <2>1. UNCHANGED <<used, useTransactions>>
    BY <1>15 DEF CancelRefused, allocationVars
  <2> QED
    BY <1>15, <2>1, CancelRefusedMoves
    DEF Idle, PromptInv, DrawingInv
<1>16. ASSUME NEW w \in Workers, CancelRead(w)
       PROVE  DrawingInv'
  <2>1. UNCHANGED <<used, useTransactions>>
    BY <1>16 DEF CancelRead, allocationVars
  <2> QED
    BY <1>16, <2>1, CancelReadMoves
    DEF Idle, PromptInv, DrawingInv
<1>17. ASSUME NEW w \in Workers, Unmark(w)
       PROVE  DrawingInv'
  <2>1. UNCHANGED <<used, useTransactions>>
    BY <1>17 DEF Unmark, allocationVars, SaveStatus
  <2> QED
    BY <1>17, <2>1, UnmarkMoves
    DEF Idle, PromptInv, DrawingInv
<1>18. ASSUME NEW w \in Workers, CancelPortions(w)
       PROVE  DrawingInv'
  <2>1. UNCHANGED <<used, useTransactions>>
    BY <1>18 DEF CancelPortions, allocationVars
  <2> QED
    BY <1>18, <2>1, CancelPortionsMoves
    DEF Idle, PromptInv, DrawingInv
<1>19. ASSUME NEW w \in Workers, CancelRequest(w)
       PROVE  DrawingInv'
  <2>1. UNCHANGED <<used, useTransactions>>
    BY <1>19 DEF CancelRequest, allocationVars
  <2> QED
    BY <1>19, <2>1, CancelRequestMoves
    DEF Idle, PromptInv, DrawingInv
<1>20. ASSUME NEW w \in Workers, Debit(w)
       PROVE  DrawingInv'
  <2>1. UNCHANGED <<used, useTransactions>>
    BY <1>20 DEF Debit, allocationVars
  <2> QED
    BY <1>20, <2>1, DebitMoves
    DEF Idle, PromptInv, DrawingInv
<1>21. ASSUME NEW w \in Workers, DebitRefused(w)
       PROVE  DrawingInv'
  <2>1. UNCHANGED <<used, useTransactions>>
    BY <1>21 DEF DebitRefused, allocationVars
  <2> QED
    BY <1>21, <2>1, DebitRefusedMoves
    DEF Idle, PromptInv, DrawingInv
<1>22. ASSUME NEW w \in Workers, Credit(w)
       PROVE  DrawingInv'
  <2>1. UNCHANGED <<used, useTransactions>>
    BY <1>22 DEF Credit, allocationVars
  <2> QED
    BY <1>22, <2>1, CreditMoves
    DEF Idle, PromptInv, DrawingInv
<1>23. ASSUME NEW w \in Workers, Refresh(w)
       PROVE  DrawingInv'
  <2>1. UNCHANGED <<used, useTransactions>>
    BY <1>23 DEF Refresh, allocationVars
  <2> QED
    BY <1>23, <2>1, RefreshMoves
    DEF Idle, PromptInv, DrawingInv
<1>24. ASSUME NEW w \in Workers, Close(w)
       PROVE  DrawingInv'
  <2>1. UNCHANGED <<used, useTransactions>>
    BY <1>24 DEF Close, allocationVars
  <2> QED
    BY <1>24, <2>1, CloseMoves
    DEF Idle, PromptInv, DrawingInv
<1>25. ASSUME NEW q \in Requests, NEW p \in Parties,
              SubmitPlatformPortionPaymentProof(q, p)
       PROVE  DrawingInv'
  BY <1>25
  DEF SubmitPlatformPortionPaymentProof, allocationVars, PromptInv, DrawingInv
<1>26. ASSUME NEW q \in Requests, NEW p \in Parties,
              DisputePlatformPortionReceipt(q, p)
       PROVE  DrawingInv'
  BY <1>26
  DEF DisputePlatformPortionReceipt, allocationVars, PromptInv, DrawingInv
<1>27. ASSUME NEW q \in Requests, NEW p \in Parties, RetryPortion(q, p)
       PROVE  DrawingInv'
  BY <1>27
  DEF RetryPortion, allocationVars, PromptInv, DrawingInv
<1>28. ASSUME NEW w \in Workers, NEW q \in Requests, NEW p \in Parties,
              ConfirmInTransaction(w, q, p)
       PROVE  DrawingInv'
  <2>1. UNCHANGED <<used, useTransactions>>
    BY <1>28 DEF ConfirmInTransaction, allocationVars
  <2> QED
    BY <1>28, <2>1, ConfirmInTransactionMoves
    DEF Idle, PromptInv, DrawingInv
<1>29. ASSUME NEW w \in Workers, NEW q \in Requests, NEW p \in Parties,
              ConfirmClaim(w, q, p)
       PROVE  DrawingInv'
  <2>1. UNCHANGED <<used, useTransactions>>
    BY <1>29 DEF ConfirmClaim, allocationVars
  <2>2. ~useTransactions
    BY <1>29 DEF ConfirmClaim
  <2> QED
    BY <1>29, <2>1, ConfirmClaimMoves, <2>2
    DEF Idle, PromptInv, DrawingInv
<1>30. ASSUME Crash
       PROVE  DrawingInv'
  BY <1>30
  DEF Crash, allocationVars, Idle, PromptInv, DrawingInv
<1>31. CASE UNCHANGED vars
  BY <1>31
  DEF vars, allocationVars, PromptInv, DrawingInv
<1> QED
  BY <1>1, <1>2, <1>3, <1>4, <1>5, <1>6, <1>7, <1>8, <1>9, <1>10, <1>11,
     <1>12, <1>13, <1>14, <1>15, <1>16, <1>17, <1>18, <1>19, <1>20, <1>21,
     <1>22, <1>23, <1>24, <1>25, <1>26, <1>27, <1>28, <1>29, <1>30, <1>31
  DEF Next, JobStep, Handshake

\* While a handler draws nobody cancels, and while one cancels nobody draws.
LEMMA Alone ==
  ASSUME PromptInv, NEW w \in Workers
  PROVE  /\ jobs[w].pc \in CreatingPcs => \A v \in Workers : jobs[v].pc \notin CancellingPcs
         /\ jobs[w].pc \in CancellingPcs =>
              \A v \in Workers \ {w} : jobs[v].pc \notin CreatingPcs \cup CancellingPcs
BY DEF PromptInv, ExclusiveInv, CreatingPcs, CancellingPcs

LEMMA StoringKnows ==
  ASSUME TypeInv, NEW v \in Workers, jobs[v].pc = "portions"
  PROVE  jobs[v].q \in Requests /\ jobs[v].plan \in [Rows -> Nat]
BY DEF TypeInv, JobsInv, JobKnows, Job

LEMMA CancellingKnows ==
  ASSUME TypeInv, NEW v \in Workers, jobs[v].pc \in CancellingPcs
  PROVE  /\ jobs[v].q \in Requests /\ jobs[v].plan \in [Rows -> Nat]
         /\ jobs[v].pc = "unmark" => jobs[v].row \in Rows
BY DEF TypeInv, JobsInv, JobKnows, Job, CancellingPcs

\* A handler that stores nothing, or gives nothing back, disturbs nobody who does.
LEMMA StaysStored ==
  ASSUME StoringInv, NEW w \in Workers,
         UNCHANGED <<requestStatus, portionStatus>>,
         \A v \in Workers \ {w} : jobs'[v] = jobs[v], jobs'[w].pc # "portions"
  PROVE  StoringInv'
BY DEF StoringInv

LEMMA StaysGiven ==
  ASSUME GivingInv, NEW w \in Workers,
         UNCHANGED <<portionStatus, slices, used, version>>,
         \A q \in Requests :
           requestStatus'[q] = "CANCELLED" => requestStatus[q] = "CANCELLED",
         \A v \in Workers \ {w} : jobs'[v] = jobs[v],
         jobs'[w].pc \notin GivingPcs \cup {"cancelRequest"}
  PROVE  GivingInv'
BY DEF GivingInv, GivingPcs

LEMMA StoringStep == TypeInv /\ PromptInv /\ [Next]_vars => StoringInv'
<1> SUFFICES ASSUME TypeInv, PromptInv, [Next]_vars PROVE StoringInv'
  OBVIOUS
<1>1. ASSUME NEW r \in Rows, CreateAllocation(r)
      PROVE  StoringInv'
  BY <1>1
  DEF CreateAllocation, withdrawalVars, PromptInv, StoringInv
<1>2. ASSUME NEW c \in Commissions, PayCommissionFromPool(c)
      PROVE  StoringInv'
  BY <1>2
  DEF PayCommissionFromPool, withdrawalVars, PromptInv, StoringInv
<1>3. ASSUME NEW w \in Workers, NEW a \in Amounts, RequestPlatformWithdrawal(w, a)
      PROVE  StoringInv'
  <2>1. UNCHANGED <<requestStatus, portionStatus>>
    BY <1>3 DEF RequestPlatformWithdrawal, withdrawalVars
  <2>2. jobs'[w].pc # "portions" /\ \A v \in Workers \ {w} : jobs'[v] = jobs[v]
    BY <1>3, RequestPlatformWithdrawalMoves DEF Idle
  <2> QED
    BY <2>1, <2>2, StaysStored DEF PromptInv
<1>4. ASSUME NEW w \in Workers, NEW q \in Requests, CancelPlatformWithdrawal(w, q)
      PROVE  StoringInv'
  <2>1. UNCHANGED <<requestStatus, portionStatus>>
    BY <1>4 DEF CancelPlatformWithdrawal, withdrawalVars
  <2>2. jobs'[w].pc # "portions" /\ \A v \in Workers \ {w} : jobs'[v] = jobs[v]
    BY <1>4, CancelPlatformWithdrawalMoves DEF Idle
  <2> QED
    BY <2>1, <2>2, StaysStored DEF PromptInv
<1>5. ASSUME NEW w \in Workers, Refuse(w)
      PROVE  StoringInv'
  <2>1. UNCHANGED <<requestStatus, portionStatus>>
    BY <1>5 DEF Refuse, withdrawalVars
  <2>2. jobs'[w].pc # "portions" /\ \A v \in Workers \ {w} : jobs'[v] = jobs[v]
    BY <1>5, RefuseMoves DEF Idle
  <2> QED
    BY <2>1, <2>2, StaysStored DEF PromptInv
<1>6. ASSUME NEW w \in Workers, ReadCandidates(w)
      PROVE  StoringInv'
  <2>1. UNCHANGED <<requestStatus, portionStatus>>
    BY <1>6 DEF ReadCandidates, withdrawalVars
  <2>2. jobs'[w].pc # "portions" /\ \A v \in Workers \ {w} : jobs'[v] = jobs[v]
    BY <1>6, ReadCandidatesMoves DEF Idle
  <2> QED
    BY <2>1, <2>2, StaysStored DEF PromptInv
<1>7. ASSUME NEW w \in Workers, Mark(w)
      PROVE  StoringInv'
  <2>1. UNCHANGED <<requestStatus, portionStatus>>
    BY <1>7 DEF Mark, withdrawalVars
  <2>2. jobs'[w].pc # "portions" /\ \A v \in Workers \ {w} : jobs'[v] = jobs[v]
    BY <1>7, MarkMoves DEF Idle
  <2> QED
    BY <2>1, <2>2, StaysStored DEF PromptInv
<1>8. ASSUME NEW w \in Workers, MarkLost(w)
      PROVE  StoringInv'
  <2>1. UNCHANGED <<requestStatus, portionStatus>>
    BY <1>8 DEF MarkLost, withdrawalVars
  <2>2. jobs'[w].pc # "portions" /\ \A v \in Workers \ {w} : jobs'[v] = jobs[v]
    BY <1>8, MarkLostMoves DEF Idle
  <2> QED
    BY <2>1, <2>2, StaysStored DEF PromptInv
<1>9. ASSUME NEW w \in Workers, NEW r \in Rows, Draw(w, r)
      PROVE  StoringInv'
  <2>1. UNCHANGED <<requestStatus, portionStatus>>
    BY <1>9 DEF Draw, DrawOn, withdrawalVars
  <2>2. jobs'[w].pc # "portions" /\ \A v \in Workers \ {w} : jobs'[v] = jobs[v]
    BY <1>9, DrawMoves DEF Idle
  <2> QED
    BY <2>1, <2>2, StaysStored DEF PromptInv
<1>10. ASSUME NEW w \in Workers, NEW r \in Rows, DrawLost(w, r)
       PROVE  StoringInv'
  <2>1. UNCHANGED <<requestStatus, portionStatus>>
    BY <1>10 DEF DrawLost, withdrawalVars
  <2>2. jobs'[w].pc # "portions" /\ \A v \in Workers \ {w} : jobs'[v] = jobs[v]
    BY <1>10, DrawLostMoves DEF Idle
  <2> QED
    BY <2>1, <2>2, StaysStored DEF PromptInv
<1>11. ASSUME NEW w \in Workers, NEW r \in Rows, ReleaseSlice(w, r)
       PROVE  StoringInv'
  <2>1. UNCHANGED <<requestStatus, portionStatus>>
    BY <1>11 DEF ReleaseSlice, withdrawalVars
  <2>2. jobs'[w].pc # "portions" /\ \A v \in Workers \ {w} : jobs'[v] = jobs[v]
    BY <1>11, ReleaseSliceMoves DEF Idle
  <2> QED
    BY <2>1, <2>2, StaysStored DEF PromptInv
<1>12. ASSUME NEW w \in Workers, NEW q \in Requests, InsertRequest(w, q)
       PROVE  StoringInv'
  <2>1. \A v \in Workers : jobs[v].pc = "portions" => jobs[v].q # q
    BY <1>12, InsertRequestStores DEF PromptInv, StoringInv
  <2>2. \A p \in Parties : portionStatus[q][p] = None
    BY <1>12, InsertRequestStores DEF PromptInv, StoredInv
  <2> QED
    BY <1>12, <2>1, <2>2, InsertRequestStores, InsertRequestMoves, NoneIsNoStatus,
       RowsOK,
       StoringKnows
    DEF PromptInv, StoringInv
<1>13. ASSUME NEW w \in Workers, NEW q \in Requests, RequestInTransaction(w, q)
       PROVE  StoringInv'
  <2>1. \A v \in Workers : jobs'[v].pc # "portions"
    BY <1>13, RequestInTransactionStores, RequestInTransactionMoves
    DEF PromptInv, DrawingInv, Idle
  <2> QED
    BY <2>1 DEF StoringInv
<1>14. ASSUME NEW w \in Workers, NEW p \in Parties, InsertPortion(w, p)
       PROVE  StoringInv'
  <2>1. PICK q \in Requests :
           /\ q = jobs[w].q
           /\ portionStatus'[q][p] = "PENDING"
           /\ \A u \in Requests, x \in Parties :
                u # q \/ x # p => portionStatus'[u][x] = portionStatus[u][x]
           /\ requestStatus' = requestStatus
    BY <1>14, InsertPortionStores
  <2>2. ASSUME NEW v \in Workers \ {w}, jobs'[v].pc = "portions"
        PROVE  /\ jobs'[v] = jobs[v] /\ jobs[v].q \in Requests \ {q}
               /\ \A x \in Parties :
                    portionStatus'[jobs[v].q][x] = portionStatus[jobs[v].q][x]
    <3>1. jobs'[v] = jobs[v] /\ jobs[w].pc = "portions"
      BY <1>14, InsertPortionMoves
    <3>2. jobs[v].q \in Requests \ {q}
      BY <2>1, <2>2, <3>1, StoringKnows DEF PromptInv, StoringInv
    <3> QED
      BY <2>1, <3>1, <3>2
  <2>3. CASE jobs'[w] = Idle
    BY <2>1, <2>2, <2>3, RowsOK DEF PromptInv, StoringInv, Idle
  <2>4. CASE /\ jobs'[w].pc = "portions" /\ jobs'[w].q = q
             /\ \A r \in Rows :
                  jobs'[w].plan[r] = IF Source[r] = p THEN 0 ELSE jobs[w].plan[r]
    <3>1. jobs[w].pc = "portions"
      BY <1>14, InsertPortionMoves
    <3>2. /\ \A x \in Parties : portionStatus'[q][x] \in {None, "PENDING"}
          /\ \A r \in Rows : jobs'[w].plan[r] > 0 => portionStatus'[q][Source[r]] = None
      BY <2>1, <2>4, <3>1, RowsOK DEF PromptInv, StoringInv
    <3> QED
      BY <2>1, <2>2, <2>4, <3>1, <3>2, RowsOK DEF PromptInv, StoringInv
  <2> QED
    BY <1>14, <2>1, <2>3, <2>4, InsertPortionMoves
<1>15. ASSUME NEW w \in Workers, CancelRefused(w)
       PROVE  StoringInv'
  <2>1. UNCHANGED <<requestStatus, portionStatus>>
    BY <1>15 DEF CancelRefused, withdrawalVars
  <2>2. jobs'[w].pc # "portions" /\ \A v \in Workers \ {w} : jobs'[v] = jobs[v]
    BY <1>15, CancelRefusedMoves DEF Idle
  <2> QED
    BY <2>1, <2>2, StaysStored DEF PromptInv
<1>16. ASSUME NEW w \in Workers, CancelRead(w)
       PROVE  StoringInv'
  <2>1. UNCHANGED <<requestStatus, portionStatus>>
    BY <1>16 DEF CancelRead, withdrawalVars
  <2>2. jobs'[w].pc # "portions" /\ \A v \in Workers \ {w} : jobs'[v] = jobs[v]
    BY <1>16, CancelReadMoves DEF Idle
  <2> QED
    BY <2>1, <2>2, StaysStored DEF PromptInv
<1>17. ASSUME NEW w \in Workers, Unmark(w)
       PROVE  StoringInv'
  <2>1. UNCHANGED <<requestStatus, portionStatus>>
    BY <1>17 DEF Unmark, withdrawalVars
  <2>2. jobs'[w].pc # "portions" /\ \A v \in Workers \ {w} : jobs'[v] = jobs[v]
    BY <1>17, UnmarkMoves DEF Idle
  <2> QED
    BY <2>1, <2>2, StaysStored DEF PromptInv
<1>18. ASSUME NEW w \in Workers, CancelPortions(w)
       PROVE  StoringInv'
  <2>1. \A v \in Workers : jobs'[v].pc # "portions"
    BY <1>18, CancelPortionsMoves, Alone DEF CreatingPcs, CancellingPcs, Idle
  <2> QED
    BY <2>1 DEF StoringInv
<1>19. ASSUME NEW w \in Workers, CancelRequest(w)
       PROVE  StoringInv'
  <2>1. \A v \in Workers : jobs'[v].pc # "portions"
    BY <1>19, CancelRequestMoves, Alone DEF CreatingPcs, CancellingPcs, Idle
  <2> QED
    BY <2>1 DEF StoringInv
<1>20. ASSUME NEW w \in Workers, Debit(w)
       PROVE  StoringInv'
  <2>1. UNCHANGED <<requestStatus, portionStatus>>
    BY <1>20 DEF Debit, withdrawalVars
  <2>2. jobs'[w].pc # "portions" /\ \A v \in Workers \ {w} : jobs'[v] = jobs[v]
    BY <1>20, DebitMoves DEF Idle
  <2> QED
    BY <2>1, <2>2, StaysStored DEF PromptInv
<1>21. ASSUME NEW w \in Workers, DebitRefused(w)
       PROVE  StoringInv'
  <2>1. UNCHANGED <<requestStatus, portionStatus>>
    BY <1>21 DEF DebitRefused, withdrawalVars
  <2>2. jobs'[w].pc # "portions" /\ \A v \in Workers \ {w} : jobs'[v] = jobs[v]
    BY <1>21, DebitRefusedMoves DEF Idle
  <2> QED
    BY <2>1, <2>2, StaysStored DEF PromptInv
<1>22. ASSUME NEW w \in Workers, Credit(w)
       PROVE  StoringInv'
  <2>1. UNCHANGED <<requestStatus, portionStatus>>
    BY <1>22 DEF Credit, withdrawalVars
  <2>2. jobs'[w].pc # "portions" /\ \A v \in Workers \ {w} : jobs'[v] = jobs[v]
    BY <1>22, CreditMoves DEF Idle
  <2> QED
    BY <2>1, <2>2, StaysStored DEF PromptInv
<1>23. ASSUME NEW w \in Workers, Refresh(w)
       PROVE  StoringInv'
  <2>1. UNCHANGED <<requestStatus, portionStatus>>
    BY <1>23 DEF Refresh, withdrawalVars
  <2>2. jobs'[w].pc # "portions" /\ \A v \in Workers \ {w} : jobs'[v] = jobs[v]
    BY <1>23, RefreshMoves DEF Idle
  <2> QED
    BY <2>1, <2>2, StaysStored DEF PromptInv
<1>24. ASSUME NEW w \in Workers, Close(w)
       PROVE  StoringInv'
  BY <1>24, CloseMoves, CloseStores, NoneIsNoStatus, StoringKnows
  DEF PromptInv, StoringInv, Idle
<1>25. ASSUME NEW q \in Requests, NEW p \in Parties,
              SubmitPlatformPortionPaymentProof(q, p)
       PROVE  StoringInv'
  <2>1. PICK from, to \in {"PENDING", "PARTY_PAID", "DISPUTED"} : Answered(q, p, from, to)
    BY <1>25, HandshakeAnswers
  <2>2. jobs' = jobs
    BY <1>25 DEF SubmitPlatformPortionPaymentProof
  <2> QED
    BY <2>1, <2>2, RowsOK, StoringKnows
    DEF Answered, PromptInv, StoringInv
<1>26. ASSUME NEW q \in Requests, NEW p \in Parties,
              DisputePlatformPortionReceipt(q, p)
       PROVE  StoringInv'
  <2>1. PICK from, to \in {"PENDING", "PARTY_PAID", "DISPUTED"} : Answered(q, p, from, to)
    BY <1>26, HandshakeAnswers
  <2>2. jobs' = jobs
    BY <1>26 DEF DisputePlatformPortionReceipt
  <2> QED
    BY <2>1, <2>2, RowsOK, StoringKnows
    DEF Answered, PromptInv, StoringInv
<1>27. ASSUME NEW q \in Requests, NEW p \in Parties, RetryPortion(q, p)
       PROVE  StoringInv'
  <2>1. PICK from, to \in {"PENDING", "PARTY_PAID", "DISPUTED"} : Answered(q, p, from, to)
    BY <1>27, HandshakeAnswers
  <2>2. jobs' = jobs
    BY <1>27 DEF RetryPortion
  <2> QED
    BY <2>1, <2>2, RowsOK, StoringKnows
    DEF Answered, PromptInv, StoringInv
<1>28. ASSUME NEW w \in Workers, NEW q \in Requests, NEW p \in Parties,
              ConfirmInTransaction(w, q, p)
       PROVE  StoringInv'
  <2>1. PICK from \in {"PARTY_PAID", "DISPUTED"} : Answered(q, p, from, "FULFILLED")
    BY <1>28, ConfirmAnswers
  <2> QED
    BY <1>28, <2>1, ConfirmInTransactionMoves, RowsOK, StoringKnows
    DEF Answered, PromptInv, StoringInv
<1>29. ASSUME NEW w \in Workers, NEW q \in Requests, NEW p \in Parties,
              ConfirmClaim(w, q, p)
       PROVE  StoringInv'
  <2>1. PICK from \in {"PARTY_PAID", "DISPUTED"} : Answered(q, p, from, "FULFILLED")
    BY <1>29, ConfirmAnswers
  <2> QED
    BY <1>29, <2>1, ConfirmClaimMoves, RowsOK, StoringKnows
    DEF Answered, PromptInv, StoringInv
<1>30. ASSUME Crash
       PROVE  StoringInv'
  BY <1>30
  DEF Crash, Idle, PromptInv, StoringInv
<1>31. CASE UNCHANGED vars
  BY <1>31
  DEF vars, withdrawalVars, PromptInv, StoringInv
<1> QED
  BY <1>1, <1>2, <1>3, <1>4, <1>5, <1>6, <1>7, <1>8, <1>9, <1>10, <1>11,
     <1>12, <1>13, <1>14, <1>15, <1>16, <1>17, <1>18, <1>19, <1>20, <1>21,
     <1>22, <1>23, <1>24, <1>25, <1>26, <1>27, <1>28, <1>29, <1>30, <1>31
  DEF Next, JobStep, Handshake

LEMMA GivingStep == TypeInv /\ PromptInv /\ [Next]_vars => GivingInv'
<1> SUFFICES ASSUME TypeInv, PromptInv, [Next]_vars PROVE GivingInv'
  OBVIOUS
<1>1. ASSUME NEW r \in Rows, CreateAllocation(r)
      PROVE  GivingInv'
  BY <1>1
  DEF CreateAllocation, withdrawalVars, PromptInv, GivingInv
<1>2. ASSUME NEW c \in Commissions, PayCommissionFromPool(c)
      PROVE  GivingInv'
  BY <1>2
  DEF PayCommissionFromPool, withdrawalVars, allocationVars, PromptInv,
      GivingInv
<1>3. ASSUME NEW w \in Workers, NEW a \in Amounts, RequestPlatformWithdrawal(w, a)
      PROVE  GivingInv'
  <2>1. /\ UNCHANGED <<portionStatus, slices, used, version>>
        /\ \A u \in Requests :
             requestStatus'[u] = "CANCELLED" => requestStatus[u] = "CANCELLED"
    BY <1>3 DEF RequestPlatformWithdrawal, withdrawalVars, allocationVars
  <2>2. /\ jobs'[w].pc \notin GivingPcs \cup {"cancelRequest"}
        /\ \A v \in Workers \ {w} : jobs'[v] = jobs[v]
    BY <1>3, RequestPlatformWithdrawalMoves DEF Idle, GivingPcs
  <2> QED
    BY <2>1, <2>2, StaysGiven DEF PromptInv
<1>4. ASSUME NEW w \in Workers, NEW q \in Requests, CancelPlatformWithdrawal(w, q)
      PROVE  GivingInv'
  <2>1. /\ UNCHANGED <<portionStatus, slices, used, version>>
        /\ \A u \in Requests :
             requestStatus'[u] = "CANCELLED" => requestStatus[u] = "CANCELLED"
    BY <1>4 DEF CancelPlatformWithdrawal, withdrawalVars, allocationVars
  <2>2. /\ jobs'[w].pc \notin GivingPcs \cup {"cancelRequest"}
        /\ \A v \in Workers \ {w} : jobs'[v] = jobs[v]
    BY <1>4, CancelPlatformWithdrawalMoves DEF Idle, GivingPcs
  <2> QED
    BY <2>1, <2>2, StaysGiven DEF PromptInv
<1>5. ASSUME NEW w \in Workers, Refuse(w)
      PROVE  GivingInv'
  <2>1. \A v \in Workers : jobs'[v].pc \notin CancellingPcs
    BY <1>5, RefuseMoves, Alone DEF CreatingPcs, CancellingPcs, Idle
  <2>2. UNCHANGED <<requestStatus, portionStatus>>
    BY <1>5 DEF Refuse, withdrawalVars
  <2> QED
    BY <2>1, <2>2
    DEF GivingPcs, CancellingPcs, PromptInv, GivingInv
<1>6. ASSUME NEW w \in Workers, ReadCandidates(w)
      PROVE  GivingInv'
  <2>1. \A v \in Workers : jobs'[v].pc \notin CancellingPcs
    BY <1>6, ReadCandidatesMoves, Alone DEF CreatingPcs, CancellingPcs, Idle
  <2>2. UNCHANGED <<requestStatus, portionStatus>>
    BY <1>6 DEF ReadCandidates, withdrawalVars
  <2> QED
    BY <2>1, <2>2
    DEF GivingPcs, CancellingPcs, PromptInv, GivingInv
<1>7. ASSUME NEW w \in Workers, Mark(w)
      PROVE  GivingInv'
  <2>1. \A v \in Workers : jobs'[v].pc \notin CancellingPcs
    BY <1>7, MarkMoves, Alone DEF CreatingPcs, CancellingPcs, Idle
  <2>2. UNCHANGED <<requestStatus, portionStatus>>
    BY <1>7 DEF Mark, withdrawalVars
  <2> QED
    BY <2>1, <2>2
    DEF GivingPcs, CancellingPcs, PromptInv, GivingInv
<1>8. ASSUME NEW w \in Workers, MarkLost(w)
      PROVE  GivingInv'
  <2>1. \A v \in Workers : jobs'[v].pc \notin CancellingPcs
    BY <1>8, MarkLostMoves, Alone DEF CreatingPcs, CancellingPcs, Idle
  <2>2. UNCHANGED <<requestStatus, portionStatus>>
    BY <1>8 DEF MarkLost, withdrawalVars
  <2> QED
    BY <2>1, <2>2
    DEF GivingPcs, CancellingPcs, PromptInv, GivingInv
<1>9. ASSUME NEW w \in Workers, NEW r \in Rows, Draw(w, r)
      PROVE  GivingInv'
  <2>1. \A v \in Workers : jobs'[v].pc \notin CancellingPcs
    BY <1>9, DrawMoves, Alone DEF CreatingPcs, CancellingPcs, Idle
  <2>2. UNCHANGED <<requestStatus, portionStatus>>
    BY <1>9 DEF Draw, DrawOn, withdrawalVars
  <2> QED
    BY <2>1, <2>2
    DEF GivingPcs, CancellingPcs, PromptInv, GivingInv
<1>10. ASSUME NEW w \in Workers, NEW r \in Rows, DrawLost(w, r)
       PROVE  GivingInv'
  <2>1. \A v \in Workers : jobs'[v].pc \notin CancellingPcs
    BY <1>10, DrawLostMoves, Alone DEF CreatingPcs, CancellingPcs, Idle
  <2>2. UNCHANGED <<requestStatus, portionStatus>>
    BY <1>10 DEF DrawLost, withdrawalVars
  <2> QED
    BY <2>1, <2>2
    DEF GivingPcs, CancellingPcs, PromptInv, GivingInv
<1>11. ASSUME NEW w \in Workers, NEW r \in Rows, ReleaseSlice(w, r)
       PROVE  GivingInv'
  <2>1. \A v \in Workers \ {w} : jobs'[v].pc \notin CancellingPcs
    BY <1>11, ReleaseSliceMoves, Alone DEF CancellingPcs
  <2>2. jobs[w].pc \in CancellingPcs
    BY <1>11, ReleaseSliceMoves DEF CancellingPcs
  <2>3. /\ UNCHANGED <<requestStatus, portionStatus, slices, version>>
        /\ used'[r] = used[r] - jobs[w].plan[r]
    BY <1>11 DEF ReleaseSlice, withdrawalVars, TypeInv, RowsInv
  <2>4. \A s \in Rows : jobs'[w].plan[s] <= slices[jobs[w].q][s]
    <3>1. \A s \in Rows :
            jobs[w].plan[s] <= slices[jobs[w].q][s] /\ jobs[w].plan[s] \in Nat
      BY <1>11, <2>2, ReleaseSliceMoves, CancellingKnows
      DEF PromptInv, GivingInv, GivingPcs
    <3>2. \A s \in Rows : slices[jobs[w].q][s] \in Nat
      BY <2>2, CancellingKnows DEF TypeInv, RequestsInv
    <3> QED
      BY <1>11, <3>1, <3>2, ReleaseSliceMoves
  <2> QED
    BY <1>11, <2>1, <2>3, <2>4, ReleaseSliceMoves
    DEF PromptInv, GivingInv, GivingPcs, CancellingPcs
<1>12. ASSUME NEW w \in Workers, NEW q \in Requests, InsertRequest(w, q)
       PROVE  GivingInv'
  <2>1. \A v \in Workers : jobs'[v].pc \notin CancellingPcs
    BY <1>12, InsertRequestMoves, Alone DEF CreatingPcs, CancellingPcs, Idle
  <2>2. \A u \in Requests : requestStatus'[u] = "CANCELLED" =>
           requestStatus[u] = "CANCELLED" /\ portionStatus'[u] = portionStatus[u]
    BY <1>12, InsertRequestStores
  <2> QED
    BY <2>1, <2>2
    DEF GivingPcs, CancellingPcs, PromptInv, GivingInv
<1>13. ASSUME NEW w \in Workers, NEW q \in Requests, RequestInTransaction(w, q)
       PROVE  GivingInv'
  <2>1. \A v \in Workers : jobs'[v].pc \notin CancellingPcs
    BY <1>13, RequestInTransactionMoves, Alone DEF CreatingPcs, CancellingPcs, Idle
  <2>2. \A u \in Requests : requestStatus'[u] = "CANCELLED" =>
           requestStatus[u] = "CANCELLED" /\ portionStatus'[u] = portionStatus[u]
    BY <1>13, RequestInTransactionStores
  <2> QED
    BY <2>1, <2>2
    DEF GivingPcs, CancellingPcs, PromptInv, GivingInv
<1>14. ASSUME NEW w \in Workers, NEW p \in Parties, InsertPortion(w, p)
       PROVE  GivingInv'
  <2>1. \A v \in Workers : jobs'[v].pc \notin CancellingPcs
    BY <1>14, InsertPortionMoves, Alone DEF CreatingPcs, CancellingPcs, Idle
  <2>2. ASSUME NEW u \in Requests, requestStatus'[u] = "CANCELLED"
        PROVE  /\ requestStatus[u] = "CANCELLED"
               /\ \A x \in Parties : portionStatus'[u][x] = portionStatus[u][x]
    BY <1>14, <2>2, InsertPortionStores, InsertPortionMoves DEF PromptInv, StoringInv
  <2> QED
    BY <2>1, <2>2
    DEF GivingPcs, CancellingPcs, PromptInv, GivingInv
<1>15. ASSUME NEW w \in Workers, CancelRefused(w)
       PROVE  GivingInv'
  <2>1. \A v \in Workers \ {w} : jobs'[v].pc \notin CancellingPcs
    BY <1>15, CancelRefusedMoves, Alone DEF CancellingPcs
  <2>2. jobs[w].pc \in CancellingPcs
    BY <1>15, CancelRefusedMoves DEF CancellingPcs
  <2> QED
    BY <1>15, <2>1, CancelRefusedMoves
    DEF CancelRefused, withdrawalVars, PromptInv, GivingInv, GivingPcs,
        CancellingPcs, Idle
<1>16. ASSUME NEW w \in Workers, CancelRead(w)
       PROVE  GivingInv'
  <2>1. \A v \in Workers \ {w} : jobs'[v].pc \notin CancellingPcs
    BY <1>16, CancelReadMoves, Alone DEF CancellingPcs
  <2>2. jobs[w].pc \in CancellingPcs
    BY <1>16, CancelReadMoves DEF CancellingPcs
  <2>3. /\ UNCHANGED <<requestStatus, portionStatus, slices, version, used>>
        /\ \A p \in Parties : portionStatus[jobs[w].q][p] \in {None, "PENDING"}
    BY <1>16 DEF CancelRead, withdrawalVars, allocationVars
  <2>4. \A s \in Rows : slices[jobs[w].q][s] \in Nat
    BY <2>2, CancellingKnows DEF TypeInv, RequestsInv
  <2> QED
    BY <1>16, <2>1, <2>3, <2>4, CancelReadMoves
    DEF PromptInv, GivingInv, GivingPcs, CancellingPcs
<1>17. ASSUME NEW w \in Workers, Unmark(w)
       PROVE  GivingInv'
  <2>1. \A v \in Workers \ {w} : jobs'[v].pc \notin CancellingPcs
    BY <1>17, UnmarkMoves, Alone DEF CancellingPcs
  <2>2. jobs[w].pc \in CancellingPcs
    BY <1>17, UnmarkMoves DEF CancellingPcs
  <2>3. UNCHANGED <<requestStatus, portionStatus, slices, used>>
    BY <1>17 DEF Unmark, withdrawalVars
  <2> QED
    BY <1>17, <2>1, <2>3, UnmarkMoves
    DEF PromptInv, GivingInv, GivingPcs, CancellingPcs, Idle
<1>18. ASSUME NEW w \in Workers, CancelPortions(w)
       PROVE  GivingInv'
  <2>1. \A v \in Workers \ {w} : jobs'[v].pc \notin CancellingPcs
    BY <1>18, CancelPortionsMoves, Alone DEF CancellingPcs
  <2>2. jobs[w].pc \in CancellingPcs
    BY <1>18, CancelPortionsMoves DEF CancellingPcs
  <2>3. PICK q \in Requests : q = jobs[w].q
    BY <2>2, CancellingKnows
  <2> QED
    BY <1>18, <2>1, <2>3, CancelPortionsMoves, CancelPortionsStores
    DEF PromptInv, GivingInv, GivingPcs, CancellingPcs, Idle
<1>19. ASSUME NEW w \in Workers, CancelRequest(w)
       PROVE  GivingInv'
  <2>1. \A v \in Workers \ {w} : jobs'[v].pc \notin CancellingPcs
    BY <1>19, CancelRequestMoves, Alone DEF CancellingPcs
  <2>2. jobs[w].pc \in CancellingPcs
    BY <1>19, CancelRequestMoves DEF CancellingPcs
  <2>3. PICK q \in Requests : q = jobs[w].q
    BY <2>2, CancellingKnows
  <2> QED
    BY <1>19, <2>1, <2>3, CancelRequestMoves, CancelRequestStores
    DEF PromptInv, GivingInv, GivingPcs, CancellingPcs, Idle
<1>20. ASSUME NEW w \in Workers, Debit(w)
       PROVE  GivingInv'
  <2>1. /\ UNCHANGED <<portionStatus, slices, used, version>>
        /\ \A u \in Requests :
             requestStatus'[u] = "CANCELLED" => requestStatus[u] = "CANCELLED"
    BY <1>20 DEF Debit, withdrawalVars, allocationVars
  <2>2. /\ jobs'[w].pc \notin GivingPcs \cup {"cancelRequest"}
        /\ \A v \in Workers \ {w} : jobs'[v] = jobs[v]
    BY <1>20, DebitMoves DEF Idle, GivingPcs
  <2> QED
    BY <2>1, <2>2, StaysGiven DEF PromptInv
<1>21. ASSUME NEW w \in Workers, DebitRefused(w)
       PROVE  GivingInv'
  <2>1. /\ UNCHANGED <<portionStatus, slices, used, version>>
        /\ \A u \in Requests :
             requestStatus'[u] = "CANCELLED" => requestStatus[u] = "CANCELLED"
    BY <1>21 DEF DebitRefused, withdrawalVars, allocationVars
  <2>2. /\ jobs'[w].pc \notin GivingPcs \cup {"cancelRequest"}
        /\ \A v \in Workers \ {w} : jobs'[v] = jobs[v]
    BY <1>21, DebitRefusedMoves DEF Idle, GivingPcs
  <2> QED
    BY <2>1, <2>2, StaysGiven DEF PromptInv
<1>22. ASSUME NEW w \in Workers, Credit(w)
       PROVE  GivingInv'
  <2>1. /\ UNCHANGED <<portionStatus, slices, used, version>>
        /\ \A u \in Requests :
             requestStatus'[u] = "CANCELLED" => requestStatus[u] = "CANCELLED"
    BY <1>22 DEF Credit, withdrawalVars, allocationVars
  <2>2. /\ jobs'[w].pc \notin GivingPcs \cup {"cancelRequest"}
        /\ \A v \in Workers \ {w} : jobs'[v] = jobs[v]
    BY <1>22, CreditMoves DEF Idle, GivingPcs
  <2> QED
    BY <2>1, <2>2, StaysGiven DEF PromptInv
<1>23. ASSUME NEW w \in Workers, Refresh(w)
       PROVE  GivingInv'
  <2>1. /\ UNCHANGED <<portionStatus, slices, used, version>>
        /\ \A u \in Requests :
             requestStatus'[u] = "CANCELLED" => requestStatus[u] = "CANCELLED"
    BY <1>23 DEF Refresh, withdrawalVars, allocationVars
  <2>2. /\ jobs'[w].pc \notin GivingPcs \cup {"cancelRequest"}
        /\ \A v \in Workers \ {w} : jobs'[v] = jobs[v]
    BY <1>23, RefreshMoves DEF Idle, GivingPcs
  <2> QED
    BY <2>1, <2>2, StaysGiven DEF PromptInv
<1>24. ASSUME NEW w \in Workers, Close(w)
       PROVE  GivingInv'
  <2>1. /\ UNCHANGED <<portionStatus, slices, used, version>>
        /\ \A u \in Requests :
             requestStatus'[u] = "CANCELLED" => requestStatus[u] = "CANCELLED"
    BY <1>24, CloseStores DEF Close, allocationVars
  <2>2. /\ jobs'[w].pc \notin GivingPcs \cup {"cancelRequest"}
        /\ \A v \in Workers \ {w} : jobs'[v] = jobs[v]
    BY <1>24, CloseMoves DEF Idle, GivingPcs
  <2> QED
    BY <2>1, <2>2, StaysGiven DEF PromptInv
<1>25. ASSUME NEW q \in Requests, NEW p \in Parties,
              SubmitPlatformPortionPaymentProof(q, p)
       PROVE  GivingInv'
  <2>1. PICK from, to \in {"PENDING", "PARTY_PAID", "DISPUTED"} : Answered(q, p, from, to)
    BY <1>25, HandshakeAnswers
  <2>2. \A v \in Workers : jobs'[v].pc \notin CancellingPcs
    BY <1>25, <2>1 DEF SubmitPlatformPortionPaymentProof, Answered, PromptInv
  <2>3. requestStatus[q] # "CANCELLED"
    BY <2>1, NoneIsNoStatus DEF Answered, PromptInv, GivingInv
  <2> QED
    BY <2>1, <2>2, <2>3
    DEF Answered, GivingPcs, CancellingPcs, PromptInv, GivingInv
<1>26. ASSUME NEW q \in Requests, NEW p \in Parties,
              DisputePlatformPortionReceipt(q, p)
       PROVE  GivingInv'
  <2>1. PICK from, to \in {"PENDING", "PARTY_PAID", "DISPUTED"} : Answered(q, p, from, to)
    BY <1>26, HandshakeAnswers
  <2>2. \A v \in Workers : jobs'[v].pc \notin CancellingPcs
    BY <1>26, <2>1 DEF DisputePlatformPortionReceipt, Answered, PromptInv
  <2>3. requestStatus[q] # "CANCELLED"
    BY <2>1, NoneIsNoStatus DEF Answered, PromptInv, GivingInv
  <2> QED
    BY <2>1, <2>2, <2>3
    DEF Answered, GivingPcs, CancellingPcs, PromptInv, GivingInv
<1>27. ASSUME NEW q \in Requests, NEW p \in Parties, RetryPortion(q, p)
       PROVE  GivingInv'
  <2>1. PICK from, to \in {"PENDING", "PARTY_PAID", "DISPUTED"} : Answered(q, p, from, to)
    BY <1>27, HandshakeAnswers
  <2>2. \A v \in Workers : jobs'[v].pc \notin CancellingPcs
    BY <1>27, <2>1 DEF RetryPortion, Answered, PromptInv
  <2>3. requestStatus[q] # "CANCELLED"
    BY <2>1, NoneIsNoStatus DEF Answered, PromptInv, GivingInv
  <2> QED
    BY <2>1, <2>2, <2>3
    DEF Answered, GivingPcs, CancellingPcs, PromptInv, GivingInv
<1>28. ASSUME NEW w \in Workers, NEW q \in Requests, NEW p \in Parties,
              ConfirmInTransaction(w, q, p)
       PROVE  GivingInv'
  <2>1. PICK from \in {"PARTY_PAID", "DISPUTED"} : Answered(q, p, from, "FULFILLED")
    BY <1>28, ConfirmAnswers
  <2>2. \A v \in Workers : jobs'[v].pc \notin CancellingPcs
    BY <1>28, <2>1, ConfirmInTransactionMoves DEF Answered, PromptInv, CancellingPcs
  <2>3. requestStatus[q] # "CANCELLED"
    BY <2>1, NoneIsNoStatus DEF Answered, PromptInv, GivingInv
  <2> QED
    BY <2>1, <2>2, <2>3
    DEF Answered, GivingPcs, CancellingPcs, PromptInv, GivingInv
<1>29. ASSUME NEW w \in Workers, NEW q \in Requests, NEW p \in Parties,
              ConfirmClaim(w, q, p)
       PROVE  GivingInv'
  <2>1. PICK from \in {"PARTY_PAID", "DISPUTED"} : Answered(q, p, from, "FULFILLED")
    BY <1>29, ConfirmAnswers
  <2>2. \A v \in Workers : jobs'[v].pc \notin CancellingPcs
    BY <1>29, <2>1, ConfirmClaimMoves DEF Answered, PromptInv, CancellingPcs
  <2>3. requestStatus[q] # "CANCELLED"
    BY <2>1, NoneIsNoStatus DEF Answered, PromptInv, GivingInv
  <2> QED
    BY <2>1, <2>2, <2>3
    DEF Answered, GivingPcs, CancellingPcs, PromptInv, GivingInv
<1>30. ASSUME Crash
       PROVE  GivingInv'
  BY <1>30
  DEF Crash, Idle, GivingPcs, withdrawalVars, PromptInv, GivingInv
<1>31. CASE UNCHANGED vars
  BY <1>31
  DEF vars, withdrawalVars, allocationVars, PromptInv, GivingInv
<1> QED
  BY <1>1, <1>2, <1>3, <1>4, <1>5, <1>6, <1>7, <1>8, <1>9, <1>10, <1>11,
     <1>12, <1>13, <1>14, <1>15, <1>16, <1>17, <1>18, <1>19, <1>20, <1>21,
     <1>22, <1>23, <1>24, <1>25, <1>26, <1>27, <1>28, <1>29, <1>30, <1>31
  DEF Next, JobStep, Handshake

LEMMA PromptStep == TypeInv /\ PromptInv /\ [Next]_vars => PromptInv'
<1> SUFFICES ASSUME TypeInv, PromptInv, [Next]_vars PROVE PromptInv'
  OBVIOUS
<1>1. PromptRequests
  BY DEF PromptInv
<1> QED
  BY <1>1, ExclusiveStep, StoredStep, DrawingStep, StoringStep, GivingStep
  DEF PromptInv

LEMMA PromptInit == WithdrawalAssumption /\ PromptRequests /\ Init => PromptInv
<1> SUFFICES ASSUME WithdrawalAssumption, PromptRequests, Init PROVE PromptInv
  OBVIOUS
<1>1. \A w \in Workers : jobs[w].pc = "idle"
  BY DEF Init, Idle
<1>2. ExclusiveInv /\ DrawingInv /\ StoringInv
  BY <1>1 DEF ExclusiveInv, DrawingInv, StoringInv, CancellingPcs
<1>3. StoredInv
  BY DEF Init, StoredInv, NoSlices
<1>4. GivingInv
  <2>1. \A q \in Requests : requestStatus[q] # "CANCELLED"
    BY DEF Init, WithdrawalAssumption, REQUEST_STATUSES
  <2> QED
    BY <1>1, <2>1 DEF GivingInv, GivingPcs
<1> QED
  BY <1>2, <1>3, <1>4 DEF PromptInv

-----------------------------------------------------------------------------
(* What is drawn on a row: by the requests that hold it, and in hand        *)

Live(q, r) == portionStatus[q][Source[r]] \notin {None, "CANCELLED"}
GivesBack(w, q) == jobs[w].q = q /\ jobs[w].pc \in GivingPcs

ReservedOn(r) == Total([q \in Requests |-> Reserved(q, r)], Requests)
InHandOn(r) == Total([w \in Workers |-> InHand(w, r)], Workers)

\* What q has reserved of r: its slice, or what the one handler that gives it
\* back has left of it.
ReservedFacts ==
  \A q \in Requests, r \in Rows :
    /\ Reserved(q, r) \in Nat
    /\ ~Live(q, r) => Reserved(q, r) = 0
    /\ Live(q, r) /\ (\A w \in Workers : ~GivesBack(w, q)) => Reserved(q, r) = slices[q][r]
    /\ \A w \in Workers :
         Live(q, r) /\ GivesBack(w, q) => Reserved(q, r) = jobs[w].plan[r]

LEMMA ReservedIs == TypeInv /\ PromptInv => ReservedFacts
<1> SUFFICES ASSUME TypeInv, PromptInv, NEW q \in Requests, NEW r \in Rows
             PROVE  /\ Reserved(q, r) \in Nat
                    /\ ~Live(q, r) => Reserved(q, r) = 0
                    /\ Live(q, r) /\ (\A w \in Workers : ~GivesBack(w, q))
                         => Reserved(q, r) = slices[q][r]
                    /\ \A w \in Workers :
                         Live(q, r) /\ GivesBack(w, q) => Reserved(q, r) = jobs[w].plan[r]
  BY DEF ReservedFacts
<1> DEFINE giving == {w \in Workers : jobs[w].q = q /\ jobs[w].pc \in GivingPcs}
           one == CHOOSE w \in giving : TRUE
<1>1. Reserved(q, r) = IF ~Live(q, r) THEN 0
                       ELSE IF giving = {} THEN slices[q][r] ELSE jobs[one].plan[r]
  BY DEF Reserved, Live, GivingPcs
<1>2. giving # {} => one \in giving
  OBVIOUS
<1>3. \A v, w \in giving : v = w
  BY DEF PromptInv, ExclusiveInv, GivingPcs, CancellingPcs
<1>4. slices[q][r] \in Nat /\ \A w \in Workers : jobs[w].plan[r] \in Nat
  BY DEF TypeInv, RequestsInv, JobsInv, Job
<1>5. \A w \in Workers : GivesBack(w, q) <=> w \in giving
  BY DEF GivesBack
<1> HIDE DEF giving, one
<1>6. Reserved(q, r) \in Nat
  <2>1. giving \subseteq Workers
    BY DEF giving
  <2> QED
    BY <1>1, <1>2, <1>4, <2>1
<1>7. \A w \in Workers :
        Live(q, r) /\ GivesBack(w, q) => Reserved(q, r) = jobs[w].plan[r]
  BY <1>1, <1>2, <1>3, <1>5
<1>8. (\A w \in Workers : ~GivesBack(w, q)) => giving = {}
  BY <1>5 DEF giving
<1> QED
  BY <1>1, <1>6, <1>7, <1>8

LEMMA ReservedIsNext == TypeInv' /\ PromptInv' => ReservedFacts'
BY ReservedIs, PTL

InHandFacts == \A w \in Workers, r \in Rows : InHand(w, r) \in Nat

LEMMA InHandIs == TypeInv => InHandFacts
BY DEF TypeInv, JobsInv, Job, InHand, InHandFacts

LEMMA InHandIsNext == TypeInv' => InHandFacts'
BY InHandIs, PTL

DrawnFacts == \A r \in Rows : ReservedOn(r) \in Nat /\ InHandOn(r) \in Nat

LEMMA DrawnIs == TypeInv /\ ReservedFacts => DrawnFacts
<1> SUFFICES ASSUME TypeInv, ReservedFacts, NEW r \in Rows
             PROVE  ReservedOn(r) \in Nat /\ InHandOn(r) \in Nat
  BY DEF DrawnFacts
<1> DEFINE f == [q \in Requests |-> Reserved(q, r)]
           g == [w \in Workers |-> InHand(w, r)]
<1>1. \A q \in Requests : f[q] \in Nat
  BY DEF ReservedFacts
<1>2. \A w \in Workers : g[w] \in Nat
  BY InHandIs DEF InHandFacts
<1> HIDE DEF f, g
<1>3. Total(f, Requests) \in Nat /\ Total(g, Workers) \in Nat
  BY <1>1, <1>2, RowsOK, TotalNat
<1> QED
  BY <1>3 DEF f, g, ReservedOn, InHandOn

LEMMA DrawnIsNext == TypeInv' /\ ReservedFacts' => DrawnFacts'
BY DrawnIs, PTL

\* One request reserves more or less, or none does.
LEMMA ReservedOnSame ==
  ASSUME TypeInv, NEW r \in Rows, \A q \in Requests : Reserved(q, r)' = Reserved(q, r)
  PROVE  ReservedOn(r)' = ReservedOn(r)
<1>1. [q \in Requests |-> Reserved(q, r)'] = [q \in Requests |-> Reserved(q, r)]
  OBVIOUS
<1> QED
  BY <1>1 DEF ReservedOn

LEMMA ReservedOnMoves ==
  ASSUME TypeInv, ReservedFacts, ReservedFacts', NEW r \in Rows, NEW u \in Requests,
         \A q \in Requests \ {u} : Reserved(q, r)' = Reserved(q, r)
  PROVE  ReservedOn(r)' = ReservedOn(r) + Reserved(u, r)' - Reserved(u, r)
<1> DEFINE f == [q \in Requests |-> Reserved(q, r)]
           g == [q \in Requests |-> Reserved(q, r)']
<1>1. \A q \in Requests : f[q] \in Int /\ g[q] \in Int
  BY DEF ReservedFacts
<1>2. \A q \in Requests \ {u} : g[q] = f[q]
  OBVIOUS
<1>3. Total(g, Requests) = Total(f, Requests) + g[u] - f[u]
  <2> HIDE DEF f, g
  <2> QED
    BY <1>1, <1>2, RowsOK, TotalOneChanges
<1> QED
  BY <1>3 DEF ReservedOn

LEMMA InHandOnMoves ==
  ASSUME TypeInv, TypeInv', NEW r \in Rows, NEW u \in Workers,
         \A w \in Workers \ {u} : InHand(w, r)' = InHand(w, r)
  PROVE  InHandOn(r)' = InHandOn(r) + InHand(u, r)' - InHand(u, r)
<1> DEFINE f == [w \in Workers |-> InHand(w, r)]
           g == [w \in Workers |-> InHand(w, r)']
<1>1. \A w \in Workers : f[w] \in Int /\ g[w] \in Int
  BY InHandIs, InHandIsNext DEF InHandFacts
<1>2. \A w \in Workers \ {u} : g[w] = f[w]
  OBVIOUS
<1>3. Total(g, Workers) = Total(f, Workers) + g[u] - f[u]
  <2> HIDE DEF f, g
  <2> QED
    BY <1>1, <1>2, RowsOK, TotalOneChanges
<1> QED
  BY <1>3 DEF InHandOn

LEMMA InHandOnFalls ==
  ASSUME TypeInv, TypeInv', NEW r \in Rows,
         \A w \in Workers : InHand(w, r)' <= InHand(w, r)
  PROVE  InHandOn(r)' <= InHandOn(r)
<1> DEFINE f == [w \in Workers |-> InHand(w, r)]
           g == [w \in Workers |-> InHand(w, r)']
<1>1. \A w \in Workers : g[w] \in Int /\ f[w] \in Int /\ g[w] <= f[w]
  BY InHandIs, InHandIsNext DEF InHandFacts
<1>2. Total(g, Workers) <= Total(f, Workers)
  <2> HIDE DEF f, g
  <2> QED
    BY <1>1, RowsOK, TotalMonotone
<1> QED
  BY <1>2 DEF InHandOn

LEMMA InHandOnSame ==
  ASSUME TypeInv, NEW r \in Rows, \A w \in Workers : InHand(w, r)' = InHand(w, r)
  PROVE  InHandOn(r)' = InHandOn(r)
<1>1. [w \in Workers |-> InHand(w, r)'] = [w \in Workers |-> InHand(w, r)]
  OBVIOUS
<1> QED
  BY <1>1 DEF InHandOn

\* NotSpentTwice, row by row.
SpentFacts ==
  \A r \in Rows : /\ ReservedOn(r) + InHandOn(r) <= used[r] /\ used[r] <= Earned[r]
                  /\ useTransactions => ReservedOn(r) + InHandOn(r) = used[r]

LEMMA SpentIs == NotSpentTwice <=> SpentFacts
BY DEF NotSpentTwice, ReservedOn, InHandOn, SpentFacts

HandPcs == {"draw", "mark", "insert", "portions"}

\* A step that gives nothing back and stores nothing leaves what is reserved.
LEMMA ReservedSteady ==
  ASSUME ReservedFacts, ReservedFacts',
         \A v \in Workers : \/ jobs'[v] = jobs[v]
                            \/ jobs[v].pc \notin GivingPcs /\ jobs'[v].pc \notin GivingPcs,
         \A q \in Requests, r \in Rows : Live(q, r)' <=> Live(q, r),
         UNCHANGED slices
  PROVE  \A q \in Requests, r \in Rows : Reserved(q, r)' = Reserved(q, r)
<1> SUFFICES ASSUME NEW q \in Requests, NEW r \in Rows
             PROVE  Reserved(q, r)' = Reserved(q, r)
  OBVIOUS
<1>1. \A v \in Workers :
        /\ GivesBack(v, q)' <=> GivesBack(v, q)
        /\ GivesBack(v, q) => jobs'[v].plan = jobs[v].plan
  BY DEF GivesBack
<1>2. CASE ~Live(q, r)
  BY <1>2 DEF ReservedFacts
<1>3. CASE Live(q, r) /\ \A w \in Workers : ~GivesBack(w, q)
  BY <1>1, <1>3 DEF ReservedFacts
<1>4. ASSUME Live(q, r), NEW w \in Workers, GivesBack(w, q)
      PROVE  Reserved(q, r)' = Reserved(q, r)
  BY <1>1, <1>4 DEF ReservedFacts
<1> QED
  BY <1>2, <1>3, <1>4

\* A handler that draws nothing has no more in hand than it had.
LEMMA InHandSteady ==
  ASSUME TypeInv, NEW r \in Rows, NEW v \in Workers
  PROVE  /\ jobs'[v] = jobs[v] => InHand(v, r)' = InHand(v, r)
         /\ jobs[v].pc \notin HandPcs => InHand(v, r) = 0
         /\ jobs'[v].pc \notin HandPcs => InHand(v, r)' = 0 /\ InHand(v, r)' <= InHand(v, r)
<1>1. InHand(v, r) \in Nat
  BY InHandIs DEF InHandFacts
<1> QED
  BY <1>1 DEF InHand, HandPcs

LEMMA SpentSteady ==
  ASSUME TypeInv, TypeInv', ReservedFacts, ReservedFacts', SpentFacts,
         \A q \in Requests, r \in Rows : Reserved(q, r)' = Reserved(q, r),
         \A w \in Workers, r \in Rows :
           /\ InHand(w, r)' <= InHand(w, r)
           /\ useTransactions => InHand(w, r)' = InHand(w, r),
         UNCHANGED <<used, useTransactions>>
  PROVE  SpentFacts'
<1> SUFFICES ASSUME NEW r \in Rows
             PROVE  /\ ReservedOn(r)' + InHandOn(r)' <= used'[r]
                    /\ used'[r] <= Earned[r]
                    /\ useTransactions' => ReservedOn(r)' + InHandOn(r)' = used'[r]
  BY DEF SpentFacts
<1>1. ReservedOn(r)' = ReservedOn(r)
  BY ReservedOnSame
<1>2. InHandOn(r)' <= InHandOn(r)
  BY InHandOnFalls
<1>3. useTransactions => InHandOn(r)' = InHandOn(r)
  BY InHandOnSame
<1>4. PICK x \in Nat, y \in Nat, z \in Nat :
        x = ReservedOn(r) /\ y = InHandOn(r) /\ z = InHandOn(r)'
  BY DrawnIs, DrawnIsNext DEF DrawnFacts
<1>5. PICK u \in Int : u = used[r] /\ u = used'[r]
  BY DEF TypeInv, RowsInv
<1>6. /\ x + y <= u /\ u <= Earned[r]
      /\ useTransactions => x + y = u
  BY <1>4, <1>5 DEF SpentFacts
<1> QED
  BY <1>1, <1>2, <1>3, <1>4, <1>5, <1>6

\* On a row where the sums move together with what is used up.
LEMMA SpentMoves ==
  ASSUME TypeInv, TypeInv', ReservedFacts, ReservedFacts', SpentFacts, NEW r \in Rows,
         NEW a \in Int, NEW b \in Int,
         ReservedOn(r)' = ReservedOn(r) + a, InHandOn(r)' = InHandOn(r) + b,
         used'[r] = used[r] + a + b, UNCHANGED useTransactions
  PROVE  /\ ReservedOn(r)' + InHandOn(r)' <= used'[r] /\ used'[r] <= Earned[r]
         /\ useTransactions' => ReservedOn(r)' + InHandOn(r)' = used'[r]
<1>1. PICK x \in Nat, y \in Nat : x = ReservedOn(r) /\ y = InHandOn(r)
  BY DrawnIs DEF DrawnFacts
<1>2. PICK u \in Int : u = used[r]
  BY DEF TypeInv, RowsInv
<1>3. /\ x + y <= u
      /\ useTransactions => x + y = u
  BY <1>1, <1>2 DEF SpentFacts
<1>4. used'[r] <= Earned[r]
  BY DEF TypeInv, RowsInv
<1> QED
  BY <1>1, <1>2, <1>3, <1>4

\* Whatever is reserved is used up, so a row is never given back more than was
\* drawn on it, and the status of a row given back is always saved.
LEMMA UnmarkSucceeds ==
  ASSUME TypeInv, PromptInv, SpentFacts, NEW w \in Workers, jobs[w].pc = "unmark"
  PROVE  version[jobs[w].row] = jobs[w].ver /\ jobs[w].left >= 0
<1>1. PICK r \in Rows : r = jobs[w].row
  BY CancellingKnows DEF CancellingPcs
<1>2. version[r] = jobs[w].ver /\ used[r] = jobs[w].left
  BY <1>1 DEF PromptInv, GivingInv, GivingPcs
<1>3. PICK x \in Nat, y \in Nat : x = ReservedOn(r) /\ y = InHandOn(r)
  BY ReservedIs, DrawnIs DEF DrawnFacts
<1>4. x + y <= used[r] /\ used[r] \in Int
  BY <1>3 DEF SpentFacts, TypeInv, RowsInv
<1> QED
  BY <1>1, <1>2, <1>4

LEMMA SpentStep ==
  TypeInv /\ TypeInv' /\ PromptInv /\ PromptInv' /\ SpentFacts /\ [Next]_vars => SpentFacts'
<1> SUFFICES ASSUME TypeInv, TypeInv', PromptInv, PromptInv', SpentFacts, [Next]_vars
             PROVE  SpentFacts'
  OBVIOUS
<1>a. ReservedFacts /\ ReservedFacts'
  BY ReservedIs, ReservedIsNext
<1>b. InHandFacts /\ InHandFacts'
  BY InHandIs, InHandIsNext
<1>c. \A w \in Workers : jobs[w].pc = "unmark" =>
        version[jobs[w].row] = jobs[w].ver /\ jobs[w].left >= 0
  BY UnmarkSucceeds
<1>1. ASSUME NEW r \in Rows, CreateAllocation(r)
      PROVE  SpentFacts'
  <2>2. UNCHANGED <<used, useTransactions, slices>>
    BY <1>1 DEF CreateAllocation, allocationVars, withdrawalVars
  <2>3. \A u \in Requests, s \in Rows : Live(u, s)' <=> Live(u, s)
    BY <1>1 DEF CreateAllocation, withdrawalVars, Live
  <2>4. \A v \in Workers : jobs'[v] = jobs[v]
    BY <1>1 DEF CreateAllocation
  <2>5. \A u \in Requests, s \in Rows : Reserved(u, s)' = Reserved(u, s)
    BY <1>a, <2>2, <2>3, <2>4, ReservedSteady
  <2>6. \A v \in Workers, s \in Rows : InHand(v, s)' = InHand(v, s)
    BY <2>4, InHandSteady
  <2> QED
    BY <1>a, <1>b, <2>2, <2>5, <2>6, SpentSteady DEF InHandFacts
<1>2. ASSUME NEW c \in Commissions, PayCommissionFromPool(c)
      PROVE  SpentFacts'
  <2>2. UNCHANGED <<used, useTransactions, slices>>
    BY <1>2 DEF PayCommissionFromPool, allocationVars, withdrawalVars
  <2>3. \A u \in Requests, s \in Rows : Live(u, s)' <=> Live(u, s)
    BY <1>2 DEF PayCommissionFromPool, withdrawalVars, Live
  <2>4. \A v \in Workers : jobs'[v] = jobs[v]
    BY <1>2 DEF PayCommissionFromPool
  <2>5. \A u \in Requests, s \in Rows : Reserved(u, s)' = Reserved(u, s)
    BY <1>a, <2>2, <2>3, <2>4, ReservedSteady
  <2>6. \A v \in Workers, s \in Rows : InHand(v, s)' = InHand(v, s)
    BY <2>4, InHandSteady
  <2> QED
    BY <1>a, <1>b, <2>2, <2>5, <2>6, SpentSteady DEF InHandFacts
<1>3. ASSUME NEW w \in Workers, NEW a \in Amounts, RequestPlatformWithdrawal(w, a)
      PROVE  SpentFacts'
  <2>2. UNCHANGED <<used, useTransactions, slices>>
    BY <1>3 DEF RequestPlatformWithdrawal, allocationVars, withdrawalVars
  <2>3. \A u \in Requests, s \in Rows : Live(u, s)' <=> Live(u, s)
    BY <1>3 DEF RequestPlatformWithdrawal, withdrawalVars, Live
  <2>4. /\ \A v \in Workers \ {w} : jobs'[v] = jobs[v]
        /\ jobs[w].pc \notin GivingPcs /\ jobs'[w].pc \notin GivingPcs
    BY <1>3, RequestPlatformWithdrawalMoves DEF Idle, GivingPcs
  <2>5. \A u \in Requests, s \in Rows : Reserved(u, s)' = Reserved(u, s)
    BY <1>a, <2>2, <2>3, <2>4, ReservedSteady
  <2>6. \A v \in Workers, s \in Rows : InHand(v, s)' = InHand(v, s)
    <3>1. jobs[w].pc \notin HandPcs /\ jobs'[w].pc \notin HandPcs
      BY <1>3, RequestPlatformWithdrawalMoves DEF HandPcs, Idle
    <3> QED
      BY <2>4, <3>1, InHandSteady
  <2> QED
    BY <1>a, <1>b, <2>2, <2>5, <2>6, SpentSteady DEF InHandFacts
<1>4. ASSUME NEW w \in Workers, NEW q \in Requests, CancelPlatformWithdrawal(w, q)
      PROVE  SpentFacts'
  <2>2. UNCHANGED <<used, useTransactions, slices>>
    BY <1>4 DEF CancelPlatformWithdrawal, allocationVars, withdrawalVars
  <2>3. \A u \in Requests, s \in Rows : Live(u, s)' <=> Live(u, s)
    BY <1>4 DEF CancelPlatformWithdrawal, withdrawalVars, Live
  <2>4. /\ \A v \in Workers \ {w} : jobs'[v] = jobs[v]
        /\ jobs[w].pc \notin GivingPcs /\ jobs'[w].pc \notin GivingPcs
    BY <1>4, CancelPlatformWithdrawalMoves DEF Idle, GivingPcs
  <2>5. \A u \in Requests, s \in Rows : Reserved(u, s)' = Reserved(u, s)
    BY <1>a, <2>2, <2>3, <2>4, ReservedSteady
  <2>6. \A v \in Workers, s \in Rows : InHand(v, s)' = InHand(v, s)
    <3>1. jobs[w].pc \notin HandPcs /\ jobs'[w].pc \notin HandPcs
      BY <1>4, CancelPlatformWithdrawalMoves DEF HandPcs, Idle
    <3> QED
      BY <2>4, <3>1, InHandSteady
  <2> QED
    BY <1>a, <1>b, <2>2, <2>5, <2>6, SpentSteady DEF InHandFacts
<1>5. ASSUME NEW w \in Workers, Refuse(w)
      PROVE  SpentFacts'
  <2>2. UNCHANGED <<used, useTransactions, slices>>
    BY <1>5 DEF Refuse, allocationVars, withdrawalVars
  <2>3. \A u \in Requests, s \in Rows : Live(u, s)' <=> Live(u, s)
    BY <1>5 DEF Refuse, withdrawalVars, Live
  <2>4. /\ \A v \in Workers \ {w} : jobs'[v] = jobs[v]
        /\ jobs[w].pc \notin GivingPcs /\ jobs'[w].pc \notin GivingPcs
    BY <1>5, RefuseMoves DEF Idle, GivingPcs
  <2>5. \A u \in Requests, s \in Rows : Reserved(u, s)' = Reserved(u, s)
    BY <1>a, <2>2, <2>3, <2>4, ReservedSteady
  <2>6. \A v \in Workers, s \in Rows : InHand(v, s)' = InHand(v, s)
    <3>1. jobs[w].pc \notin HandPcs /\ jobs'[w].pc \notin HandPcs
      BY <1>5, RefuseMoves DEF HandPcs, Idle
    <3> QED
      BY <2>4, <3>1, InHandSteady
  <2> QED
    BY <1>a, <1>b, <2>2, <2>5, <2>6, SpentSteady DEF InHandFacts
<1>6. ASSUME NEW w \in Workers, ReadCandidates(w)
      PROVE  SpentFacts'
  <2>2. UNCHANGED <<used, useTransactions, slices>>
    BY <1>6 DEF ReadCandidates, allocationVars, withdrawalVars
  <2>3. \A u \in Requests, s \in Rows : Live(u, s)' <=> Live(u, s)
    BY <1>6 DEF ReadCandidates, withdrawalVars, Live
  <2>4. /\ \A v \in Workers \ {w} : jobs'[v] = jobs[v]
        /\ jobs[w].pc \notin GivingPcs /\ jobs'[w].pc \notin GivingPcs
    BY <1>6, ReadCandidatesMoves DEF Idle, GivingPcs
  <2>5. \A u \in Requests, s \in Rows : Reserved(u, s)' = Reserved(u, s)
    BY <1>a, <2>2, <2>3, <2>4, ReservedSteady
  <2>6. \A v \in Workers, s \in Rows : InHand(v, s)' = InHand(v, s)
    <3>1. jobs[w].pc = "consume" /\ jobs'[w].row = 0
      BY <1>6, ReadCandidatesMoves DEF TypeInv, JobsInv, JobKnows
    <3>2. \A s \in Rows : ~ (s <= 0)
      BY RowsOK
    <3>3. \A s \in Rows : InHand(w, s)' = 0 /\ InHand(w, s) = 0
      BY <3>1, <3>2 DEF InHand
    <3> QED
      BY <2>4, <3>3, InHandSteady
  <2> QED
    BY <1>a, <1>b, <2>2, <2>5, <2>6, SpentSteady DEF InHandFacts
<1>7. ASSUME NEW w \in Workers, Mark(w)
      PROVE  SpentFacts'
  <2>2. UNCHANGED <<used, useTransactions, slices>>
    BY <1>7 DEF Mark, allocationVars, withdrawalVars
  <2>3. \A u \in Requests, s \in Rows : Live(u, s)' <=> Live(u, s)
    BY <1>7 DEF Mark, withdrawalVars, Live
  <2>4. /\ \A v \in Workers \ {w} : jobs'[v] = jobs[v]
        /\ jobs[w].pc \notin GivingPcs /\ jobs'[w].pc \notin GivingPcs
    BY <1>7, MarkMoves DEF Idle, GivingPcs
  <2>5. \A u \in Requests, s \in Rows : Reserved(u, s)' = Reserved(u, s)
    BY <1>a, <2>2, <2>3, <2>4, ReservedSteady
  <2>6. \A v \in Workers, s \in Rows : InHand(v, s)' = InHand(v, s)
    <3>1. \A s \in Rows : InHand(w, s)' = InHand(w, s)
      BY <1>7, MarkMoves DEF InHand
    <3> QED
      BY <2>4, <3>1, InHandSteady
  <2> QED
    BY <1>a, <1>b, <2>2, <2>5, <2>6, SpentSteady DEF InHandFacts
<1>8. ASSUME NEW w \in Workers, MarkLost(w)
      PROVE  SpentFacts'
  <2>2. UNCHANGED <<used, useTransactions, slices>>
    BY <1>8 DEF MarkLost, allocationVars, withdrawalVars
  <2>3. \A u \in Requests, s \in Rows : Live(u, s)' <=> Live(u, s)
    BY <1>8 DEF MarkLost, withdrawalVars, Live
  <2>4. /\ \A v \in Workers \ {w} : jobs'[v] = jobs[v]
        /\ jobs[w].pc \notin GivingPcs /\ jobs'[w].pc \notin GivingPcs
    BY <1>8, MarkLostMoves DEF Idle, GivingPcs
  <2>5. \A u \in Requests, s \in Rows : Reserved(u, s)' = Reserved(u, s)
    BY <1>a, <2>2, <2>3, <2>4, ReservedSteady
  <2>6. \A v \in Workers, s \in Rows :
          /\ InHand(v, s)' <= InHand(v, s)
          /\ useTransactions => InHand(v, s)' = InHand(v, s)
    <3>1. jobs'[w].pc \notin HandPcs /\ ~useTransactions
      BY <1>8, MarkLostMoves DEF PromptInv, DrawingInv, HandPcs, Idle
    <3> QED
      BY <1>b, <2>4, <3>1, InHandSteady DEF InHandFacts
  <2> QED
    BY <1>a, <1>b, <2>2, <2>5, <2>6, SpentSteady DEF InHandFacts
<1>9. ASSUME NEW w \in Workers, NEW r \in Rows, Draw(w, r)
      PROVE  SpentFacts'
  <2> SUFFICES ASSUME NEW s \in Rows
               PROVE  /\ ReservedOn(s)' + InHandOn(s)' <= used'[s]
                      /\ used'[s] <= Earned[s]
                      /\ useTransactions' => ReservedOn(s)' + InHandOn(s)' = used'[s]
    BY DEF SpentFacts
  <2>1. /\ UNCHANGED <<slices, useTransactions>>
        /\ \A u \in Requests, x \in Rows : Live(u, x)' <=> Live(u, x)
    BY <1>9 DEF Draw, DrawOn, withdrawalVars, Live
  <2>2. /\ \A v \in Workers \ {w} : jobs'[v] = jobs[v]
        /\ jobs[w].pc \notin GivingPcs /\ jobs'[w].pc \notin GivingPcs
    BY <1>9, DrawMoves DEF GivingPcs
  <2>3. ReservedOn(s)' = ReservedOn(s) + 0
    <3>1. \A u \in Requests, x \in Rows : Reserved(u, x)' = Reserved(u, x)
      BY <1>a, <2>1, <2>2, ReservedSteady
    <3>2. ReservedOn(s)' = ReservedOn(s) /\ ReservedOn(s) \in Nat
      BY <1>a, <3>1, ReservedOnSame, DrawnIs DEF DrawnFacts
    <3> QED
      BY <3>2
  <2> DEFINE b == IF s = r THEN jobs[w].plan[r] ELSE 0
  <2>4. b \in Int
    BY DEF TypeInv, JobsInv, Job
  <2>5. InHand(w, s)' = InHand(w, s) + b
    <3>1. /\ jobs[w].pc = "draw" /\ jobs'[w].pc = "mark"
          /\ jobs'[w].plan = jobs[w].plan /\ jobs'[w].row = r
      BY <1>9, DrawMoves
    <3>2. r > jobs[w].row /\ \A x \in Rows : x < r /\ x > jobs[w].row => jobs[w].plan[x] = 0
      BY <1>9 DEF Draw, NextDraw
    <3>3. jobs[w].row \in Nat /\ r \in Nat /\ s \in Nat
      <4>1. jobs[w].row \in Rows \cup {0}
        BY DEF TypeInv, JobsInv, Job
      <4> QED
        BY <4>1, RowsOK
    <3>4. jobs[w].plan[s] \in Nat
      BY DEF TypeInv, JobsInv, Job
    <3>5. InHand(w, s) = IF s <= jobs[w].row THEN jobs[w].plan[s] ELSE 0
      BY <3>1 DEF InHand
    <3>6. InHand(w, s)' = IF s <= r THEN jobs[w].plan[s] ELSE 0
      BY <3>1 DEF InHand
    <3> QED
      BY <3>2, <3>3, <3>4, <3>5, <3>6
  <2>6. InHandOn(s)' = InHandOn(s) + b
    <3>1. \A v \in Workers \ {w} : InHand(v, s)' = InHand(v, s)
      BY <2>2, InHandSteady
    <3>2. InHandOn(s)' = InHandOn(s) + InHand(w, s)' - InHand(w, s)
      BY <3>1, InHandOnMoves
    <3>3. InHandOn(s) \in Nat /\ InHand(w, s) \in Nat
      BY <1>a, <1>b, DrawnIs DEF DrawnFacts, InHandFacts
    <3> HIDE DEF b
    <3> QED
      BY <2>4, <2>5, <3>2, <3>3
  <2>7. used'[s] = used[s] + 0 + b
    BY <1>9 DEF Draw, DrawOn, TypeInv, RowsInv, JobsInv, Job
  <2> HIDE DEF b
  <2> QED
    BY <1>a, <2>1, <2>3, <2>4, <2>6, <2>7, SpentMoves
<1>10. ASSUME NEW w \in Workers, NEW r \in Rows, DrawLost(w, r)
       PROVE  SpentFacts'
  <2>2. UNCHANGED <<used, useTransactions, slices>>
    BY <1>10 DEF DrawLost, allocationVars, withdrawalVars
  <2>3. \A u \in Requests, s \in Rows : Live(u, s)' <=> Live(u, s)
    BY <1>10 DEF DrawLost, withdrawalVars, Live
  <2>4. /\ \A v \in Workers \ {w} : jobs'[v] = jobs[v]
        /\ jobs[w].pc \notin GivingPcs /\ jobs'[w].pc \notin GivingPcs
    BY <1>10, DrawLostMoves DEF Idle, GivingPcs
  <2>5. \A u \in Requests, s \in Rows : Reserved(u, s)' = Reserved(u, s)
    BY <1>a, <2>2, <2>3, <2>4, ReservedSteady
  <2>6. \A v \in Workers, s \in Rows :
          /\ InHand(v, s)' <= InHand(v, s)
          /\ useTransactions => InHand(v, s)' = InHand(v, s)
    <3>1. jobs'[w].pc \notin HandPcs /\ ~useTransactions
      BY <1>10, DrawLostMoves DEF PromptInv, DrawingInv, HandPcs, Idle
    <3> QED
      BY <1>b, <2>4, <3>1, InHandSteady DEF InHandFacts
  <2> QED
    BY <1>a, <1>b, <2>2, <2>5, <2>6, SpentSteady DEF InHandFacts
<1>11. ASSUME NEW w \in Workers, NEW r \in Rows, ReleaseSlice(w, r)
       PROVE  SpentFacts'
  <2> SUFFICES ASSUME NEW s \in Rows
               PROVE  /\ ReservedOn(s)' + InHandOn(s)' <= used'[s]
                      /\ used'[s] <= Earned[s]
                      /\ useTransactions' => ReservedOn(s)' + InHandOn(s)' = used'[s]
    BY DEF SpentFacts
  <2>1. \A v \in Workers \ {w} :
          jobs[v].pc \notin GivingPcs /\ jobs'[v].pc \notin GivingPcs
    BY <1>11, ReleaseSliceMoves, Alone DEF GivingPcs, CancellingPcs
  <2>2. PICK q \in Requests : q = jobs[w].q
    BY <1>11, ReleaseSliceMoves, CancellingKnows DEF CancellingPcs
  <2>3. jobs[w].plan \in [Rows -> Nat] /\ slices[q] \in [Rows -> Nat]
    BY DEF TypeInv, JobsInv, Job, RequestsInv
  <2>h. InHandOn(s)' = InHandOn(s)
    <3>1. /\ \A v \in Workers \ {w} : jobs'[v] = jobs[v]
          /\ jobs[w].pc \notin HandPcs /\ jobs'[w].pc \notin HandPcs
      BY <1>11, ReleaseSliceMoves DEF HandPcs, Idle
    <3>2. \A v \in Workers : InHand(v, s)' = InHand(v, s)
      BY <3>1, InHandSteady
    <3> QED
      BY <3>2, InHandOnSame
  <2>4. /\ UNCHANGED <<slices, useTransactions>>
        /\ \A u \in Requests : Live(u, s)' <=> Live(u, s)
        /\ used'[s] = IF s = r THEN used[r] - jobs[w].plan[r] ELSE used[s]
    BY <1>11 DEF ReleaseSlice, withdrawalVars, Live, TypeInv, RowsInv
  <2>5. /\ \A v \in Workers, u \in Requests : GivesBack(v, u) <=> v = w /\ u = q
        /\ \A v \in Workers, u \in Requests : GivesBack(v, u)' <=> v = w /\ u = q
        /\ jobs'[w].plan[s] = IF s = r THEN 0 ELSE jobs[w].plan[s]
    BY <1>11, <2>1, <2>2, ReleaseSliceMoves DEF GivesBack, GivingPcs
  <2> DEFINE b == IF s = r THEN jobs[w].plan[r] ELSE 0
  <2>6. b \in Nat
    BY <2>3
  <2>7. \A u \in Requests \ {q} : Reserved(u, s)' = Reserved(u, s)
    <3> SUFFICES ASSUME NEW u \in Requests \ {q} PROVE Reserved(u, s)' = Reserved(u, s)
      OBVIOUS
    <3>1. \A v \in Workers : ~GivesBack(v, u) /\ ~GivesBack(v, u)'
      BY <2>5
    <3> QED
      BY <1>a, <2>4, <3>1 DEF ReservedFacts
  <2>8. Reserved(q, s)' = Reserved(q, s) - b
    <3>1. GivesBack(w, q)' /\ GivesBack(w, q)
      BY <2>5
    <3>2. CASE Live(q, s)
      <4>1. Reserved(q, s) = jobs[w].plan[s] /\ Reserved(q, s)' = jobs'[w].plan[s]
        BY <1>a, <2>4, <3>1, <3>2 DEF ReservedFacts
      <4> QED
        BY <2>3, <2>5, <4>1
    <3>3. CASE ~Live(q, s)
      <4>1. Reserved(q, s) = 0 /\ Reserved(q, s)' = 0
        BY <1>a, <2>4, <3>3 DEF ReservedFacts
      <4>2. /\ jobs[w].plan[s] <= slices[q][s]
            /\ \A p \in Parties : portionStatus[q][p] \in {None, "PENDING"}
        BY <2>2, <3>1 DEF GivesBack, PromptInv, GivingInv
      <4>3. slices[q][s] = 0
        BY <3>3, <4>2, RowsOK, NoneIsNoStatus DEF Live, PromptInv, StoredInv
      <4>4. jobs[w].plan[s] = 0
        BY <2>3, <4>2, <4>3
      <4> QED
        BY <4>1, <4>4
    <3> QED
      BY <3>2, <3>3
  <2>9. ReservedOn(s)' = ReservedOn(s) + (0 - b)
    <3>1. ReservedOn(s)' = ReservedOn(s) + Reserved(q, s)' - Reserved(q, s)
      BY <1>a, <2>7, ReservedOnMoves
    <3>2. ReservedOn(s) \in Nat /\ Reserved(q, s) \in Nat
      BY <1>a, DrawnIs DEF DrawnFacts, ReservedFacts
    <3> HIDE DEF b
    <3> QED
      BY <2>6, <2>8, <3>1, <3>2
  <2>10. InHandOn(s)' = InHandOn(s) + 0
    <3>1. InHandOn(s) \in Nat
      BY <1>a, DrawnIs DEF DrawnFacts
    <3> QED
      BY <2>h, <3>1
  <2>11. used'[s] = used[s] + (0 - b) + 0
    <3>1. used[s] \in Int
      BY DEF TypeInv, RowsInv
    <3> QED
      BY <2>3, <2>4, <3>1
  <2>12. 0 - b \in Int /\ 0 \in Int
    BY <2>6
  <2> HIDE DEF b
  <2> QED
    BY <1>a, <2>4, <2>9, <2>10, <2>11, <2>12, SpentMoves
<1>12. ASSUME NEW w \in Workers, NEW q \in Requests, InsertRequest(w, q)
       PROVE  SpentFacts'
  <2>2. UNCHANGED <<used, useTransactions, slices>>
    BY <1>12 DEF InsertRequest, allocationVars
  <2>3. \A u \in Requests, s \in Rows : Live(u, s)' <=> Live(u, s)
    BY <1>12 DEF InsertRequest, Live
  <2>4. /\ \A v \in Workers \ {w} : jobs'[v] = jobs[v]
        /\ jobs[w].pc \notin GivingPcs /\ jobs'[w].pc \notin GivingPcs
    BY <1>12, InsertRequestMoves DEF Idle, GivingPcs
  <2>5. \A u \in Requests, s \in Rows : Reserved(u, s)' = Reserved(u, s)
    BY <1>a, <2>2, <2>3, <2>4, ReservedSteady
  <2>6. \A v \in Workers, s \in Rows : InHand(v, s)' = InHand(v, s)
    <3>1. \A s \in Rows : InHand(w, s)' = InHand(w, s)
      BY <1>12, InsertRequestMoves DEF InHand
    <3> QED
      BY <2>4, <3>1, InHandSteady
  <2> QED
    BY <1>a, <1>b, <2>2, <2>5, <2>6, SpentSteady DEF InHandFacts
<1>13. ASSUME NEW w \in Workers, NEW q \in Requests, RequestInTransaction(w, q)
       PROVE  SpentFacts'
  <2> SUFFICES ASSUME NEW s \in Rows
               PROVE  /\ ReservedOn(s)' + InHandOn(s)' <= used'[s]
                      /\ used'[s] <= Earned[s]
                      /\ useTransactions' => ReservedOn(s)' + InHandOn(s)' = used'[s]
    BY DEF SpentFacts
  <2>1. \A v \in Workers : jobs[v].pc \notin GivingPcs /\ jobs'[v].pc \notin GivingPcs
    BY <1>13, Alone, RequestInTransactionMoves
    DEF GivingPcs, CreatingPcs, CancellingPcs, Idle
  <2>2. \A u \in Requests, v \in Workers : ~GivesBack(v, u) /\ ~GivesBack(v, u)'
    BY <2>1 DEF GivesBack
  <2> DEFINE b == PlanOf(w)[s]
  <2>3. b \in Nat
    BY PlanOfType
  <2>4. \A u \in Requests \ {q} : Reserved(u, s)' = Reserved(u, s)
    <3> SUFFICES ASSUME NEW u \in Requests \ {q} PROVE Reserved(u, s)' = Reserved(u, s)
      OBVIOUS
    <3>1. (Live(u, s)' <=> Live(u, s)) /\ slices'[u] = slices[u]
      BY <1>13, RequestInTransactionStores DEF Live
    <3> QED
      BY <1>a, <2>2, <3>1 DEF ReservedFacts
  <2>5. Reserved(q, s)' = b /\ Reserved(q, s) = 0
    <3>1. ~Live(q, s)
      BY <1>13, RequestInTransactionStores, RowsOK DEF Live, PromptInv, StoredInv
    <3>2. slices'[q][s] = b
      BY <1>13, RequestInTransactionStores
    <3>3. b > 0 => Live(q, s)'
      BY <1>13, RequestInTransactionStores, NoneIsNoStatus DEF Live
    <3> HIDE DEF b
    <3> QED
      BY <1>a, <2>2, <2>3, <3>1, <3>2, <3>3 DEF ReservedFacts
  <2>6. ReservedOn(s)' = ReservedOn(s) + b
    <3>1. ReservedOn(s)' = ReservedOn(s) + Reserved(q, s)' - Reserved(q, s)
      BY <1>a, <2>4, ReservedOnMoves
    <3>2. ReservedOn(s) \in Nat
      BY <1>a, DrawnIs DEF DrawnFacts
    <3> HIDE DEF b
    <3> QED
      BY <2>3, <2>5, <3>1, <3>2
  <2>7. InHandOn(s)' = InHandOn(s) + 0
    <3>1. /\ \A v \in Workers \ {w} : jobs'[v] = jobs[v]
          /\ jobs[w].pc \notin HandPcs /\ jobs'[w].pc \notin HandPcs
      BY <1>13, RequestInTransactionMoves DEF HandPcs, Idle
    <3>2. \A v \in Workers : InHand(v, s)' = InHand(v, s)
      BY <3>1, InHandSteady
    <3>3. InHandOn(s)' = InHandOn(s) /\ InHandOn(s) \in Nat
      BY <1>a, <3>2, InHandOnSame, DrawnIs DEF DrawnFacts
    <3> QED
      BY <3>3
  <2>8. used'[s] = used[s] + b + 0 /\ UNCHANGED useTransactions
    <3>1. used'[s] = used[s] + b /\ UNCHANGED useTransactions /\ used[s] \in Int
      BY <1>13 DEF RequestInTransaction, PlanOf, TypeInv, RowsInv
    <3> HIDE DEF b
    <3> QED
      BY <2>3, <3>1
  <2>9. b \in Int /\ 0 \in Int
    BY <2>3
  <2> HIDE DEF b
  <2> QED
    BY <1>a, <2>6, <2>7, <2>8, <2>9, SpentMoves
<1>14. ASSUME NEW w \in Workers, NEW p \in Parties, InsertPortion(w, p)
       PROVE  SpentFacts'
  <2> SUFFICES ASSUME NEW s \in Rows
               PROVE  /\ ReservedOn(s)' + InHandOn(s)' <= used'[s]
                      /\ used'[s] <= Earned[s]
                      /\ useTransactions' => ReservedOn(s)' + InHandOn(s)' = used'[s]
    BY DEF SpentFacts
  <2>1. PICK q \in Requests :
           /\ q = jobs[w].q
           /\ portionStatus'[q][p] = "PENDING"
           /\ \A u \in Requests, x \in Parties :
                u # q \/ x # p => portionStatus'[u][x] = portionStatus[u][x]
           /\ \A r \in Rows :
                slices'[q][r] = IF Source[r] = p THEN jobs[w].plan[r] ELSE slices[q][r]
           /\ \A u \in Requests \ {q} : slices'[u] = slices[u]
    BY <1>14, InsertPortionStores
  <2>2. jobs[w].pc = "portions" /\ \A v \in Workers \ {w} : jobs'[v] = jobs[v]
    BY <1>14, InsertPortionMoves
  <2>3. \A v \in Workers : jobs[v].pc \notin GivingPcs /\ jobs'[v].pc \notin GivingPcs
    BY <1>14, <2>2, Alone, InsertPortionMoves
    DEF GivingPcs, CreatingPcs, CancellingPcs, Idle
  <2>4. \A u \in Requests, v \in Workers : ~GivesBack(v, u) /\ ~GivesBack(v, u)'
    BY <2>3 DEF GivesBack
  <2> DEFINE b == IF Source[s] = p THEN jobs[w].plan[s] ELSE 0
  <2>5. jobs[w].plan[s] \in Nat /\ b \in Nat
    BY DEF TypeInv, JobsInv, Job
  <2>6. \A u \in Requests \ {q} : Reserved(u, s)' = Reserved(u, s)
    <3> SUFFICES ASSUME NEW u \in Requests \ {q} PROVE Reserved(u, s)' = Reserved(u, s)
      OBVIOUS
    <3>1. (Live(u, s)' <=> Live(u, s)) /\ slices'[u] = slices[u]
      BY <2>1, RowsOK DEF Live
    <3> QED
      BY <1>a, <2>4, <3>1 DEF ReservedFacts
  <2>7. Reserved(q, s)' = Reserved(q, s) + b
    <3>1. CASE Source[s] # p
      <4>1. (Live(q, s)' <=> Live(q, s)) /\ slices'[q][s] = slices[q][s]
        BY <2>1, <3>1, RowsOK DEF Live
      <4>2. Reserved(q, s)' = Reserved(q, s) /\ Reserved(q, s) \in Nat
        BY <1>a, <2>4, <4>1 DEF ReservedFacts
      <4> QED
        BY <3>1, <4>2
    <3>2. CASE Source[s] = p
      <4>1. PICK r \in Rows : Source[r] = p /\ jobs[w].plan[r] > 0
        BY <1>14, InsertPortionStores
      <4>2. portionStatus[q][p] = None
        BY <2>1, <2>2, <4>1 DEF PromptInv, StoringInv
      <4>3. ~Live(q, s) /\ Live(q, s)' /\ slices'[q][s] = jobs[w].plan[s]
        BY <2>1, <3>2, <4>2, NoneIsNoStatus DEF Live
      <4>4. Reserved(q, s) = 0 /\ Reserved(q, s)' = jobs[w].plan[s]
        BY <1>a, <2>4, <4>3 DEF ReservedFacts
      <4> QED
        BY <2>5, <3>2, <4>4
    <3> QED
      BY <3>1, <3>2
  <2>8. ReservedOn(s)' = ReservedOn(s) + b
    <3>1. ReservedOn(s)' = ReservedOn(s) + Reserved(q, s)' - Reserved(q, s)
      BY <1>a, <2>6, ReservedOnMoves
    <3>2. ReservedOn(s) \in Nat /\ Reserved(q, s) \in Nat
      BY <1>a, DrawnIs DEF DrawnFacts, ReservedFacts
    <3> HIDE DEF b
    <3> QED
      BY <2>5, <2>7, <3>1, <3>2
  <2>9. InHand(w, s)' = InHand(w, s) - b
    <3>1. jobs[w].plan[s] > 0 => s <= jobs[w].row
      BY <2>2 DEF PromptInv, DrawingInv
    <3>2. InHand(w, s) = jobs[w].plan[s]
      BY <2>2, <2>5, <3>1 DEF InHand
    <3>3. CASE jobs'[w] = Idle /\ \A r \in Rows : Source[r] # p => jobs[w].plan[r] = 0
      <4>1. InHand(w, s)' = 0
        BY <3>3 DEF InHand, Idle
      <4> QED
        BY <2>5, <3>2, <3>3, <4>1
    <3>4. CASE /\ jobs'[w].pc = "portions" /\ jobs'[w].row = jobs[w].row
               /\ \A r \in Rows :
                    jobs'[w].plan[r] = IF Source[r] = p THEN 0 ELSE jobs[w].plan[r]
      <4>1. InHand(w, s)' = IF s <= jobs[w].row
                              THEN IF Source[s] = p THEN 0 ELSE jobs[w].plan[s]
                              ELSE 0
        BY <3>4 DEF InHand
      <4> QED
        BY <2>5, <3>1, <3>2, <4>1
    <3> QED
      BY <1>14, <3>3, <3>4, InsertPortionMoves
  <2>10. InHandOn(s)' = InHandOn(s) + (0 - b)
    <3>1. \A v \in Workers \ {w} : InHand(v, s)' = InHand(v, s)
      BY <2>2, InHandSteady
    <3>2. InHandOn(s)' = InHandOn(s) + InHand(w, s)' - InHand(w, s)
      BY <3>1, InHandOnMoves
    <3>3. InHandOn(s) \in Nat /\ InHand(w, s) \in Nat
      BY <1>a, <1>b, DrawnIs DEF DrawnFacts, InHandFacts
    <3> HIDE DEF b
    <3> QED
      BY <2>5, <2>9, <3>2, <3>3
  <2>11. used'[s] = used[s] + b + (0 - b) /\ UNCHANGED useTransactions
    <3>1. used' = used /\ UNCHANGED useTransactions /\ used[s] \in Int
      BY <1>14 DEF InsertPortion, allocationVars, TypeInv, RowsInv
    <3> HIDE DEF b
    <3> QED
      BY <2>5, <3>1
  <2>12. b \in Int /\ 0 - b \in Int
    BY <2>5
  <2> HIDE DEF b
  <2> QED
    BY <1>a, <2>8, <2>10, <2>11, <2>12, SpentMoves
<1>15. ASSUME NEW w \in Workers, CancelRefused(w)
       PROVE  SpentFacts'
  <2>2. UNCHANGED <<used, useTransactions, slices>>
    BY <1>15 DEF CancelRefused, allocationVars, withdrawalVars
  <2>3. \A u \in Requests, s \in Rows : Live(u, s)' <=> Live(u, s)
    BY <1>15 DEF CancelRefused, withdrawalVars, Live
  <2>4. /\ \A v \in Workers \ {w} : jobs'[v] = jobs[v]
        /\ jobs[w].pc \notin GivingPcs /\ jobs'[w].pc \notin GivingPcs
    BY <1>15, CancelRefusedMoves DEF Idle, GivingPcs
  <2>5. \A u \in Requests, s \in Rows : Reserved(u, s)' = Reserved(u, s)
    BY <1>a, <2>2, <2>3, <2>4, ReservedSteady
  <2>6. \A v \in Workers, s \in Rows : InHand(v, s)' = InHand(v, s)
    <3>1. jobs[w].pc \notin HandPcs /\ jobs'[w].pc \notin HandPcs
      BY <1>15, CancelRefusedMoves DEF HandPcs, Idle
    <3> QED
      BY <2>4, <3>1, InHandSteady
  <2> QED
    BY <1>a, <1>b, <2>2, <2>5, <2>6, SpentSteady DEF InHandFacts
<1>16. ASSUME NEW w \in Workers, CancelRead(w)
       PROVE  SpentFacts'
  <2> SUFFICES ASSUME NEW s \in Rows
               PROVE  /\ ReservedOn(s)' + InHandOn(s)' <= used'[s]
                      /\ used'[s] <= Earned[s]
                      /\ useTransactions' => ReservedOn(s)' + InHandOn(s)' = used'[s]
    BY DEF SpentFacts
  <2>1. \A v \in Workers \ {w} :
          jobs[v].pc \notin GivingPcs /\ jobs'[v].pc \notin GivingPcs
    BY <1>16, CancelReadMoves, Alone DEF GivingPcs, CancellingPcs
  <2>2. PICK q \in Requests : q = jobs[w].q
    BY <1>16, CancelReadMoves, CancellingKnows DEF CancellingPcs
  <2>3. jobs[w].plan \in [Rows -> Nat] /\ slices[q] \in [Rows -> Nat]
    BY DEF TypeInv, JobsInv, Job, RequestsInv
  <2>h. InHandOn(s)' = InHandOn(s)
    <3>1. /\ \A v \in Workers \ {w} : jobs'[v] = jobs[v]
          /\ jobs[w].pc \notin HandPcs /\ jobs'[w].pc \notin HandPcs
      BY <1>16, CancelReadMoves DEF HandPcs, Idle
    <3>2. \A v \in Workers : InHand(v, s)' = InHand(v, s)
      BY <3>1, InHandSteady
    <3> QED
      BY <3>2, InHandOnSame
  <2>4. /\ UNCHANGED slices
        /\ \A u \in Requests : Live(u, s)' <=> Live(u, s)
    BY <1>16 DEF CancelRead, withdrawalVars, Live
  <2>5. /\ \A v \in Workers, u \in Requests : ~GivesBack(v, u)
        /\ \A v \in Workers, u \in Requests : GivesBack(v, u)' <=> v = w /\ u = q
        /\ jobs'[w].plan = slices[q]
    BY <1>16, <2>1, <2>2, CancelReadMoves DEF GivesBack, GivingPcs
  <2>6. \A u \in Requests : Reserved(u, s)' = Reserved(u, s)
    <3>1. ASSUME NEW u \in Requests \ {q} PROVE Reserved(u, s)' = Reserved(u, s)
      <4>1. \A v \in Workers : ~GivesBack(v, u) /\ ~GivesBack(v, u)'
        BY <2>5
      <4> QED
        BY <1>a, <2>4, <4>1 DEF ReservedFacts
    <3>2. Reserved(q, s)' = Reserved(q, s)
      <4>1. GivesBack(w, q)' /\ \A v \in Workers : ~GivesBack(v, q)
        BY <2>5
      <4> QED
        BY <1>a, <2>4, <2>5, <4>1 DEF ReservedFacts
    <3> QED
      BY <3>1, <3>2
  <2>7. ReservedOn(s)' = ReservedOn(s) + 0 /\ InHandOn(s)' = InHandOn(s) + 0
    <3>1. ReservedOn(s)' = ReservedOn(s) /\ ReservedOn(s) \in Nat /\ InHandOn(s) \in Nat
      BY <1>a, <2>6, ReservedOnSame, DrawnIs DEF DrawnFacts
    <3> QED
      BY <2>h, <3>1
  <2>8. used'[s] = used[s] + 0 + 0 /\ UNCHANGED useTransactions
    <3>1. used' = used /\ UNCHANGED useTransactions /\ used[s] \in Int
      BY <1>16 DEF CancelRead, allocationVars, TypeInv, RowsInv
    <3> QED
      BY <3>1
  <2> QED
    BY <1>a, <2>7, <2>8, SpentMoves
<1>17. ASSUME NEW w \in Workers, Unmark(w)
       PROVE  SpentFacts'
  <2> SUFFICES ASSUME NEW s \in Rows
               PROVE  /\ ReservedOn(s)' + InHandOn(s)' <= used'[s]
                      /\ used'[s] <= Earned[s]
                      /\ useTransactions' => ReservedOn(s)' + InHandOn(s)' = used'[s]
    BY DEF SpentFacts
  <2>1. \A v \in Workers \ {w} :
          jobs[v].pc \notin GivingPcs /\ jobs'[v].pc \notin GivingPcs
    BY <1>17, UnmarkMoves, Alone DEF GivingPcs, CancellingPcs
  <2>2. PICK q \in Requests : q = jobs[w].q
    BY <1>17, UnmarkMoves, CancellingKnows DEF CancellingPcs
  <2>3. jobs[w].plan \in [Rows -> Nat] /\ slices[q] \in [Rows -> Nat]
    BY DEF TypeInv, JobsInv, Job, RequestsInv
  <2>h. InHandOn(s)' = InHandOn(s)
    <3>1. /\ \A v \in Workers \ {w} : jobs'[v] = jobs[v]
          /\ jobs[w].pc \notin HandPcs /\ jobs'[w].pc \notin HandPcs
      BY <1>17, UnmarkMoves DEF HandPcs, Idle
    <3>2. \A v \in Workers : InHand(v, s)' = InHand(v, s)
      BY <3>1, InHandSteady
    <3> QED
      BY <3>2, InHandOnSame
  <2>4. /\ UNCHANGED slices
        /\ \A u \in Requests : Live(u, s)' <=> Live(u, s)
    BY <1>17 DEF Unmark, withdrawalVars, Live
  <2>5. /\ \A v \in Workers, u \in Requests : GivesBack(v, u) <=> v = w /\ u = q
        /\ \A v \in Workers, u \in Requests : GivesBack(v, u)' <=> v = w /\ u = q
        /\ jobs'[w].plan = jobs[w].plan
    <3>1. jobs[w].pc = "unmark"
      BY <1>17, UnmarkMoves
    <3>2. jobs'[w].pc \in {"release", "cancelPortions"} /\ jobs'[w].q = q
          /\ jobs'[w].plan = jobs[w].plan
      BY <1>17, <1>c, <2>2, <3>1, UnmarkMoves
    <3> QED
      BY <2>1, <2>2, <3>1, <3>2 DEF GivesBack, GivingPcs
  <2>6. \A u \in Requests : Reserved(u, s)' = Reserved(u, s)
    <3>1. ASSUME NEW u \in Requests \ {q} PROVE Reserved(u, s)' = Reserved(u, s)
      <4>1. \A v \in Workers : ~GivesBack(v, u) /\ ~GivesBack(v, u)'
        BY <2>5
      <4> QED
        BY <1>a, <2>4, <4>1 DEF ReservedFacts
    <3>2. Reserved(q, s)' = Reserved(q, s)
      <4>1. GivesBack(w, q)' /\ GivesBack(w, q)
        BY <2>5
      <4> QED
        BY <1>a, <2>4, <2>5, <4>1 DEF ReservedFacts
    <3> QED
      BY <3>1, <3>2
  <2>7. ReservedOn(s)' = ReservedOn(s) + 0 /\ InHandOn(s)' = InHandOn(s) + 0
    <3>1. ReservedOn(s)' = ReservedOn(s) /\ ReservedOn(s) \in Nat /\ InHandOn(s) \in Nat
      BY <1>a, <2>6, ReservedOnSame, DrawnIs DEF DrawnFacts
    <3> QED
      BY <2>h, <3>1
  <2>8. used'[s] = used[s] + 0 + 0 /\ UNCHANGED useTransactions
    <3>1. used' = used /\ UNCHANGED useTransactions /\ used[s] \in Int
      BY <1>17 DEF Unmark, allocationVars, TypeInv, RowsInv
    <3> QED
      BY <3>1
  <2> QED
    BY <1>a, <2>7, <2>8, SpentMoves
<1>18. ASSUME NEW w \in Workers, CancelPortions(w)
       PROVE  SpentFacts'
  <2> SUFFICES ASSUME NEW s \in Rows
               PROVE  /\ ReservedOn(s)' + InHandOn(s)' <= used'[s]
                      /\ used'[s] <= Earned[s]
                      /\ useTransactions' => ReservedOn(s)' + InHandOn(s)' = used'[s]
    BY DEF SpentFacts
  <2>1. \A v \in Workers \ {w} :
          jobs[v].pc \notin GivingPcs /\ jobs'[v].pc \notin GivingPcs
    BY <1>18, CancelPortionsMoves, Alone DEF GivingPcs, CancellingPcs
  <2>2. PICK q \in Requests : q = jobs[w].q
    BY <1>18, CancelPortionsMoves, CancellingKnows DEF CancellingPcs
  <2>3. jobs[w].plan \in [Rows -> Nat] /\ slices[q] \in [Rows -> Nat]
    BY DEF TypeInv, JobsInv, Job, RequestsInv
  <2>h. InHandOn(s)' = InHandOn(s)
    <3>1. /\ \A v \in Workers \ {w} : jobs'[v] = jobs[v]
          /\ jobs[w].pc \notin HandPcs /\ jobs'[w].pc \notin HandPcs
      BY <1>18, CancelPortionsMoves DEF HandPcs, Idle
    <3>2. \A v \in Workers : InHand(v, s)' = InHand(v, s)
      BY <3>1, InHandSteady
    <3> QED
      BY <3>2, InHandOnSame
  <2>4. /\ UNCHANGED slices
        /\ \A p \in Parties :
             portionStatus'[q][p] = IF portionStatus[q][p] = None THEN None ELSE "CANCELLED"
        /\ \A u \in Requests \ {q} : portionStatus'[u] = portionStatus[u]
    BY <1>18, <2>2, CancelPortionsStores
  <2>5. /\ GivesBack(w, q) /\ \A v \in Workers, u \in Requests \ {q} : ~GivesBack(v, u)
        /\ \A v \in Workers, u \in Requests : ~GivesBack(v, u)'
        /\ jobs[w].plan[s] = 0
    <3>1. jobs[w].pc = "cancelPortions" /\ jobs'[w].pc = "cancelRequest"
      BY <1>18, CancelPortionsMoves
    <3>2. jobs[w].plan = NoSlices
      BY <3>1 DEF PromptInv, GivingInv, GivingPcs
    <3>3. jobs[w].plan[s] = 0
      BY <3>2 DEF NoSlices
    <3> QED
      BY <2>1, <2>2, <3>1, <3>3 DEF GivesBack, GivingPcs
  <2>6. \A u \in Requests : Reserved(u, s)' = Reserved(u, s)
    <3>1. ASSUME NEW u \in Requests \ {q} PROVE Reserved(u, s)' = Reserved(u, s)
      <4>1. \A v \in Workers : ~GivesBack(v, u) /\ ~GivesBack(v, u)'
        BY <2>5
      <4>2. Live(u, s)' <=> Live(u, s)
        BY <2>4 DEF Live
      <4> QED
        BY <1>a, <2>4, <4>1, <4>2 DEF ReservedFacts
    <3>2. Reserved(q, s)' = 0
      <4>1. ~Live(q, s)'
        BY <2>4, RowsOK DEF Live
      <4> QED
        BY <1>a, <4>1 DEF ReservedFacts
    <3>3. Reserved(q, s) = 0
      BY <1>a, <2>5 DEF ReservedFacts
    <3> QED
      BY <3>1, <3>2, <3>3
  <2>7. ReservedOn(s)' = ReservedOn(s) + 0 /\ InHandOn(s)' = InHandOn(s) + 0
    <3>1. ReservedOn(s)' = ReservedOn(s) /\ ReservedOn(s) \in Nat /\ InHandOn(s) \in Nat
      BY <1>a, <2>6, ReservedOnSame, DrawnIs DEF DrawnFacts
    <3> QED
      BY <2>h, <3>1
  <2>8. used'[s] = used[s] + 0 + 0 /\ UNCHANGED useTransactions
    <3>1. used' = used /\ UNCHANGED useTransactions /\ used[s] \in Int
      BY <1>18 DEF CancelPortions, allocationVars, TypeInv, RowsInv
    <3> QED
      BY <3>1
  <2> QED
    BY <1>a, <2>7, <2>8, SpentMoves
<1>19. ASSUME NEW w \in Workers, CancelRequest(w)
       PROVE  SpentFacts'
  <2>2. UNCHANGED <<used, useTransactions, slices>>
    BY <1>19 DEF CancelRequest, allocationVars
  <2>3. \A u \in Requests, s \in Rows : Live(u, s)' <=> Live(u, s)
    BY <1>19 DEF CancelRequest, Live
  <2>4. /\ \A v \in Workers \ {w} : jobs'[v] = jobs[v]
        /\ jobs[w].pc \notin GivingPcs /\ jobs'[w].pc \notin GivingPcs
    BY <1>19, CancelRequestMoves DEF Idle, GivingPcs
  <2>5. \A u \in Requests, s \in Rows : Reserved(u, s)' = Reserved(u, s)
    BY <1>a, <2>2, <2>3, <2>4, ReservedSteady
  <2>6. \A v \in Workers, s \in Rows : InHand(v, s)' = InHand(v, s)
    <3>1. jobs[w].pc \notin HandPcs /\ jobs'[w].pc \notin HandPcs
      BY <1>19, CancelRequestMoves DEF HandPcs, Idle
    <3> QED
      BY <2>4, <3>1, InHandSteady
  <2> QED
    BY <1>a, <1>b, <2>2, <2>5, <2>6, SpentSteady DEF InHandFacts
<1>20. ASSUME NEW w \in Workers, Debit(w)
       PROVE  SpentFacts'
  <2>2. UNCHANGED <<used, useTransactions, slices>>
    BY <1>20 DEF Debit, allocationVars, withdrawalVars
  <2>3. \A u \in Requests, s \in Rows : Live(u, s)' <=> Live(u, s)
    BY <1>20 DEF Debit, withdrawalVars, Live
  <2>4. /\ \A v \in Workers \ {w} : jobs'[v] = jobs[v]
        /\ jobs[w].pc \notin GivingPcs /\ jobs'[w].pc \notin GivingPcs
    BY <1>20, DebitMoves DEF Idle, GivingPcs
  <2>5. \A u \in Requests, s \in Rows : Reserved(u, s)' = Reserved(u, s)
    BY <1>a, <2>2, <2>3, <2>4, ReservedSteady
  <2>6. \A v \in Workers, s \in Rows : InHand(v, s)' = InHand(v, s)
    <3>1. jobs[w].pc \notin HandPcs /\ jobs'[w].pc \notin HandPcs
      BY <1>20, DebitMoves DEF HandPcs, Idle
    <3> QED
      BY <2>4, <3>1, InHandSteady
  <2> QED
    BY <1>a, <1>b, <2>2, <2>5, <2>6, SpentSteady DEF InHandFacts
<1>21. ASSUME NEW w \in Workers, DebitRefused(w)
       PROVE  SpentFacts'
  <2>2. UNCHANGED <<used, useTransactions, slices>>
    BY <1>21 DEF DebitRefused, allocationVars, withdrawalVars
  <2>3. \A u \in Requests, s \in Rows : Live(u, s)' <=> Live(u, s)
    BY <1>21 DEF DebitRefused, withdrawalVars, Live
  <2>4. /\ \A v \in Workers \ {w} : jobs'[v] = jobs[v]
        /\ jobs[w].pc \notin GivingPcs /\ jobs'[w].pc \notin GivingPcs
    BY <1>21, DebitRefusedMoves DEF Idle, GivingPcs
  <2>5. \A u \in Requests, s \in Rows : Reserved(u, s)' = Reserved(u, s)
    BY <1>a, <2>2, <2>3, <2>4, ReservedSteady
  <2>6. \A v \in Workers, s \in Rows : InHand(v, s)' = InHand(v, s)
    <3>1. jobs[w].pc \notin HandPcs /\ jobs'[w].pc \notin HandPcs
      BY <1>21, DebitRefusedMoves DEF HandPcs, Idle
    <3> QED
      BY <2>4, <3>1, InHandSteady
  <2> QED
    BY <1>a, <1>b, <2>2, <2>5, <2>6, SpentSteady DEF InHandFacts
<1>22. ASSUME NEW w \in Workers, Credit(w)
       PROVE  SpentFacts'
  <2>2. UNCHANGED <<used, useTransactions, slices>>
    BY <1>22 DEF Credit, allocationVars, withdrawalVars
  <2>3. \A u \in Requests, s \in Rows : Live(u, s)' <=> Live(u, s)
    BY <1>22 DEF Credit, withdrawalVars, Live
  <2>4. /\ \A v \in Workers \ {w} : jobs'[v] = jobs[v]
        /\ jobs[w].pc \notin GivingPcs /\ jobs'[w].pc \notin GivingPcs
    BY <1>22, CreditMoves DEF Idle, GivingPcs
  <2>5. \A u \in Requests, s \in Rows : Reserved(u, s)' = Reserved(u, s)
    BY <1>a, <2>2, <2>3, <2>4, ReservedSteady
  <2>6. \A v \in Workers, s \in Rows : InHand(v, s)' = InHand(v, s)
    <3>1. jobs[w].pc \notin HandPcs /\ jobs'[w].pc \notin HandPcs
      BY <1>22, CreditMoves DEF HandPcs, Idle
    <3> QED
      BY <2>4, <3>1, InHandSteady
  <2> QED
    BY <1>a, <1>b, <2>2, <2>5, <2>6, SpentSteady DEF InHandFacts
<1>23. ASSUME NEW w \in Workers, Refresh(w)
       PROVE  SpentFacts'
  <2>2. UNCHANGED <<used, useTransactions, slices>>
    BY <1>23 DEF Refresh, allocationVars, withdrawalVars
  <2>3. \A u \in Requests, s \in Rows : Live(u, s)' <=> Live(u, s)
    BY <1>23 DEF Refresh, withdrawalVars, Live
  <2>4. /\ \A v \in Workers \ {w} : jobs'[v] = jobs[v]
        /\ jobs[w].pc \notin GivingPcs /\ jobs'[w].pc \notin GivingPcs
    BY <1>23, RefreshMoves DEF Idle, GivingPcs
  <2>5. \A u \in Requests, s \in Rows : Reserved(u, s)' = Reserved(u, s)
    BY <1>a, <2>2, <2>3, <2>4, ReservedSteady
  <2>6. \A v \in Workers, s \in Rows : InHand(v, s)' = InHand(v, s)
    <3>1. jobs[w].pc \notin HandPcs /\ jobs'[w].pc \notin HandPcs
      BY <1>23, RefreshMoves DEF HandPcs, Idle
    <3> QED
      BY <2>4, <3>1, InHandSteady
  <2> QED
    BY <1>a, <1>b, <2>2, <2>5, <2>6, SpentSteady DEF InHandFacts
<1>24. ASSUME NEW w \in Workers, Close(w)
       PROVE  SpentFacts'
  <2>2. UNCHANGED <<used, useTransactions, slices>>
    BY <1>24 DEF Close, allocationVars
  <2>3. \A u \in Requests, s \in Rows : Live(u, s)' <=> Live(u, s)
    BY <1>24 DEF Close, Live
  <2>4. /\ \A v \in Workers \ {w} : jobs'[v] = jobs[v]
        /\ jobs[w].pc \notin GivingPcs /\ jobs'[w].pc \notin GivingPcs
    BY <1>24, CloseMoves DEF Idle, GivingPcs
  <2>5. \A u \in Requests, s \in Rows : Reserved(u, s)' = Reserved(u, s)
    BY <1>a, <2>2, <2>3, <2>4, ReservedSteady
  <2>6. \A v \in Workers, s \in Rows : InHand(v, s)' = InHand(v, s)
    <3>1. jobs[w].pc \notin HandPcs /\ jobs'[w].pc \notin HandPcs
      BY <1>24, CloseMoves DEF HandPcs, Idle
    <3> QED
      BY <2>4, <3>1, InHandSteady
  <2> QED
    BY <1>a, <1>b, <2>2, <2>5, <2>6, SpentSteady DEF InHandFacts
<1>25. ASSUME NEW q \in Requests, NEW p \in Parties,
              SubmitPlatformPortionPaymentProof(q, p)
       PROVE  SpentFacts'
  <2>1. PICK from, to \in {"PENDING", "PARTY_PAID", "DISPUTED"} : Answered(q, p, from, to)
    BY <1>25, HandshakeAnswers
  <2>2. UNCHANGED <<used, useTransactions, slices>>
    BY <1>25, <2>1 DEF SubmitPlatformPortionPaymentProof, Answered, allocationVars
  <2>3. \A u \in Requests, s \in Rows : Live(u, s)' <=> Live(u, s)
    BY <2>1, RowsOK, NoneIsNoStatus DEF Answered, Live
  <2>4. \A v \in Workers : jobs'[v] = jobs[v]
    BY <1>25 DEF SubmitPlatformPortionPaymentProof
  <2>5. \A u \in Requests, s \in Rows : Reserved(u, s)' = Reserved(u, s)
    BY <1>a, <2>2, <2>3, <2>4, ReservedSteady
  <2>6. \A v \in Workers, s \in Rows : InHand(v, s)' = InHand(v, s)
    BY <2>4, InHandSteady
  <2> QED
    BY <1>a, <1>b, <2>2, <2>5, <2>6, SpentSteady DEF InHandFacts
<1>26. ASSUME NEW q \in Requests, NEW p \in Parties,
              DisputePlatformPortionReceipt(q, p)
       PROVE  SpentFacts'
  <2>1. PICK from, to \in {"PENDING", "PARTY_PAID", "DISPUTED"} : Answered(q, p, from, to)
    BY <1>26, HandshakeAnswers
  <2>2. UNCHANGED <<used, useTransactions, slices>>
    BY <1>26, <2>1 DEF DisputePlatformPortionReceipt, Answered, allocationVars
  <2>3. \A u \in Requests, s \in Rows : Live(u, s)' <=> Live(u, s)
    BY <2>1, RowsOK, NoneIsNoStatus DEF Answered, Live
  <2>4. \A v \in Workers : jobs'[v] = jobs[v]
    BY <1>26 DEF DisputePlatformPortionReceipt
  <2>5. \A u \in Requests, s \in Rows : Reserved(u, s)' = Reserved(u, s)
    BY <1>a, <2>2, <2>3, <2>4, ReservedSteady
  <2>6. \A v \in Workers, s \in Rows : InHand(v, s)' = InHand(v, s)
    BY <2>4, InHandSteady
  <2> QED
    BY <1>a, <1>b, <2>2, <2>5, <2>6, SpentSteady DEF InHandFacts
<1>27. ASSUME NEW q \in Requests, NEW p \in Parties, RetryPortion(q, p)
       PROVE  SpentFacts'
  <2>1. PICK from, to \in {"PENDING", "PARTY_PAID", "DISPUTED"} : Answered(q, p, from, to)
    BY <1>27, HandshakeAnswers
  <2>2. UNCHANGED <<used, useTransactions, slices>>
    BY <1>27, <2>1 DEF RetryPortion, Answered, allocationVars
  <2>3. \A u \in Requests, s \in Rows : Live(u, s)' <=> Live(u, s)
    BY <2>1, RowsOK, NoneIsNoStatus DEF Answered, Live
  <2>4. \A v \in Workers : jobs'[v] = jobs[v]
    BY <1>27 DEF RetryPortion
  <2>5. \A u \in Requests, s \in Rows : Reserved(u, s)' = Reserved(u, s)
    BY <1>a, <2>2, <2>3, <2>4, ReservedSteady
  <2>6. \A v \in Workers, s \in Rows : InHand(v, s)' = InHand(v, s)
    BY <2>4, InHandSteady
  <2> QED
    BY <1>a, <1>b, <2>2, <2>5, <2>6, SpentSteady DEF InHandFacts
<1>28. ASSUME NEW w \in Workers, NEW q \in Requests, NEW p \in Parties,
              ConfirmInTransaction(w, q, p)
       PROVE  SpentFacts'
  <2>1. PICK from \in {"PARTY_PAID", "DISPUTED"} : Answered(q, p, from, "FULFILLED")
    BY <1>28, ConfirmAnswers
  <2>2. UNCHANGED <<used, useTransactions, slices>>
    BY <1>28, <2>1 DEF ConfirmInTransaction, Answered, allocationVars
  <2>3. \A u \in Requests, s \in Rows : Live(u, s)' <=> Live(u, s)
    BY <2>1, RowsOK, NoneIsNoStatus DEF Answered, Live
  <2>4. /\ \A v \in Workers \ {w} : jobs'[v] = jobs[v]
        /\ jobs[w].pc \notin GivingPcs /\ jobs'[w].pc \notin GivingPcs
    BY <1>28, ConfirmInTransactionMoves DEF Idle, GivingPcs
  <2>5. \A u \in Requests, s \in Rows : Reserved(u, s)' = Reserved(u, s)
    BY <1>a, <2>2, <2>3, <2>4, ReservedSteady
  <2>6. \A v \in Workers, s \in Rows : InHand(v, s)' = InHand(v, s)
    <3>1. jobs[w].pc \notin HandPcs /\ jobs'[w].pc \notin HandPcs
      BY <1>28, ConfirmInTransactionMoves DEF HandPcs, Idle
    <3> QED
      BY <2>4, <3>1, InHandSteady
  <2> QED
    BY <1>a, <1>b, <2>2, <2>5, <2>6, SpentSteady DEF InHandFacts
<1>29. ASSUME NEW w \in Workers, NEW q \in Requests, NEW p \in Parties,
              ConfirmClaim(w, q, p)
       PROVE  SpentFacts'
  <2>1. PICK from \in {"PARTY_PAID", "DISPUTED"} : Answered(q, p, from, "FULFILLED")
    BY <1>29, ConfirmAnswers
  <2>2. UNCHANGED <<used, useTransactions, slices>>
    BY <1>29, <2>1 DEF ConfirmClaim, Answered, allocationVars
  <2>3. \A u \in Requests, s \in Rows : Live(u, s)' <=> Live(u, s)
    BY <2>1, RowsOK, NoneIsNoStatus DEF Answered, Live
  <2>4. /\ \A v \in Workers \ {w} : jobs'[v] = jobs[v]
        /\ jobs[w].pc \notin GivingPcs /\ jobs'[w].pc \notin GivingPcs
    BY <1>29, ConfirmClaimMoves DEF Idle, GivingPcs
  <2>5. \A u \in Requests, s \in Rows : Reserved(u, s)' = Reserved(u, s)
    BY <1>a, <2>2, <2>3, <2>4, ReservedSteady
  <2>6. \A v \in Workers, s \in Rows : InHand(v, s)' = InHand(v, s)
    <3>1. jobs[w].pc \notin HandPcs /\ jobs'[w].pc \notin HandPcs
      BY <1>29, ConfirmClaimMoves DEF HandPcs, Idle
    <3> QED
      BY <2>4, <3>1, InHandSteady
  <2> QED
    BY <1>a, <1>b, <2>2, <2>5, <2>6, SpentSteady DEF InHandFacts
<1>30. ASSUME Crash
       PROVE  SpentFacts'
  <2>2. UNCHANGED <<used, useTransactions, slices>>
    BY <1>30 DEF Crash, allocationVars, withdrawalVars
  <2>3. \A u \in Requests, s \in Rows : Live(u, s)' <=> Live(u, s)
    BY <1>30 DEF Crash, withdrawalVars, Live
  <2>4. \A v \in Workers :
          jobs[v].pc \notin GivingPcs /\ jobs'[v].pc \notin GivingPcs \cup HandPcs
    BY <1>30 DEF Crash, PromptInv, Running, Idle, GivingPcs, HandPcs, CancellingPcs
  <2>5. \A u \in Requests, s \in Rows : Reserved(u, s)' = Reserved(u, s)
    BY <1>a, <2>2, <2>3, <2>4, ReservedSteady
  <2>6. \A v \in Workers, s \in Rows :
          /\ InHand(v, s)' <= InHand(v, s)
          /\ useTransactions => InHand(v, s)' = InHand(v, s)
    <3>1. useTransactions => \A v \in Workers : jobs[v].pc \notin HandPcs
      BY DEF PromptInv, DrawingInv, HandPcs
    <3> QED
      BY <2>4, <3>1, InHandSteady
  <2> QED
    BY <1>a, <1>b, <2>2, <2>5, <2>6, SpentSteady DEF InHandFacts
<1>31. CASE UNCHANGED vars
  <2>1. /\ UNCHANGED <<used, useTransactions, slices>>
        /\ \A v \in Workers : jobs'[v] = jobs[v]
        /\ \A q \in Requests, r \in Rows : Live(q, r)' <=> Live(q, r)
    BY <1>31 DEF vars, allocationVars, withdrawalVars, Live
  <2>2. \A q \in Requests, r \in Rows : Reserved(q, r)' = Reserved(q, r)
    BY <1>a, <2>1, ReservedSteady
  <2>3. \A w \in Workers, r \in Rows : InHand(w, r)' = InHand(w, r)
    BY <2>1, InHandSteady
  <2> QED
    BY <1>a, <1>b, <2>1, <2>2, <2>3, SpentSteady DEF InHandFacts
<1> QED
  BY <1>1, <1>2, <1>3, <1>4, <1>5, <1>6, <1>7, <1>8, <1>9, <1>10, <1>11,
     <1>12, <1>13, <1>14, <1>15, <1>16, <1>17, <1>18, <1>19, <1>20, <1>21,
     <1>22, <1>23, <1>24, <1>25, <1>26, <1>27, <1>28, <1>29, <1>30, <1>31
  DEF Next, JobStep, Handshake

LEMMA SpentInit == WithdrawalAssumption /\ PromptRequests /\ Init => SpentFacts
<1> SUFFICES ASSUME WithdrawalAssumption, PromptRequests, Init, NEW r \in Rows
             PROVE  /\ ReservedOn(r) + InHandOn(r) <= used[r] /\ used[r] <= Earned[r]
                    /\ useTransactions => ReservedOn(r) + InHandOn(r) = used[r]
  BY DEF SpentFacts
<1>1. TypeInv
  BY TypeInit
<1>2. \A q \in Requests : Reserved(q, r) = 0
  BY <1>1, RowsOK DEF Init, Reserved
<1>3. \A w \in Workers : InHand(w, r) = 0
  BY DEF Init, InHand, Idle
<1> DEFINE f == [q \in Requests |-> Reserved(q, r)]
           g == [w \in Workers |-> InHand(w, r)]
<1>4. (\A q \in Requests : f[q] = 0) /\ (\A w \in Workers : g[w] = 0)
  BY <1>2, <1>3
<1>5. Total(f, Requests) = 0 /\ Total(g, Workers) = 0
  <2> HIDE DEF f, g
  <2> QED
    BY <1>1, <1>4, RowsOK, TotalZero
<1>6. ReservedOn(r) = 0 /\ InHandOn(r) = 0
  BY <1>5 DEF ReservedOn, InHandOn
<1>7. used[r] = 0 /\ Earned[r] \in Nat
  BY <1>1, RowsOK DEF Init
<1> QED
  BY <1>6, <1>7

\* For every number of rows, requests and handlers, as long as withdrawals do
\* not overlap with cancellations: no share of the platform is promised twice.
THEOREM NoShareIsSpentTwice ==
  WithdrawalAssumption /\ PromptRequests /\ Spec => []NotSpentTwice
<1>1. SpentFacts => NotSpentTwice
  BY SpentIs
<1> QED
  BY <1>1, TypeInit, TypeStep, PromptInit, PromptStep, SpentInit, SpentStep, PTL
  DEF Spec

-----------------------------------------------------------------------------
(* Nothing available is hidden *)

\* A step that touches no row, and is not the saving of a status.
LEMMA StaysInSight ==
  ASSUME NothingStranded,
         \A r \in Rows : /\ rowStatus'[r] = "SETTLED" => rowStatus[r] = "SETTLED"
                         /\ used'[r] = used[r],
         \A v \in Workers : jobs[v].pc = "unmark" => jobs'[v] = jobs[v]
  PROVE  NothingStranded'
BY DEF NothingStranded, At, Available

LEMMA StrandedStep ==
  TypeInv /\ PromptInv /\ SpentFacts /\ NothingStranded /\ [Next]_vars => NothingStranded'
<1> SUFFICES ASSUME TypeInv, PromptInv, SpentFacts, NothingStranded, [Next]_vars
             PROVE  NothingStranded'
  OBVIOUS
<1>1. ASSUME NEW r \in Rows, CreateAllocation(r)
      PROVE  NothingStranded'
  <2>1. /\ used' = used /\ jobs' = jobs
        /\ \A s \in Rows : rowStatus'[s] = IF s = r THEN "AVAILABLE" ELSE rowStatus[s]
    BY <1>1 DEF CreateAllocation, TypeInv, RowsInv
  <2> QED
    BY <2>1, StaysInSight
<1>2. ASSUME NEW c \in Commissions, PayCommissionFromPool(c)
      PROVE  NothingStranded'
  <2>1. /\ used' = used /\ rowStatus' = rowStatus /\ jobs' = jobs
    BY <1>2 DEF PayCommissionFromPool, allocationVars
  <2> QED
    BY <2>1, StaysInSight
<1>3. ASSUME NEW w \in Workers, NEW a \in Amounts, RequestPlatformWithdrawal(w, a)
      PROVE  NothingStranded'
  <2>1. used' = used /\ rowStatus' = rowStatus
    BY <1>3 DEF RequestPlatformWithdrawal, allocationVars
  <2>2. \A v \in Workers : jobs[v].pc = "unmark" => jobs'[v] = jobs[v]
    BY <1>3, RequestPlatformWithdrawalMoves
  <2> QED
    BY <2>1, <2>2, StaysInSight
<1>4. ASSUME NEW w \in Workers, NEW q \in Requests, CancelPlatformWithdrawal(w, q)
      PROVE  NothingStranded'
  <2>1. used' = used /\ rowStatus' = rowStatus
    BY <1>4 DEF CancelPlatformWithdrawal, allocationVars
  <2>2. \A v \in Workers : jobs[v].pc = "unmark" => jobs'[v] = jobs[v]
    BY <1>4, CancelPlatformWithdrawalMoves
  <2> QED
    BY <2>1, <2>2, StaysInSight
<1>5. ASSUME NEW w \in Workers, Refuse(w)
      PROVE  NothingStranded'
  <2>1. used' = used /\ rowStatus' = rowStatus
    BY <1>5 DEF Refuse, allocationVars
  <2>2. \A v \in Workers : jobs[v].pc = "unmark" => jobs'[v] = jobs[v]
    BY <1>5, RefuseMoves
  <2> QED
    BY <2>1, <2>2, StaysInSight
<1>6. ASSUME NEW w \in Workers, ReadCandidates(w)
      PROVE  NothingStranded'
  <2>1. used' = used /\ rowStatus' = rowStatus
    BY <1>6 DEF ReadCandidates, allocationVars
  <2>2. \A v \in Workers : jobs[v].pc = "unmark" => jobs'[v] = jobs[v]
    BY <1>6, ReadCandidatesMoves
  <2> QED
    BY <2>1, <2>2, StaysInSight
<1>7. ASSUME NEW w \in Workers, Mark(w)
      PROVE  NothingStranded'
  <2>1. \A v \in Workers : jobs[v].pc # "unmark"
    BY <1>7, MarkMoves, Alone DEF CreatingPcs, CancellingPcs
  <2>2. PICK r \in Rows : r = jobs[w].row
    BY <1>7, MarkMoves DEF TypeInv, JobsInv, JobKnows
  <2>3. /\ used' = used
        /\ \A s \in Rows : rowStatus'[s] = IF s = r THEN StatusAfterDraw(jobs[w].left)
                                                     ELSE rowStatus[s]
    BY <1>7, <2>2 DEF Mark, SaveStatus, TypeInv, RowsInv
  <2>4. Earned[r] <= used[r] + jobs[w].left
    BY <1>7, <2>2, MarkMoves DEF PromptInv, DrawingInv
  <2>5. used[r] \in Int /\ Earned[r] \in Nat /\ jobs[w].left \in Int
    BY RowsOK DEF TypeInv, RowsInv, JobsInv, Job
  <2>6. rowStatus'[r] = "SETTLED" => ~ (Earned[r] - used'[r] > 0)
    <3>1. rowStatus'[r] = "SETTLED" => jobs[w].left = 0
      BY <2>3 DEF StatusAfterDraw
    <3> QED
      BY <2>3, <2>4, <2>5, <3>1
  <2>7. \A s \in Rows : rowStatus[s] = "SETTLED" => ~ (Earned[s] - used[s] > 0)
    BY <2>1 DEF NothingStranded, At, Available
  <2> QED
    BY <2>3, <2>6, <2>7 DEF NothingStranded, Available
<1>8. ASSUME NEW w \in Workers, MarkLost(w)
      PROVE  NothingStranded'
  <2>1. used' = used /\ rowStatus' = rowStatus
    BY <1>8 DEF MarkLost, allocationVars
  <2>2. \A v \in Workers : jobs[v].pc = "unmark" => jobs'[v] = jobs[v]
    BY <1>8, MarkLostMoves
  <2> QED
    BY <2>1, <2>2, StaysInSight
<1>9. ASSUME NEW w \in Workers, NEW r \in Rows, Draw(w, r)
      PROVE  NothingStranded'
  <2>1. \A v \in Workers : jobs[v].pc # "unmark"
    BY <1>9, DrawMoves, Alone DEF CreatingPcs, CancellingPcs
  <2>2. rowStatus' = rowStatus /\ \A s \in Rows : used'[s] \in Int /\ used[s] <= used'[s]
    BY <1>9 DEF Draw, DrawOn, TypeInv, RowsInv, JobsInv, Job
  <2>3. \A s \in Rows : used[s] \in Int /\ Earned[s] \in Nat
    BY RowsOK DEF TypeInv, RowsInv
  <2>4. \A s \in Rows : rowStatus[s] = "SETTLED" => ~ (Earned[s] - used[s] > 0)
    BY <2>1 DEF NothingStranded, At, Available
  <2>5. \A s \in Rows : rowStatus'[s] = "SETTLED" => ~ (Earned[s] - used'[s] > 0)
    BY <2>2, <2>3, <2>4
  <2> QED
    BY <2>5 DEF NothingStranded, Available
<1>10. ASSUME NEW w \in Workers, NEW r \in Rows, DrawLost(w, r)
       PROVE  NothingStranded'
  <2>1. used' = used /\ rowStatus' = rowStatus
    BY <1>10 DEF DrawLost, allocationVars
  <2>2. \A v \in Workers : jobs[v].pc = "unmark" => jobs'[v] = jobs[v]
    BY <1>10, DrawLostMoves
  <2> QED
    BY <2>1, <2>2, StaysInSight
<1>11. ASSUME NEW w \in Workers, NEW r \in Rows, ReleaseSlice(w, r)
       PROVE  NothingStranded'
  <2>1. jobs'[w].pc = "unmark" /\ jobs'[w].row = r
    BY <1>11, ReleaseSliceMoves
  <2>2. rowStatus' = rowStatus /\ \A s \in Rows \ {r} : used'[s] = used[s]
    BY <1>11 DEF ReleaseSlice, TypeInv, RowsInv
  <2>3. \A v \in Workers : jobs[v].pc = "unmark" => jobs'[v] = jobs[v]
    BY <1>11, ReleaseSliceMoves
  <2> QED
    BY <2>1, <2>2, <2>3 DEF NothingStranded, At, Available
<1>12. ASSUME NEW w \in Workers, NEW q \in Requests, InsertRequest(w, q)
       PROVE  NothingStranded'
  <2>1. used' = used /\ rowStatus' = rowStatus
    BY <1>12 DEF InsertRequest, allocationVars
  <2>2. \A v \in Workers : jobs[v].pc = "unmark" => jobs'[v] = jobs[v]
    BY <1>12, InsertRequestMoves
  <2> QED
    BY <2>1, <2>2, StaysInSight
<1>13. ASSUME NEW w \in Workers, NEW q \in Requests, RequestInTransaction(w, q)
       PROVE  NothingStranded'
  <2>1. \A v \in Workers : jobs[v].pc # "unmark"
    BY <1>13, RequestInTransactionMoves, Alone DEF CreatingPcs, CancellingPcs
  <2>2. ASSUME NEW s \in Rows,
               rowStatus'[s] = "SETTLED" PROVE ~ (Earned[s] - used'[s] > 0)
    <3>1. /\ used'[s] = used[s] + PlanOf(w)[s]
          /\ rowStatus'[s] = IF PlanOf(w)[s] > 0 THEN StatusAfterDraw(Available(s) - PlanOf(w)[s])
                                                ELSE rowStatus[s]
      BY <1>13 DEF RequestInTransaction, PlanOf
    <3>2. used[s] \in Int /\ Earned[s] \in Nat
      BY RowsOK DEF TypeInv, RowsInv
    <3>3. PICK d \in Nat : d = PlanOf(w)[s]
      BY PlanOfType
    <3>4. CASE d > 0
      <4>1. Available(s) - d = 0
        BY <2>2, <3>1, <3>3, <3>4 DEF StatusAfterDraw
      <4> QED
        BY <3>1, <3>2, <3>3, <4>1 DEF Available
    <3>5. CASE d = 0
      <4>1. rowStatus[s] = "SETTLED"
        BY <2>2, <3>1, <3>3, <3>5
      <4>2. ~ (Earned[s] - used[s] > 0)
        BY <2>1, <4>1 DEF NothingStranded, At, Available
      <4> QED
        BY <3>1, <3>2, <3>3, <3>5, <4>2
    <3> QED
      BY <3>3, <3>4, <3>5
  <2> QED
    BY <2>2 DEF NothingStranded, Available
<1>14. ASSUME NEW w \in Workers, NEW p \in Parties, InsertPortion(w, p)
       PROVE  NothingStranded'
  <2>1. used' = used /\ rowStatus' = rowStatus
    BY <1>14 DEF InsertPortion, allocationVars
  <2>2. \A v \in Workers : jobs[v].pc = "unmark" => jobs'[v] = jobs[v]
    BY <1>14, InsertPortionMoves
  <2> QED
    BY <2>1, <2>2, StaysInSight
<1>15. ASSUME NEW w \in Workers, CancelRefused(w)
       PROVE  NothingStranded'
  <2>1. used' = used /\ rowStatus' = rowStatus
    BY <1>15 DEF CancelRefused, allocationVars
  <2>2. \A v \in Workers : jobs[v].pc = "unmark" => jobs'[v] = jobs[v]
    BY <1>15, CancelRefusedMoves
  <2> QED
    BY <2>1, <2>2, StaysInSight
<1>16. ASSUME NEW w \in Workers, CancelRead(w)
       PROVE  NothingStranded'
  <2>1. used' = used /\ rowStatus' = rowStatus
    BY <1>16 DEF CancelRead, allocationVars
  <2>2. \A v \in Workers : jobs[v].pc = "unmark" => jobs'[v] = jobs[v]
    BY <1>16, CancelReadMoves
  <2> QED
    BY <2>1, <2>2, StaysInSight
<1>17. ASSUME NEW w \in Workers, Unmark(w)
       PROVE  NothingStranded'
  <2>1. PICK r \in Rows : r = jobs[w].row
    BY <1>17, UnmarkMoves, CancellingKnows DEF CancellingPcs
  <2>2. version[r] = jobs[w].ver /\ jobs[w].left >= 0
    BY <1>17, <2>1, UnmarkMoves, UnmarkSucceeds
  <2>3. /\ used' = used /\ rowStatus'[r] # "SETTLED"
        /\ \A s \in Rows \ {r} : rowStatus'[s] = rowStatus[s]
    BY <1>17, <2>1, <2>2 DEF Unmark, SaveStatus, TypeInv, RowsInv
  <2>4. \A v \in Workers \ {w} : jobs'[v] = jobs[v]
    BY <1>17, UnmarkMoves
  <2> QED
    BY <2>1, <2>3, <2>4 DEF NothingStranded, At, Available
<1>18. ASSUME NEW w \in Workers, CancelPortions(w)
       PROVE  NothingStranded'
  <2>1. used' = used /\ rowStatus' = rowStatus
    BY <1>18 DEF CancelPortions, allocationVars
  <2>2. \A v \in Workers : jobs[v].pc = "unmark" => jobs'[v] = jobs[v]
    BY <1>18, CancelPortionsMoves
  <2> QED
    BY <2>1, <2>2, StaysInSight
<1>19. ASSUME NEW w \in Workers, CancelRequest(w)
       PROVE  NothingStranded'
  <2>1. used' = used /\ rowStatus' = rowStatus
    BY <1>19 DEF CancelRequest, allocationVars
  <2>2. \A v \in Workers : jobs[v].pc = "unmark" => jobs'[v] = jobs[v]
    BY <1>19, CancelRequestMoves
  <2> QED
    BY <2>1, <2>2, StaysInSight
<1>20. ASSUME NEW w \in Workers, Debit(w)
       PROVE  NothingStranded'
  <2>1. used' = used /\ rowStatus' = rowStatus
    BY <1>20 DEF Debit, allocationVars
  <2>2. \A v \in Workers : jobs[v].pc = "unmark" => jobs'[v] = jobs[v]
    BY <1>20, DebitMoves
  <2> QED
    BY <2>1, <2>2, StaysInSight
<1>21. ASSUME NEW w \in Workers, DebitRefused(w)
       PROVE  NothingStranded'
  <2>1. used' = used /\ rowStatus' = rowStatus
    BY <1>21 DEF DebitRefused, allocationVars
  <2>2. \A v \in Workers : jobs[v].pc = "unmark" => jobs'[v] = jobs[v]
    BY <1>21, DebitRefusedMoves
  <2> QED
    BY <2>1, <2>2, StaysInSight
<1>22. ASSUME NEW w \in Workers, Credit(w)
       PROVE  NothingStranded'
  <2>1. used' = used /\ rowStatus' = rowStatus
    BY <1>22 DEF Credit, allocationVars
  <2>2. \A v \in Workers : jobs[v].pc = "unmark" => jobs'[v] = jobs[v]
    BY <1>22, CreditMoves
  <2> QED
    BY <2>1, <2>2, StaysInSight
<1>23. ASSUME NEW w \in Workers, Refresh(w)
       PROVE  NothingStranded'
  <2>1. used' = used /\ rowStatus' = rowStatus
    BY <1>23 DEF Refresh, allocationVars
  <2>2. \A v \in Workers : jobs[v].pc = "unmark" => jobs'[v] = jobs[v]
    BY <1>23, RefreshMoves
  <2> QED
    BY <2>1, <2>2, StaysInSight
<1>24. ASSUME NEW w \in Workers, Close(w)
       PROVE  NothingStranded'
  <2>1. used' = used /\ rowStatus' = rowStatus
    BY <1>24 DEF Close, allocationVars
  <2>2. \A v \in Workers : jobs[v].pc = "unmark" => jobs'[v] = jobs[v]
    BY <1>24, CloseMoves
  <2> QED
    BY <2>1, <2>2, StaysInSight
<1>25. ASSUME NEW q \in Requests, NEW p \in Parties,
              SubmitPlatformPortionPaymentProof(q, p)
       PROVE  NothingStranded'
  <2>1. /\ used' = used /\ rowStatus' = rowStatus /\ jobs' = jobs
    BY <1>25 DEF SubmitPlatformPortionPaymentProof, allocationVars
  <2> QED
    BY <2>1, StaysInSight
<1>26. ASSUME NEW q \in Requests, NEW p \in Parties,
              DisputePlatformPortionReceipt(q, p)
       PROVE  NothingStranded'
  <2>1. /\ used' = used /\ rowStatus' = rowStatus /\ jobs' = jobs
    BY <1>26 DEF DisputePlatformPortionReceipt, allocationVars
  <2> QED
    BY <2>1, StaysInSight
<1>27. ASSUME NEW q \in Requests, NEW p \in Parties, RetryPortion(q, p)
       PROVE  NothingStranded'
  <2>1. /\ used' = used /\ rowStatus' = rowStatus /\ jobs' = jobs
    BY <1>27 DEF RetryPortion, allocationVars
  <2> QED
    BY <2>1, StaysInSight
<1>28. ASSUME NEW w \in Workers, NEW q \in Requests, NEW p \in Parties,
              ConfirmInTransaction(w, q, p)
       PROVE  NothingStranded'
  <2>1. used' = used /\ rowStatus' = rowStatus
    BY <1>28 DEF ConfirmInTransaction, allocationVars
  <2>2. \A v \in Workers : jobs[v].pc = "unmark" => jobs'[v] = jobs[v]
    BY <1>28, ConfirmInTransactionMoves
  <2> QED
    BY <2>1, <2>2, StaysInSight
<1>29. ASSUME NEW w \in Workers, NEW q \in Requests, NEW p \in Parties,
              ConfirmClaim(w, q, p)
       PROVE  NothingStranded'
  <2>1. used' = used /\ rowStatus' = rowStatus
    BY <1>29 DEF ConfirmClaim, allocationVars
  <2>2. \A v \in Workers : jobs[v].pc = "unmark" => jobs'[v] = jobs[v]
    BY <1>29, ConfirmClaimMoves
  <2> QED
    BY <2>1, <2>2, StaysInSight
<1>30. ASSUME Crash
       PROVE  NothingStranded'
  <2>1. \A v \in Workers : jobs[v].pc # "unmark"
    BY <1>30 DEF Crash, PromptInv, Running, CancellingPcs
  <2>2. used' = used /\ rowStatus' = rowStatus
    BY <1>30 DEF Crash, allocationVars
  <2> QED
    BY <2>1, <2>2, StaysInSight
<1>31. CASE UNCHANGED vars
  BY <1>31 DEF vars, allocationVars, NothingStranded, At, Available
<1> QED
  BY <1>1, <1>2, <1>3, <1>4, <1>5, <1>6, <1>7, <1>8, <1>9, <1>10, <1>11,
     <1>12, <1>13, <1>14, <1>15, <1>16, <1>17, <1>18, <1>19, <1>20, <1>21,
     <1>22, <1>23, <1>24, <1>25, <1>26, <1>27, <1>28, <1>29, <1>30, <1>31
  DEF Next, JobStep, Handshake

\* For every number of rows, requests and handlers, under the same assumption: a
\* row marked SETTLED, which no later request looks at, is used up.
THEOREM NothingIsStranded ==
  WithdrawalAssumption /\ PromptRequests /\ Spec => []NothingStranded
<1>1. Init => NothingStranded
  BY DEF Init, NothingStranded
<1> QED
  BY <1>1, TypeInit, TypeStep, PromptInit, PromptStep, SpentInit, SpentStep,
     StrandedStep, PTL
  DEF Spec

-----------------------------------------------------------------------------
(* What a party is paid, and what it is due *)

\* A settled portion stays settled, for what it was.
SettledStays ==
  \A q \in Requests, p \in Parties : portionStatus[q][p] = "FULFILLED" =>
    /\ portionStatus'[q][p] = "FULFILLED"
    /\ \A r \in Rows : Source[r] = p => slices'[q][r] = slices[q][r]

NoneSettles ==
  \A q \in Requests, p \in Parties :
    portionStatus'[q][p] = "FULFILLED" => portionStatus[q][p] = "FULFILLED"

LEMMA AmountSame ==
  ASSUME TypeInv, NEW q \in Requests, NEW p \in Parties,
         \A r \in Rows : Source[r] = p => slices'[q][r] = slices[q][r]
  PROVE  PortionAmount(q, p)' = PortionAmount(q, p)
<1> DEFINE S == {r \in Rows : Source[r] = p}
<1>1. IsFiniteSet(S)
  BY RowsOK, FS_Subset
<1>2. Total(slices'[q], S) = Total(slices[q], S)
  <2>1. \A r \in S : slices'[q][r] = slices[q][r]
    OBVIOUS
  <2> HIDE DEF S
  <2> QED
    BY <1>1, <2>1, TotalSame
<1> QED
  BY <1>2 DEF PortionAmount, RowsOf

SettledFacts == \A q \in Requests, p \in Parties : Settled(q, p) \in Nat
PayingFacts == \A w \in Workers, p \in Parties : Paying(w, p) \in Nat
DueFacts == \A p \in Parties : Due(p) \in Nat /\ OnItsWay(p) \in Nat

LEMMA SettledIs == TypeInv => SettledFacts
BY PortionAmountType DEF SettledFacts, Settled

LEMMA PayingIs == TypeInv => PayingFacts
<1> SUFFICES ASSUME TypeInv, NEW w \in Workers, NEW p \in Parties
             PROVE  Paying(w, p) \in Nat
  BY DEF PayingFacts
<1>1. jobs[w].pc \in {"debit", "credit"} => jobs[w].q \in Requests
  BY DEF TypeInv, JobsInv, JobKnows, ConfirmingPcs
<1> QED
  BY <1>1, PortionAmountType DEF Paying

LEMMA DueIs == TypeInv => DueFacts
<1> SUFFICES ASSUME TypeInv, NEW p \in Parties
             PROVE  Due(p) \in Nat /\ OnItsWay(p) \in Nat
  BY DEF DueFacts
<1> DEFINE f == [q \in Requests |-> Settled(q, p)]
           g == [w \in Workers |-> Paying(w, p)]
<1>1. \A q \in Requests : f[q] \in Nat
  BY SettledIs DEF SettledFacts
<1>2. \A w \in Workers : g[w] \in Nat
  BY PayingIs DEF PayingFacts
<1> HIDE DEF f, g
<1>3. Total(f, Requests) \in Nat /\ Total(g, Workers) \in Nat
  BY <1>1, <1>2, RowsOK, TotalNat
<1> QED
  BY <1>3 DEF f, g, Due, OnItsWay

LEMMA DueIsNext == TypeInv' => SettledFacts' /\ PayingFacts' /\ DueFacts'
BY SettledIs, PayingIs, DueIs, PTL

\* A step that settles no portion changes nothing that is due.
LEMMA DueSame ==
  ASSUME TypeInv, SettledStays, NoneSettles, NEW p \in Parties
  PROVE  Due(p)' = Due(p)
<1>1. ASSUME NEW q \in Requests PROVE Settled(q, p)' = Settled(q, p)
  <2>1. CASE portionStatus[q][p] = "FULFILLED"
    <3>1. /\ portionStatus'[q][p] = "FULFILLED"
          /\ \A r \in Rows : Source[r] = p => slices'[q][r] = slices[q][r]
      BY <2>1 DEF SettledStays
    <3>2. PortionAmount(q, p)' = PortionAmount(q, p)
      BY <3>1, AmountSame
    <3> QED
      BY <2>1, <3>1, <3>2 DEF Settled
  <2>2. CASE portionStatus[q][p] # "FULFILLED"
    BY <2>2 DEF NoneSettles, Settled
  <2> QED
    BY <2>1, <2>2
<1>2. [q \in Requests |-> Settled(q, p)'] = [q \in Requests |-> Settled(q, p)]
  BY <1>1
<1> QED
  BY <1>2 DEF Due

\* A confirmation adds its portion to what its party is due.
LEMMA DueGrows ==
  ASSUME TypeInv, TypeInv', SettledStays, NEW q \in Requests, NEW p \in Parties, NEW from,
         from # "FULFILLED", Answered(q, p, from, "FULFILLED"), NEW x \in Parties
  PROVE  Due(x)' = IF x = p THEN Due(x) + PortionAmount(q, p) ELSE Due(x)
<1>1. ASSUME NEW u \in Requests, u # q \/ x # p PROVE Settled(u, x)' = Settled(u, x)
  <2>1. PortionAmount(u, x)' = PortionAmount(u, x)
    BY AmountSame DEF Answered
  <2>2. portionStatus'[u][x] = portionStatus[u][x]
    BY <1>1 DEF Answered
  <2> QED
    BY <2>1, <2>2 DEF Settled
<1>2. CASE x # p
  <2>1. [u \in Requests |-> Settled(u, x)'] = [u \in Requests |-> Settled(u, x)]
    BY <1>1, <1>2
  <2> QED
    BY <1>2, <2>1 DEF Due
<1>3. CASE x = p
  <2> DEFINE f == [u \in Requests |-> Settled(u, x)]
             g == [u \in Requests |-> Settled(u, x)']
  <2>1. \A u \in Requests : f[u] \in Int /\ g[u] \in Int
    BY SettledIs, DueIsNext DEF SettledFacts
  <2>2. \A u \in Requests \ {q} : g[u] = f[u]
    BY <1>1
  <2>3. f[q] = 0 /\ g[q] = PortionAmount(q, p)
    <3>1. PortionAmount(q, p)' = PortionAmount(q, p)
      BY AmountSame DEF Answered
    <3> QED
      BY <1>3, <3>1 DEF Answered, Settled
  <2>4. Total(g, Requests) = Total(f, Requests) + g[q] - f[q]
    <3> HIDE DEF f, g
    <3> QED
      BY <2>1, <2>2, RowsOK, TotalOneChanges
  <2>5. Due(x) = Total(f, Requests) /\ Due(x)' = Total(g, Requests)
    BY DEF Due
  <2>6. Due(x) \in Nat /\ PortionAmount(q, p) \in Nat
    BY DueIs, PortionAmountType DEF DueFacts
  <2> QED
    BY <1>3, <2>3, <2>4, <2>5, <2>6
<1> QED
  BY <1>2, <1>3

\* What a confirmation is paying stays what it is while it goes on.
PaysOn(w) ==
  /\ jobs[w].pc \in {"debit", "credit"}
  /\ jobs'[w].q = jobs[w].q /\ jobs'[w].p = jobs[w].p

LEMMA PayingSame ==
  ASSUME TypeInv, ConfirmInv, SettledStays, NEW w \in Workers,
         jobs'[w].pc \in {"debit", "credit"}, PaysOn(w), NEW p \in Parties
  PROVE  /\ portionStatus'[jobs'[w].q][jobs'[w].p] = "FULFILLED"
         /\ Paying(w, p)' = Paying(w, p)
<1>1. PICK q \in Requests : q = jobs[w].q
  BY DEF PaysOn, TypeInv, JobsInv, JobKnows, ConfirmingPcs
<1>2. PICK x \in Parties : x = jobs[w].p
  BY DEF PaysOn, TypeInv, JobsInv, JobKnows
<1>3. portionStatus[q][x] = "FULFILLED"
  BY <1>1, <1>2 DEF PaysOn, ConfirmInv
<1>4. /\ portionStatus'[q][x] = "FULFILLED"
      /\ \A r \in Rows : Source[r] = x => slices'[q][r] = slices[q][r]
  BY <1>3 DEF SettledStays
<1>5. PortionAmount(q, x)' = PortionAmount(q, x)
  BY <1>4, AmountSame
<1>6. jobs'[w].q = q /\ jobs'[w].p = x
  BY <1>1, <1>2 DEF PaysOn
<1>7. CASE p = x
  <2>1. Paying(w, p) = PortionAmount(q, x)
    BY <1>1, <1>2, <1>7 DEF Paying, PaysOn
  <2>2. Paying(w, p)' = PortionAmount(q, x)'
    BY <1>6, <1>7 DEF Paying, PortionAmount, RowsOf
  <2> QED
    BY <1>4, <1>5, <1>6, <2>1, <2>2
<1>8. CASE p # x
  BY <1>2, <1>4, <1>6, <1>8 DEF Paying
<1> QED
  BY <1>7, <1>8

\* The amounts on their way do not grow unless a confirmation begins.
LEMMA WayFalls ==
  ASSUME TypeInv, TypeInv', ConfirmInv, SettledStays,
         \A w \in Workers : jobs'[w].pc \in {"debit", "credit"} => PaysOn(w)
  PROVE  /\ ConfirmInv'
         /\ \A p \in Parties : OnItsWay(p)' <= OnItsWay(p)
<1>1. ConfirmInv'
  <2>1. \A w \in Workers : jobs[w].pc \in {"debit", "credit"} => jobs[w].p \in Parties
    BY DEF TypeInv, JobsInv, JobKnows
  <2> QED
    BY <2>1, PayingSame DEF ConfirmInv, PaysOn
<1>2. ASSUME NEW p \in Parties PROVE OnItsWay(p)' <= OnItsWay(p)
  <2> DEFINE f == [w \in Workers |-> Paying(w, p)]
             g == [w \in Workers |-> Paying(w, p)']
  <2>1. ASSUME NEW w \in Workers PROVE f[w] \in Nat /\ g[w] \in Nat /\ g[w] <= f[w]
    <3>1. f[w] \in Nat /\ g[w] \in Nat
      BY PayingIs, DueIsNext DEF PayingFacts
    <3>2. g[w] = f[w] \/ g[w] = 0
      BY PayingSame DEF Paying
    <3> HIDE DEF f, g
    <3> QED
      BY <3>1, <3>2
  <2>2. Total(g, Workers) <= Total(f, Workers)
    <3> HIDE DEF f, g
    <3> QED
      BY <2>1, RowsOK, TotalMonotone
  <2> QED
    BY <2>2 DEF OnItsWay
<1> QED
  BY <1>1, <1>2

\* One handler begins to pay, or has paid.
LEMMA WayMoves ==
  ASSUME TypeInv, TypeInv', ConfirmInv, SettledStays, NEW u \in Workers, NEW p \in Parties,
         \A w \in Workers \ {u} : jobs'[w] = jobs[w]
  PROVE  OnItsWay(p)' = OnItsWay(p) + Paying(u, p)' - Paying(u, p)
<1> DEFINE f == [w \in Workers |-> Paying(w, p)]
           g == [w \in Workers |-> Paying(w, p)']
<1>1. \A w \in Workers : f[w] \in Int /\ g[w] \in Int
  BY PayingIs, DueIsNext DEF PayingFacts
<1>2. \A w \in Workers \ {u} : g[w] = f[w]
  <2> SUFFICES ASSUME NEW w \in Workers \ {u} PROVE Paying(w, p)' = Paying(w, p)
    OBVIOUS
  <2>1. CASE jobs[w].pc \in {"debit", "credit"}
    BY <2>1, PayingSame DEF PaysOn
  <2>2. CASE jobs[w].pc \notin {"debit", "credit"}
    BY <2>2 DEF Paying
  <2> QED
    BY <2>1, <2>2
<1>3. Total(g, Workers) = Total(f, Workers) + g[u] - f[u]
  <2> HIDE DEF f, g
  <2> QED
    BY <1>1, <1>2, RowsOK, TotalOneChanges
<1> QED
  BY <1>3 DEF OnItsWay

\* A step that settles nothing and credits nobody.
LEMMA StaysPaid ==
  ASSUME TypeInv, TypeInv', SettledStays, NoneSettles, PayingInv,
         UNCHANGED <<useTransactions, partyDmc>>,
         \A w \in Workers : jobs'[w].pc \in {"debit", "credit"} => PaysOn(w)
  PROVE  PayingInv'
<1>1. ConfirmInv' /\ \A p \in Parties : OnItsWay(p)' <= OnItsWay(p)
  BY WayFalls DEF PayingInv
<1>2. ASSUME NEW p \in Parties
      PROVE  /\ partyDmc'[p] + OnItsWay(p)' <= Due(p)'
             /\ useTransactions' => partyDmc'[p] = Due(p)'
  <2>1. Due(p)' = Due(p) /\ OnItsWay(p)' <= OnItsWay(p)
    BY <1>1, DueSame
  <2>2. Due(p) \in Nat /\ OnItsWay(p) \in Nat /\ OnItsWay(p)' \in Nat /\ partyDmc[p] \in Nat
    BY DueIs, DueIsNext DEF DueFacts, TypeInv, MoneyInv
  <2>3. /\ partyDmc[p] + OnItsWay(p) <= Due(p)
        /\ useTransactions => partyDmc[p] = Due(p)
    BY DEF PayingInv
  <2> QED
    BY <2>1, <2>2, <2>3
<1> QED
  BY <1>1, <1>2 DEF PayingInv

LEMMA SettledPortionsStay == TypeInv /\ PromptInv /\ [Next]_vars => SettledStays
<1> SUFFICES ASSUME TypeInv, PromptInv, [Next]_vars PROVE SettledStays
  OBVIOUS
<1>1. ASSUME NEW r \in Rows, CreateAllocation(r)
      PROVE  SettledStays
  BY <1>1
  DEF CreateAllocation, withdrawalVars, SettledStays
<1>2. ASSUME NEW c \in Commissions, PayCommissionFromPool(c)
      PROVE  SettledStays
  BY <1>2
  DEF PayCommissionFromPool, withdrawalVars, SettledStays
<1>3. ASSUME NEW w \in Workers, NEW a \in Amounts, RequestPlatformWithdrawal(w, a)
      PROVE  SettledStays
  BY <1>3
  DEF RequestPlatformWithdrawal, withdrawalVars, SettledStays
<1>4. ASSUME NEW w \in Workers, NEW q \in Requests, CancelPlatformWithdrawal(w, q)
      PROVE  SettledStays
  BY <1>4
  DEF CancelPlatformWithdrawal, withdrawalVars, SettledStays
<1>5. ASSUME NEW w \in Workers, Refuse(w)
      PROVE  SettledStays
  BY <1>5
  DEF Refuse, withdrawalVars, SettledStays
<1>6. ASSUME NEW w \in Workers, ReadCandidates(w)
      PROVE  SettledStays
  BY <1>6
  DEF ReadCandidates, withdrawalVars, SettledStays
<1>7. ASSUME NEW w \in Workers, Mark(w)
      PROVE  SettledStays
  BY <1>7
  DEF Mark, withdrawalVars, SettledStays
<1>8. ASSUME NEW w \in Workers, MarkLost(w)
      PROVE  SettledStays
  BY <1>8
  DEF MarkLost, withdrawalVars, SettledStays
<1>9. ASSUME NEW w \in Workers, NEW r \in Rows, Draw(w, r)
      PROVE  SettledStays
  BY <1>9
  DEF Draw, DrawOn, withdrawalVars, SettledStays
<1>10. ASSUME NEW w \in Workers, NEW r \in Rows, DrawLost(w, r)
       PROVE  SettledStays
  BY <1>10
  DEF DrawLost, withdrawalVars, SettledStays
<1>11. ASSUME NEW w \in Workers, NEW r \in Rows, ReleaseSlice(w, r)
       PROVE  SettledStays
  BY <1>11
  DEF ReleaseSlice, withdrawalVars, SettledStays
<1>12. ASSUME NEW w \in Workers, NEW q \in Requests, InsertRequest(w, q)
       PROVE  SettledStays
  BY <1>12, InsertRequestStores
  DEF SettledStays
<1>13. ASSUME NEW w \in Workers, NEW q \in Requests, RequestInTransaction(w, q)
       PROVE  SettledStays
  BY <1>13, RequestInTransactionStores, NoneIsNoStatus
  DEF PromptInv, StoredInv, SettledStays
<1>14. ASSUME NEW w \in Workers, NEW p \in Parties, InsertPortion(w, p)
       PROVE  SettledStays
  BY <1>14, InsertPortionMoves, InsertPortionStores, NoneIsNoStatus
  DEF PromptInv, StoringInv, SettledStays
<1>15. ASSUME NEW w \in Workers, CancelRefused(w)
       PROVE  SettledStays
  BY <1>15
  DEF CancelRefused, withdrawalVars, SettledStays
<1>16. ASSUME NEW w \in Workers, CancelRead(w)
       PROVE  SettledStays
  BY <1>16
  DEF CancelRead, withdrawalVars, SettledStays
<1>17. ASSUME NEW w \in Workers, Unmark(w)
       PROVE  SettledStays
  BY <1>17
  DEF Unmark, withdrawalVars, SettledStays
<1>18. ASSUME NEW w \in Workers, CancelPortions(w)
       PROVE  SettledStays
  BY <1>18, CancelPortionsMoves, CancelPortionsStores, NoneIsNoStatus
  DEF PromptInv, GivingInv, GivingPcs, SettledStays
<1>19. ASSUME NEW w \in Workers, CancelRequest(w)
       PROVE  SettledStays
  BY <1>19, CancelRequestStores
  DEF SettledStays
<1>20. ASSUME NEW w \in Workers, Debit(w)
       PROVE  SettledStays
  BY <1>20
  DEF Debit, withdrawalVars, SettledStays
<1>21. ASSUME NEW w \in Workers, DebitRefused(w)
       PROVE  SettledStays
  BY <1>21
  DEF DebitRefused, withdrawalVars, SettledStays
<1>22. ASSUME NEW w \in Workers, Credit(w)
       PROVE  SettledStays
  BY <1>22
  DEF Credit, withdrawalVars, SettledStays
<1>23. ASSUME NEW w \in Workers, Refresh(w)
       PROVE  SettledStays
  BY <1>23
  DEF Refresh, withdrawalVars, SettledStays
<1>24. ASSUME NEW w \in Workers, Close(w)
       PROVE  SettledStays
  BY <1>24, CloseStores
  DEF SettledStays
<1>25. ASSUME NEW q \in Requests, NEW p \in Parties,
              SubmitPlatformPortionPaymentProof(q, p)
       PROVE  SettledStays
  <2>1. PICK from, to \in {"PENDING", "PARTY_PAID", "DISPUTED"} : Answered(q, p, from, to)
    BY <1>25, HandshakeAnswers
  <2> QED
    BY <2>1
    DEF Answered, SettledStays
<1>26. ASSUME NEW q \in Requests, NEW p \in Parties,
              DisputePlatformPortionReceipt(q, p)
       PROVE  SettledStays
  <2>1. PICK from, to \in {"PENDING", "PARTY_PAID", "DISPUTED"} : Answered(q, p, from, to)
    BY <1>26, HandshakeAnswers
  <2> QED
    BY <2>1
    DEF Answered, SettledStays
<1>27. ASSUME NEW q \in Requests, NEW p \in Parties, RetryPortion(q, p)
       PROVE  SettledStays
  <2>1. PICK from, to \in {"PENDING", "PARTY_PAID", "DISPUTED"} : Answered(q, p, from, to)
    BY <1>27, HandshakeAnswers
  <2> QED
    BY <2>1
    DEF Answered, SettledStays
<1>28. ASSUME NEW w \in Workers, NEW q \in Requests, NEW p \in Parties,
              ConfirmInTransaction(w, q, p)
       PROVE  SettledStays
  <2>1. PICK from \in {"PARTY_PAID", "DISPUTED"} : Answered(q, p, from, "FULFILLED")
    BY <1>28, ConfirmAnswers
  <2> QED
    BY <2>1
    DEF Answered, SettledStays
<1>29. ASSUME NEW w \in Workers, NEW q \in Requests, NEW p \in Parties,
              ConfirmClaim(w, q, p)
       PROVE  SettledStays
  <2>1. PICK from \in {"PARTY_PAID", "DISPUTED"} : Answered(q, p, from, "FULFILLED")
    BY <1>29, ConfirmAnswers
  <2> QED
    BY <2>1
    DEF Answered, SettledStays
<1>30. ASSUME Crash
       PROVE  SettledStays
  BY <1>30
  DEF Crash, withdrawalVars, SettledStays
<1>31. CASE UNCHANGED vars
  BY <1>31
  DEF vars, withdrawalVars, SettledStays
<1> QED
  BY <1>1, <1>2, <1>3, <1>4, <1>5, <1>6, <1>7, <1>8, <1>9, <1>10, <1>11,
     <1>12, <1>13, <1>14, <1>15, <1>16, <1>17, <1>18, <1>19, <1>20, <1>21,
     <1>22, <1>23, <1>24, <1>25, <1>26, <1>27, <1>28, <1>29, <1>30, <1>31
  DEF Next, JobStep, Handshake

LEMMA PayingStep ==
  TypeInv /\ PromptInv /\ TypeInv' /\ PayingInv /\ [Next]_vars => PayingInv'
<1> SUFFICES ASSUME TypeInv, PromptInv, TypeInv', PayingInv, SettledStays, [Next]_vars
             PROVE  PayingInv'
  BY SettledPortionsStay
<1>1. ASSUME NEW r \in Rows, CreateAllocation(r)
      PROVE  PayingInv'
  <2>2. NoneSettles
    BY <1>1 DEF CreateAllocation, withdrawalVars, NoneSettles
  <2>3. UNCHANGED <<useTransactions, partyDmc>>
    BY <1>1 DEF CreateAllocation, moneyVars
  <2>4. \A v \in Workers : jobs'[v].pc \in {"debit", "credit"} => PaysOn(v)
    BY <1>1 DEF CreateAllocation, PaysOn
  <2> QED
    BY <2>2, <2>3, <2>4, StaysPaid
<1>2. ASSUME NEW c \in Commissions, PayCommissionFromPool(c)
      PROVE  PayingInv'
  <2>2. NoneSettles
    BY <1>2 DEF PayCommissionFromPool, withdrawalVars, NoneSettles
  <2>3. UNCHANGED <<useTransactions, partyDmc>>
    BY <1>2 DEF PayCommissionFromPool, moneyVars
  <2>4. \A v \in Workers : jobs'[v].pc \in {"debit", "credit"} => PaysOn(v)
    BY <1>2 DEF PayCommissionFromPool, PaysOn
  <2> QED
    BY <2>2, <2>3, <2>4, StaysPaid
<1>3. ASSUME NEW w \in Workers, NEW a \in Amounts, RequestPlatformWithdrawal(w, a)
      PROVE  PayingInv'
  <2>2. NoneSettles
    BY <1>3 DEF RequestPlatformWithdrawal, withdrawalVars, NoneSettles
  <2>3. UNCHANGED <<useTransactions, partyDmc>>
    BY <1>3 DEF RequestPlatformWithdrawal, moneyVars
  <2>4. \A v \in Workers : jobs'[v].pc \in {"debit", "credit"} => PaysOn(v)
    BY <1>3, RequestPlatformWithdrawalMoves DEF PaysOn, Idle
  <2> QED
    BY <2>2, <2>3, <2>4, StaysPaid
<1>4. ASSUME NEW w \in Workers, NEW q \in Requests, CancelPlatformWithdrawal(w, q)
      PROVE  PayingInv'
  <2>2. NoneSettles
    BY <1>4 DEF CancelPlatformWithdrawal, withdrawalVars, NoneSettles
  <2>3. UNCHANGED <<useTransactions, partyDmc>>
    BY <1>4 DEF CancelPlatformWithdrawal, moneyVars
  <2>4. \A v \in Workers : jobs'[v].pc \in {"debit", "credit"} => PaysOn(v)
    BY <1>4, CancelPlatformWithdrawalMoves DEF PaysOn, Idle
  <2> QED
    BY <2>2, <2>3, <2>4, StaysPaid
<1>5. ASSUME NEW w \in Workers, Refuse(w)
      PROVE  PayingInv'
  <2>2. NoneSettles
    BY <1>5 DEF Refuse, withdrawalVars, NoneSettles
  <2>3. UNCHANGED <<useTransactions, partyDmc>>
    BY <1>5 DEF Refuse, moneyVars
  <2>4. \A v \in Workers : jobs'[v].pc \in {"debit", "credit"} => PaysOn(v)
    BY <1>5, RefuseMoves DEF PaysOn, Idle
  <2> QED
    BY <2>2, <2>3, <2>4, StaysPaid
<1>6. ASSUME NEW w \in Workers, ReadCandidates(w)
      PROVE  PayingInv'
  <2>2. NoneSettles
    BY <1>6 DEF ReadCandidates, withdrawalVars, NoneSettles
  <2>3. UNCHANGED <<useTransactions, partyDmc>>
    BY <1>6 DEF ReadCandidates, moneyVars
  <2>4. \A v \in Workers : jobs'[v].pc \in {"debit", "credit"} => PaysOn(v)
    BY <1>6, ReadCandidatesMoves DEF PaysOn, Idle
  <2> QED
    BY <2>2, <2>3, <2>4, StaysPaid
<1>7. ASSUME NEW w \in Workers, Mark(w)
      PROVE  PayingInv'
  <2>2. NoneSettles
    BY <1>7 DEF Mark, withdrawalVars, NoneSettles
  <2>3. UNCHANGED <<useTransactions, partyDmc>>
    BY <1>7 DEF Mark, moneyVars
  <2>4. \A v \in Workers : jobs'[v].pc \in {"debit", "credit"} => PaysOn(v)
    BY <1>7, MarkMoves DEF PaysOn, Idle
  <2> QED
    BY <2>2, <2>3, <2>4, StaysPaid
<1>8. ASSUME NEW w \in Workers, MarkLost(w)
      PROVE  PayingInv'
  <2>2. NoneSettles
    BY <1>8 DEF MarkLost, withdrawalVars, NoneSettles
  <2>3. UNCHANGED <<useTransactions, partyDmc>>
    BY <1>8 DEF MarkLost, moneyVars
  <2>4. \A v \in Workers : jobs'[v].pc \in {"debit", "credit"} => PaysOn(v)
    BY <1>8, MarkLostMoves DEF PaysOn, Idle
  <2> QED
    BY <2>2, <2>3, <2>4, StaysPaid
<1>9. ASSUME NEW w \in Workers, NEW r \in Rows, Draw(w, r)
      PROVE  PayingInv'
  <2>2. NoneSettles
    BY <1>9 DEF Draw, withdrawalVars, NoneSettles, DrawOn
  <2>3. UNCHANGED <<useTransactions, partyDmc>>
    BY <1>9 DEF Draw, moneyVars, DrawOn
  <2>4. \A v \in Workers : jobs'[v].pc \in {"debit", "credit"} => PaysOn(v)
    BY <1>9, DrawMoves DEF PaysOn, Idle
  <2> QED
    BY <2>2, <2>3, <2>4, StaysPaid
<1>10. ASSUME NEW w \in Workers, NEW r \in Rows, DrawLost(w, r)
       PROVE  PayingInv'
  <2>2. NoneSettles
    BY <1>10 DEF DrawLost, withdrawalVars, NoneSettles
  <2>3. UNCHANGED <<useTransactions, partyDmc>>
    BY <1>10 DEF DrawLost, moneyVars
  <2>4. \A v \in Workers : jobs'[v].pc \in {"debit", "credit"} => PaysOn(v)
    BY <1>10, DrawLostMoves DEF PaysOn, Idle
  <2> QED
    BY <2>2, <2>3, <2>4, StaysPaid
<1>11. ASSUME NEW w \in Workers, NEW r \in Rows, ReleaseSlice(w, r)
       PROVE  PayingInv'
  <2>2. NoneSettles
    BY <1>11 DEF ReleaseSlice, withdrawalVars, NoneSettles
  <2>3. UNCHANGED <<useTransactions, partyDmc>>
    BY <1>11 DEF ReleaseSlice, moneyVars
  <2>4. \A v \in Workers : jobs'[v].pc \in {"debit", "credit"} => PaysOn(v)
    BY <1>11, ReleaseSliceMoves DEF PaysOn, Idle
  <2> QED
    BY <2>2, <2>3, <2>4, StaysPaid
<1>12. ASSUME NEW w \in Workers, NEW q \in Requests, InsertRequest(w, q)
       PROVE  PayingInv'
  <2>2. NoneSettles
    BY <1>12, InsertRequestStores, NoneIsNoStatus DEF NoneSettles
  <2>3. UNCHANGED <<useTransactions, partyDmc>>
    BY <1>12 DEF InsertRequest, moneyVars
  <2>4. \A v \in Workers : jobs'[v].pc \in {"debit", "credit"} => PaysOn(v)
    BY <1>12, InsertRequestMoves DEF PaysOn, Idle
  <2> QED
    BY <2>2, <2>3, <2>4, StaysPaid
<1>13. ASSUME NEW w \in Workers, NEW q \in Requests, RequestInTransaction(w, q)
       PROVE  PayingInv'
  <2>2. NoneSettles
    BY <1>13, RequestInTransactionStores, NoneIsNoStatus DEF NoneSettles
  <2>3. UNCHANGED <<useTransactions, partyDmc>>
    BY <1>13 DEF RequestInTransaction, moneyVars
  <2>4. \A v \in Workers : jobs'[v].pc \in {"debit", "credit"} => PaysOn(v)
    BY <1>13, RequestInTransactionMoves DEF PaysOn, Idle
  <2> QED
    BY <2>2, <2>3, <2>4, StaysPaid
<1>14. ASSUME NEW w \in Workers, NEW p \in Parties, InsertPortion(w, p)
       PROVE  PayingInv'
  <2>2. NoneSettles
    BY <1>14, InsertPortionStores, NoneIsNoStatus DEF NoneSettles
  <2>3. UNCHANGED <<useTransactions, partyDmc>>
    BY <1>14 DEF InsertPortion, moneyVars
  <2>4. \A v \in Workers : jobs'[v].pc \in {"debit", "credit"} => PaysOn(v)
    BY <1>14, InsertPortionMoves DEF PaysOn, Idle
  <2> QED
    BY <2>2, <2>3, <2>4, StaysPaid
<1>15. ASSUME NEW w \in Workers, CancelRefused(w)
       PROVE  PayingInv'
  <2>2. NoneSettles
    BY <1>15 DEF CancelRefused, withdrawalVars, NoneSettles
  <2>3. UNCHANGED <<useTransactions, partyDmc>>
    BY <1>15 DEF CancelRefused, moneyVars
  <2>4. \A v \in Workers : jobs'[v].pc \in {"debit", "credit"} => PaysOn(v)
    BY <1>15, CancelRefusedMoves DEF PaysOn, Idle
  <2> QED
    BY <2>2, <2>3, <2>4, StaysPaid
<1>16. ASSUME NEW w \in Workers, CancelRead(w)
       PROVE  PayingInv'
  <2>2. NoneSettles
    BY <1>16 DEF CancelRead, withdrawalVars, NoneSettles
  <2>3. UNCHANGED <<useTransactions, partyDmc>>
    BY <1>16 DEF CancelRead, moneyVars
  <2>4. \A v \in Workers : jobs'[v].pc \in {"debit", "credit"} => PaysOn(v)
    BY <1>16, CancelReadMoves DEF PaysOn, Idle
  <2> QED
    BY <2>2, <2>3, <2>4, StaysPaid
<1>17. ASSUME NEW w \in Workers, Unmark(w)
       PROVE  PayingInv'
  <2>2. NoneSettles
    BY <1>17 DEF Unmark, withdrawalVars, NoneSettles
  <2>3. UNCHANGED <<useTransactions, partyDmc>>
    BY <1>17 DEF Unmark, moneyVars
  <2>4. \A v \in Workers : jobs'[v].pc \in {"debit", "credit"} => PaysOn(v)
    BY <1>17, UnmarkMoves DEF PaysOn, Idle
  <2> QED
    BY <2>2, <2>3, <2>4, StaysPaid
<1>18. ASSUME NEW w \in Workers, CancelPortions(w)
       PROVE  PayingInv'
  <2>2. NoneSettles
    BY <1>18, CancelPortionsStores, NoneIsNoStatus DEF NoneSettles
  <2>3. UNCHANGED <<useTransactions, partyDmc>>
    BY <1>18 DEF CancelPortions, moneyVars
  <2>4. \A v \in Workers : jobs'[v].pc \in {"debit", "credit"} => PaysOn(v)
    BY <1>18, CancelPortionsMoves DEF PaysOn, Idle
  <2> QED
    BY <2>2, <2>3, <2>4, StaysPaid
<1>19. ASSUME NEW w \in Workers, CancelRequest(w)
       PROVE  PayingInv'
  <2>2. NoneSettles
    BY <1>19, CancelRequestStores, NoneIsNoStatus DEF NoneSettles
  <2>3. UNCHANGED <<useTransactions, partyDmc>>
    BY <1>19 DEF CancelRequest, moneyVars
  <2>4. \A v \in Workers : jobs'[v].pc \in {"debit", "credit"} => PaysOn(v)
    BY <1>19, CancelRequestMoves DEF PaysOn, Idle
  <2> QED
    BY <2>2, <2>3, <2>4, StaysPaid
<1>20. ASSUME NEW w \in Workers, Debit(w)
       PROVE  PayingInv'
  <2>2. NoneSettles
    BY <1>20 DEF Debit, withdrawalVars, NoneSettles
  <2>3. UNCHANGED <<useTransactions, partyDmc>>
    BY <1>20 DEF Debit, moneyVars
  <2>4. \A v \in Workers : jobs'[v].pc \in {"debit", "credit"} => PaysOn(v)
    BY <1>20, DebitMoves DEF PaysOn, Idle
  <2> QED
    BY <2>2, <2>3, <2>4, StaysPaid
<1>21. ASSUME NEW w \in Workers, DebitRefused(w)
       PROVE  PayingInv'
  <2>2. NoneSettles
    BY <1>21 DEF DebitRefused, withdrawalVars, NoneSettles
  <2>3. UNCHANGED <<useTransactions, partyDmc>>
    BY <1>21 DEF DebitRefused, moneyVars
  <2>4. \A v \in Workers : jobs'[v].pc \in {"debit", "credit"} => PaysOn(v)
    BY <1>21, DebitRefusedMoves DEF PaysOn, Idle
  <2> QED
    BY <2>2, <2>3, <2>4, StaysPaid
<1>22. ASSUME NEW w \in Workers, Credit(w)
       PROVE  PayingInv'
  <2>1. /\ jobs[w].pc = "credit" /\ \A v \in Workers \ {w} : jobs'[v] = jobs[v]
        /\ jobs'[w].pc = "refresh"
    BY <1>22, CreditMoves
  <2>2. ~useTransactions
    BY <2>1 DEF PromptInv, DrawingInv
  <2>3. PICK q \in Requests : q = jobs[w].q
    BY <2>1 DEF TypeInv, JobsInv, JobKnows, ConfirmingPcs
  <2>4. PICK p \in Parties : p = jobs[w].p
    BY <2>1 DEF TypeInv, JobsInv, JobKnows
  <2>5. /\ useTransactions' = useTransactions
        /\ partyDmc'[p] = partyDmc[p] + PortionAmount(q, p)
        /\ \A x \in Parties \ {p} : partyDmc'[x] = partyDmc[x]
    BY <1>22, <2>3, <2>4 DEF Credit, TypeInv, MoneyInv
  <2>6. NoneSettles
    BY <1>22 DEF Credit, withdrawalVars, NoneSettles
  <2>7. ConfirmInv'
    BY <2>1, WayFalls DEF PaysOn, PayingInv
  <2>8. ASSUME NEW x \in Parties PROVE partyDmc'[x] + OnItsWay(x)' <= Due(x)'
    <3>1. Due(x)' = Due(x)
      BY <2>6, DueSame
    <3>2. OnItsWay(x)' = OnItsWay(x) + Paying(w, x)' - Paying(w, x)
      BY <2>1, WayMoves DEF PayingInv
    <3>3. Paying(w, x)' = 0 /\ Paying(w, x) = IF x = p THEN PortionAmount(q, p) ELSE 0
      BY <2>1, <2>3, <2>4 DEF Paying
    <3>4. partyDmc[x] + OnItsWay(x) <= Due(x)
      BY DEF PayingInv
    <3>5. /\ Due(x) \in Nat /\ OnItsWay(x) \in Nat
          /\ partyDmc[x] \in Nat /\ PortionAmount(q, p) \in Nat
      BY DueIs, PortionAmountType DEF DueFacts, TypeInv, MoneyInv
    <3> QED
      BY <2>5, <3>1, <3>2, <3>3, <3>4, <3>5
  <2> QED
    BY <2>2, <2>5, <2>7, <2>8 DEF PayingInv
<1>23. ASSUME NEW w \in Workers, Refresh(w)
       PROVE  PayingInv'
  <2>2. NoneSettles
    BY <1>23 DEF Refresh, withdrawalVars, NoneSettles
  <2>3. UNCHANGED <<useTransactions, partyDmc>>
    BY <1>23 DEF Refresh, moneyVars
  <2>4. \A v \in Workers : jobs'[v].pc \in {"debit", "credit"} => PaysOn(v)
    BY <1>23, RefreshMoves DEF PaysOn, Idle
  <2> QED
    BY <2>2, <2>3, <2>4, StaysPaid
<1>24. ASSUME NEW w \in Workers, Close(w)
       PROVE  PayingInv'
  <2>2. NoneSettles
    BY <1>24, CloseStores, NoneIsNoStatus DEF NoneSettles
  <2>3. UNCHANGED <<useTransactions, partyDmc>>
    BY <1>24 DEF Close, moneyVars
  <2>4. \A v \in Workers : jobs'[v].pc \in {"debit", "credit"} => PaysOn(v)
    BY <1>24, CloseMoves DEF PaysOn, Idle
  <2> QED
    BY <2>2, <2>3, <2>4, StaysPaid
<1>25. ASSUME NEW q \in Requests, NEW p \in Parties,
              SubmitPlatformPortionPaymentProof(q, p)
       PROVE  PayingInv'
  <2>1. PICK from, to \in {"PENDING", "PARTY_PAID", "DISPUTED"} : Answered(q, p, from, to)
    BY <1>25, HandshakeAnswers
  <2>2. NoneSettles
    BY <2>1 DEF Answered, NoneSettles
  <2>3. UNCHANGED <<useTransactions, partyDmc>>
    BY <1>25 DEF SubmitPlatformPortionPaymentProof, moneyVars
  <2>4. \A v \in Workers : jobs'[v].pc \in {"debit", "credit"} => PaysOn(v)
    BY <1>25 DEF SubmitPlatformPortionPaymentProof, PaysOn
  <2> QED
    BY <2>2, <2>3, <2>4, StaysPaid
<1>26. ASSUME NEW q \in Requests, NEW p \in Parties,
              DisputePlatformPortionReceipt(q, p)
       PROVE  PayingInv'
  <2>1. PICK from, to \in {"PENDING", "PARTY_PAID", "DISPUTED"} : Answered(q, p, from, to)
    BY <1>26, HandshakeAnswers
  <2>2. NoneSettles
    BY <2>1 DEF Answered, NoneSettles
  <2>3. UNCHANGED <<useTransactions, partyDmc>>
    BY <1>26 DEF DisputePlatformPortionReceipt, moneyVars
  <2>4. \A v \in Workers : jobs'[v].pc \in {"debit", "credit"} => PaysOn(v)
    BY <1>26 DEF DisputePlatformPortionReceipt, PaysOn
  <2> QED
    BY <2>2, <2>3, <2>4, StaysPaid
<1>27. ASSUME NEW q \in Requests, NEW p \in Parties, RetryPortion(q, p)
       PROVE  PayingInv'
  <2>1. PICK from, to \in {"PENDING", "PARTY_PAID", "DISPUTED"} : Answered(q, p, from, to)
    BY <1>27, HandshakeAnswers
  <2>2. NoneSettles
    BY <2>1 DEF Answered, NoneSettles
  <2>3. UNCHANGED <<useTransactions, partyDmc>>
    BY <1>27 DEF RetryPortion, moneyVars
  <2>4. \A v \in Workers : jobs'[v].pc \in {"debit", "credit"} => PaysOn(v)
    BY <1>27 DEF RetryPortion, PaysOn
  <2> QED
    BY <2>2, <2>3, <2>4, StaysPaid
<1>28. ASSUME NEW w \in Workers, NEW q \in Requests, NEW p \in Parties,
              ConfirmInTransaction(w, q, p)
       PROVE  PayingInv'
  <2>1. PICK from \in {"PARTY_PAID", "DISPUTED"} : Answered(q, p, from, "FULFILLED")
    BY <1>28, ConfirmAnswers
  <2>2. /\ useTransactions /\ useTransactions' = useTransactions
        /\ partyDmc'[p] = partyDmc[p] + PortionAmount(q, p)
        /\ \A x \in Parties \ {p} : partyDmc'[x] = partyDmc[x]
    BY <1>28 DEF ConfirmInTransaction, TypeInv, MoneyInv
  <2>3. \A v \in Workers : jobs'[v].pc \in {"debit", "credit"} => PaysOn(v)
    BY <1>28, ConfirmInTransactionMoves DEF PaysOn
  <2>4. ConfirmInv' /\ \A x \in Parties : OnItsWay(x)' <= OnItsWay(x)
    BY <2>3, WayFalls DEF PayingInv
  <2>5. ASSUME NEW x \in Parties
        PROVE  partyDmc'[x] + OnItsWay(x)' <= Due(x)' /\ partyDmc'[x] = Due(x)'
    <3>1. Due(x)' = IF x = p THEN Due(x) + PortionAmount(q, p) ELSE Due(x)
      BY <2>1, DueGrows
    <3>2. partyDmc[x] + OnItsWay(x) <= Due(x) /\ partyDmc[x] = Due(x)
      BY <2>2 DEF PayingInv
    <3>3. OnItsWay(x)' <= OnItsWay(x)
      BY <2>4
    <3>4. /\ Due(x) \in Nat /\ OnItsWay(x) \in Nat /\ OnItsWay(x)' \in Nat
          /\ partyDmc[x] \in Nat /\ PortionAmount(q, p) \in Nat
      BY DueIs, DueIsNext, PortionAmountType DEF DueFacts, TypeInv, MoneyInv
    <3> QED
      BY <2>2, <3>1, <3>2, <3>3, <3>4
  <2> QED
    BY <2>2, <2>4, <2>5 DEF PayingInv
<1>29. ASSUME NEW w \in Workers, NEW q \in Requests, NEW p \in Parties,
              ConfirmClaim(w, q, p)
       PROVE  PayingInv'
  <2>1. PICK from \in {"PARTY_PAID", "DISPUTED"} : Answered(q, p, from, "FULFILLED")
    BY <1>29, ConfirmAnswers
  <2>2. ~useTransactions /\ UNCHANGED <<useTransactions, partyDmc>>
    BY <1>29 DEF ConfirmClaim, moneyVars
  <2>3. /\ jobs[w].pc = "idle" /\ \A v \in Workers \ {w} : jobs'[v] = jobs[v]
        /\ jobs'[w].pc = "debit" /\ jobs'[w].q = q /\ jobs'[w].p = p
    BY <1>29, ConfirmClaimMoves
  <2>4. ConfirmInv'
    <3>1. \A v \in Workers \ {w} : jobs'[v].pc \in {"debit", "credit"} => PaysOn(v)
      BY <2>3 DEF PaysOn
    <3>2. \A v \in Workers \ {w} : jobs'[v].pc \in {"debit", "credit"} =>
            portionStatus'[jobs'[v].q][jobs'[v].p] = "FULFILLED"
      BY <3>1, PayingSame DEF PayingInv
    <3>3. portionStatus'[jobs'[w].q][jobs'[w].p] = "FULFILLED"
      BY <2>1, <2>3 DEF Answered
    <3> QED
      BY <3>2, <3>3 DEF ConfirmInv
  <2>5. ASSUME NEW x \in Parties PROVE partyDmc'[x] + OnItsWay(x)' <= Due(x)'
    <3>1. Due(x)' = IF x = p THEN Due(x) + PortionAmount(q, p) ELSE Due(x)
      BY <2>1, DueGrows
    <3>2. OnItsWay(x)' = OnItsWay(x) + Paying(w, x)' - Paying(w, x)
      BY <2>3, WayMoves DEF PayingInv
    <3>3. Paying(w, x) = 0 /\ Paying(w, x)' = IF x = p THEN PortionAmount(q, p) ELSE 0
      <4>1. PortionAmount(q, p)' = PortionAmount(q, p)
        BY <2>1, AmountSame DEF Answered
      <4>2. Paying(w, x)' = IF x = p THEN PortionAmount(q, p)' ELSE 0
        BY <2>3 DEF Paying, PortionAmount, RowsOf
      <4> QED
        BY <2>3, <4>1, <4>2 DEF Paying
    <3>4. partyDmc[x] + OnItsWay(x) <= Due(x)
      BY DEF PayingInv
    <3>5. /\ Due(x) \in Nat /\ OnItsWay(x) \in Nat
          /\ partyDmc[x] \in Nat /\ PortionAmount(q, p) \in Nat
      BY DueIs, PortionAmountType DEF DueFacts, TypeInv, MoneyInv
    <3> QED
      BY <2>2, <3>1, <3>2, <3>3, <3>4, <3>5
  <2> QED
    BY <2>2, <2>4, <2>5 DEF PayingInv
<1>30. ASSUME Crash
       PROVE  PayingInv'
  <2>2. NoneSettles
    BY <1>30 DEF Crash, withdrawalVars, NoneSettles
  <2>3. UNCHANGED <<useTransactions, partyDmc>>
    BY <1>30 DEF Crash, moneyVars
  <2>4. \A v \in Workers : jobs'[v].pc \in {"debit", "credit"} => PaysOn(v)
    BY <1>30 DEF Crash, Idle
  <2> QED
    BY <2>2, <2>3, <2>4, StaysPaid
<1>31. CASE UNCHANGED vars
  <2>1. NoneSettles
    BY <1>31 DEF vars, withdrawalVars, NoneSettles
  <2>2. \A w \in Workers : jobs'[w].pc \in {"debit", "credit"} => PaysOn(w)
    BY <1>31 DEF vars, PaysOn
  <2> QED
    BY <1>31, <2>1, <2>2, StaysPaid DEF vars, moneyVars
<1> QED
  BY <1>1, <1>2, <1>3, <1>4, <1>5, <1>6, <1>7, <1>8, <1>9, <1>10, <1>11,
     <1>12, <1>13, <1>14, <1>15, <1>16, <1>17, <1>18, <1>19, <1>20, <1>21,
     <1>22, <1>23, <1>24, <1>25, <1>26, <1>27, <1>28, <1>29, <1>30, <1>31
  DEF Next, JobStep, Handshake

LEMMA PayingInit == WithdrawalAssumption /\ Init => PayingInv
<1> SUFFICES ASSUME WithdrawalAssumption, Init PROVE PayingInv
  OBVIOUS
<1>1. TypeInv
  BY TypeInit
<1>2. \A w \in Workers : jobs[w].pc = "idle"
  BY DEF Init, Idle
<1>3. \A q \in Requests, p \in Parties : portionStatus[q][p] # "FULFILLED"
  BY <1>1, NoneIsNoStatus DEF Init
<1>4. ASSUME NEW p \in Parties PROVE partyDmc[p] = 0 /\ OnItsWay(p) = 0 /\ Due(p) = 0
  <2> DEFINE f == [q \in Requests |-> Settled(q, p)]
             g == [w \in Workers |-> Paying(w, p)]
  <2>1. (\A q \in Requests : f[q] = 0) /\ (\A w \in Workers : g[w] = 0)
    BY <1>2, <1>3 DEF Settled, Paying
  <2>2. Total(f, Requests) = 0 /\ Total(g, Workers) = 0
    <3> HIDE DEF f, g
    <3> QED
      BY <1>1, <2>1, RowsOK, TotalZero
  <2> QED
    BY <2>2 DEF Due, OnItsWay, Init
<1> QED
  BY <1>2, <1>4 DEF PayingInv, ConfirmInv

LEMMA PayingGives == TypeInv /\ PayingInv => PaidOnce
<1> SUFFICES ASSUME TypeInv, PayingInv, NEW p \in Parties
             PROVE  partyDmc[p] <= Due(p) /\ (useTransactions => partyDmc[p] = Due(p))
  BY DEF PaidOnce, Due, Settled
<1>1. Due(p) \in Nat /\ OnItsWay(p) \in Nat /\ partyDmc[p] \in Nat
  BY DueIs DEF DueFacts, TypeInv, MoneyInv
<1> QED
  BY <1>1 DEF PayingInv

\* For every number of parties, requests and handlers, under the same assumption:
\* whatever is refused, lost or interrupted, a party is credited no more than the
\* portions it is known to have paid, and with transactions exactly that.
THEOREM CreditedAtMostOnce ==
  WithdrawalAssumption /\ PromptRequests /\ Spec => []PaidOnce
<1>1. TypeInv /\ PromptInv /\ PayingInv /\ [Next]_vars => PayingInv'
  BY TypeStep, PayingStep
<1> QED
  BY <1>1, TypeInit, TypeStep, PromptInit, PromptStep, PayingInit, PayingGives, PTL
  DEF Spec

-----------------------------------------------------------------------------
(* What is drawn adds up to what is asked for *)

\* When enough is there to be seen, drawing oldest first draws the amount.
LEMMA FifoPlanCovers ==
  ASSUME TypeInv, NEW seen \in [Rows -> Nat], NEW amount \in Nat,
         Total(seen, Rows) >= amount
  PROVE  Total(FifoPlan(seen, amount), Rows) = amount
<1> DEFINE plan == FifoPlan(seen, amount)
           Oldest == {T \in SUBSET Rows : \A r \in T, s \in Rows : s < r => s \in T}
           F == {T \in Oldest : Total(plan, T) # Least(Total(seen, T), amount)}
<1>1. IsFiniteSet(Rows) /\ Rows \subseteq Nat
  BY RowsOK
<1>2. plan \in [Rows -> Nat]
  BY FifoPlanType
<1>3. ASSUME NEW T \in SUBSET Rows
      PROVE  IsFiniteSet(T) /\ Total(seen, T) \in Nat /\ Total(plan, T) \in Nat
  <2>1. IsFiniteSet(T)
    BY <1>1, FS_Subset
  <2> HIDE DEF plan
  <2> QED
    BY <1>2, <2>1, TotalNat
<1>4. F = {}
  <2> SUFFICES ASSUME F # {} PROVE FALSE
    OBVIOUS
  <2>0. IsFiniteSet(Rows)
    BY <1>1
  <2>1. F \in SUBSET (SUBSET Rows)
    OBVIOUS
  <2>2. PICK T \in F : \A U \in F : ~ (U \subseteq T /\ U # T)
    <3>1. F # {}
      OBVIOUS
    <3> HIDE DEF plan, Oldest, F
    <3>2. \E T \in F : \A U \in F : ~ (U \subseteq T /\ U # T)
      BY ONLY <2>0, <2>1, <3>1, MinimalSubset
    <3> QED
      BY <3>2
  <2>3. T \in SUBSET Rows /\ Total(plan, T) # Least(Total(seen, T), amount)
    OBVIOUS
  <2>4. CASE T = {}
    <3>1. Total(plan, T) = 0 /\ Total(seen, T) = 0
      BY <1>3, <2>3, <2>4, TotalZero
    <3> QED
      BY <2>3, <3>1 DEF Least
  <2>5. CASE T # {}
    <3>1. IsFiniteSet(T) /\ T \subseteq Int
      BY <1>1, <1>3, <2>3
    <3>2. PICK m \in T : \A x \in T : x <= m
      BY ONLY <2>5, <3>1, Greatest
    <3> DEFINE R == {s \in Rows : s < m}
    <3>3. m \in Rows /\ m \in Nat
      BY <1>1, <2>3
    <3>4. R = T \ {m}
      <4>1. R \subseteq T
        BY <3>2
      <4>2. \A x \in T : x \in Nat
        BY <1>1, <2>3
      <4>3. \A x \in T \ {m} : x < m
        BY <3>2, <3>3, <4>2
      <4>4. m \notin R
        BY <3>3
      <4> QED
        BY <2>3, <4>1, <4>3, <4>4
    <3>5. R \in Oldest
      <4>1. \A r \in R, s \in Rows : s < r => s < m
        BY <1>1, <3>3
      <4> QED
        BY <4>1
    <3>6. Total(plan, R) = Least(Total(seen, R), amount)
      <4>1. R \subseteq T /\ R # T
        BY <3>4
      <4>2. R \notin F
        <5> HIDE DEF F, R
        <5> QED
          BY <2>2, <4>1
      <4> QED
        BY <3>5, <4>2
    <3>7. /\ Total(plan, T) = plan[m] + Total(plan, R)
          /\ Total(seen, T) = seen[m] + Total(seen, R)
      <4>1. IsFiniteSet(T)
        BY <3>1
      <4>2. (\A x \in T : plan[x] \in Int) /\ (\A x \in T : seen[x] \in Int)
        BY <1>2, <2>3
      <4>3. m \in T
        OBVIOUS
      <4> HIDE DEF plan, R
      <4>4. Total(plan, T) = plan[m] + Total(plan, T \ {m})
        BY ONLY <4>1, <4>2, <4>3, TotalTakeOut
      <4>5. Total(seen, T) = seen[m] + Total(seen, T \ {m})
        BY ONLY <4>1, <4>2, <4>3, TotalTakeOut
      <4> QED
        BY <3>4, <4>4, <4>5
    <3>8. plan[m] = IF Total(seen, R) >= amount THEN 0
                    ELSE Least(seen[m], amount - Total(seen, R))
      BY <3>3 DEF FifoPlan
    <3>9. seen[m] \in Nat /\ Total(seen, R) \in Nat
      BY <1>3, <3>3
    <3> HIDE DEF plan, R, F, Oldest
    <3> QED
      BY <2>3, <3>6, <3>7, <3>8, <3>9 DEF Least
  <2> QED
    BY <2>4, <2>5
<1>5. Rows \in Oldest
  OBVIOUS
<1>6. Total(plan, Rows) = Least(Total(seen, Rows), amount)
  BY <1>4, <1>5
<1>7. Total(seen, Rows) \in Nat
  BY <1>3
<1> QED
  BY <1>6, <1>7 DEF Least

\* A handler that goes on drawing what it planned, or storing what it drew.
StaysOn(v) ==
  /\ jobs'[v].pc \in {"draw", "mark", "insert"} =>
       /\ jobs[v].pc \in {"draw", "mark", "insert"}
       /\ jobs'[v].plan = jobs[v].plan /\ jobs'[v].amount = jobs[v].amount
  /\ jobs'[v].pc = "portions" =>
       /\ jobs[v].pc = "portions" /\ jobs'[v].plan = jobs[v].plan
       /\ jobs'[v].q = jobs[v].q
       /\ slices'[jobs[v].q] = slices[jobs[v].q]
       /\ asked'[jobs[v].q] = asked[jobs[v].q]

LEMMA StaysPlanned ==
  ASSUME PlannedInv, \A v \in Workers : StaysOn(v)
  PROVE  PlannedInv'
BY DEF PlannedInv, StaysOn

\* What moves from the plan into a portion is neither lost nor counted twice.
LEMMA InsertedPortionAdds ==
  ASSUME TypeInv, PromptInv, PlannedInv, NEW w \in Workers, NEW p \in Parties,
         InsertPortion(w, p), NEW q \in Requests, q = jobs[w].q, NEW plan \in [Rows -> Nat],
         \A r \in Rows : plan[r] = IF Source[r] = p THEN 0 ELSE jobs[w].plan[r]
  PROVE  Total(plan, Rows) + Total(slices'[q], Rows) = asked'[q]
<1>1. jobs[w].pc = "portions"
  BY InsertPortionMoves
<1>2. /\ \A r \in Rows :
           slices'[q][r] = IF Source[r] = p THEN jobs[w].plan[r] ELSE slices[q][r]
      /\ asked'[q] = asked[q]
      /\ portionStatus[q][p] = None
  BY <1>1, InsertPortionStores DEF PromptInv, StoringInv
<1>3. \A r \in Rows : Source[r] = p => slices[q][r] = 0
  BY <1>2 DEF PromptInv, StoredInv
<1>4. \A r \in Rows : jobs[w].plan[r] \in Nat /\ slices[q][r] \in Nat
  BY DEF TypeInv, RequestsInv, JobsInv, Job
<1> DEFINE h == [r \in Rows |-> jobs[w].plan[r] + slices[q][r]]
           old == jobs[w].plan
           b == slices[q]
           c == slices'[q]
<1>5. IsFiniteSet(Rows)
  BY RowsOK
<1>6. \A r \in Rows : old[r] \in Int /\ b[r] \in Int /\ h[r] = old[r] + b[r]
  BY <1>4
<1>7. \A r \in Rows : plan[r] \in Int /\ c[r] \in Int /\ h[r] = plan[r] + c[r]
  BY <1>2, <1>3, <1>4
<1>8. Total(old, Rows) + Total(b, Rows) = asked'[q]
  BY <1>1, <1>2 DEF PlannedInv
<1> HIDE DEF h, old, b, c
<1>9. Total(h, Rows) = Total(old, Rows) + Total(b, Rows)
  BY ONLY <1>5, <1>6, TotalOfTwo
<1>10. Total(h, Rows) = Total(plan, Rows) + Total(c, Rows)
  BY ONLY <1>5, <1>7, TotalOfTwo
<1>11. Total(plan, Rows) + Total(c, Rows) = asked'[q]
  BY <1>8, <1>9, <1>10
<1> QED
  BY <1>11 DEF c

LEMMA NothingAdds == TypeInv => Total(NoSlices, Rows) = 0
<1> SUFFICES ASSUME TypeInv PROVE Total(NoSlices, Rows) = 0
  OBVIOUS
<1>1. \A r \in Rows : NoSlices[r] = 0
  BY DEF NoSlices
<1> QED
  BY <1>1, RowsOK, TotalZero

LEMMA PlanOfAdds ==
  ASSUME TypeInv, NEW w \in Workers, Total(Candidates, Rows) >= jobs[w].amount
  PROVE  Total(PlanOf(w), Rows) = jobs[w].amount
<1>1. jobs[w].amount \in Nat
  BY DEF TypeInv, JobsInv, Job
<1> QED
  BY <1>1, CandidatesType, FifoPlanCovers DEF PlanOf

LEMMA PlannedStep ==
  TypeInv /\ PromptInv /\ TypeInv' /\ PlannedInv /\ [Next]_vars => PlannedInv'
<1> SUFFICES ASSUME TypeInv, PromptInv, TypeInv', PlannedInv, [Next]_vars
             PROVE  PlannedInv'
  OBVIOUS
<1>1. ASSUME NEW r \in Rows, CreateAllocation(r)
      PROVE  PlannedInv'
  BY <1>1, StaysPlanned
  DEF CreateAllocation, withdrawalVars, StaysOn
<1>2. ASSUME NEW c \in Commissions, PayCommissionFromPool(c)
      PROVE  PlannedInv'
  BY <1>2, StaysPlanned
  DEF PayCommissionFromPool, withdrawalVars, StaysOn
<1>3. ASSUME NEW w \in Workers, NEW a \in Amounts, RequestPlatformWithdrawal(w, a)
      PROVE  PlannedInv'
  <2>1. UNCHANGED <<slices, asked>>
    BY <1>3 DEF RequestPlatformWithdrawal, withdrawalVars
  <2>2. \A v \in Workers : StaysOn(v)
    BY <1>3, <2>1, RequestPlatformWithdrawalMoves DEF StaysOn, Idle
  <2> QED
    BY <2>2, StaysPlanned
<1>4. ASSUME NEW w \in Workers, NEW q \in Requests, CancelPlatformWithdrawal(w, q)
      PROVE  PlannedInv'
  <2>1. UNCHANGED <<slices, asked>>
    BY <1>4 DEF CancelPlatformWithdrawal, withdrawalVars
  <2>2. \A v \in Workers : StaysOn(v)
    BY <1>4, <2>1, CancelPlatformWithdrawalMoves DEF StaysOn, Idle
  <2> QED
    BY <2>2, StaysPlanned
<1>5. ASSUME NEW w \in Workers, Refuse(w)
      PROVE  PlannedInv'
  <2>1. UNCHANGED <<slices, asked>>
    BY <1>5 DEF Refuse, withdrawalVars
  <2>2. \A v \in Workers : StaysOn(v)
    BY <1>5, <2>1, RefuseMoves DEF StaysOn, Idle
  <2> QED
    BY <2>2, StaysPlanned
<1>6. ASSUME NEW w \in Workers, ReadCandidates(w)
      PROVE  PlannedInv'
  <2>1. \A v \in Workers \ {w} : StaysOn(v)
    BY <1>6, ReadCandidatesMoves DEF ReadCandidates, withdrawalVars, StaysOn
  <2>2. Total(jobs'[w].plan, Rows) = jobs'[w].amount
    BY <1>6, ReadCandidatesMoves, PlanOfAdds DEF ReadCandidates, PlanOf
  <2>3. jobs'[w].pc = "draw"
    BY <1>6, ReadCandidatesMoves
  <2> QED
    BY <2>1, <2>2, <2>3 DEF PlannedInv, StaysOn
<1>7. ASSUME NEW w \in Workers, Mark(w)
      PROVE  PlannedInv'
  <2>1. UNCHANGED <<slices, asked>>
    BY <1>7 DEF Mark, withdrawalVars
  <2>2. \A v \in Workers : StaysOn(v)
    BY <1>7, <2>1, MarkMoves DEF StaysOn, Idle
  <2> QED
    BY <2>2, StaysPlanned
<1>8. ASSUME NEW w \in Workers, MarkLost(w)
      PROVE  PlannedInv'
  <2>1. UNCHANGED <<slices, asked>>
    BY <1>8 DEF MarkLost, withdrawalVars
  <2>2. \A v \in Workers : StaysOn(v)
    BY <1>8, <2>1, MarkLostMoves DEF StaysOn, Idle
  <2> QED
    BY <2>2, StaysPlanned
<1>9. ASSUME NEW w \in Workers, NEW r \in Rows, Draw(w, r)
      PROVE  PlannedInv'
  <2>1. UNCHANGED <<slices, asked>>
    BY <1>9 DEF Draw, withdrawalVars, DrawOn
  <2>2. \A v \in Workers : StaysOn(v)
    BY <1>9, <2>1, DrawMoves DEF StaysOn, Idle
  <2> QED
    BY <2>2, StaysPlanned
<1>10. ASSUME NEW w \in Workers, NEW r \in Rows, DrawLost(w, r)
       PROVE  PlannedInv'
  <2>1. UNCHANGED <<slices, asked>>
    BY <1>10 DEF DrawLost, withdrawalVars
  <2>2. \A v \in Workers : StaysOn(v)
    BY <1>10, <2>1, DrawLostMoves DEF StaysOn, Idle
  <2> QED
    BY <2>2, StaysPlanned
<1>11. ASSUME NEW w \in Workers, NEW r \in Rows, ReleaseSlice(w, r)
       PROVE  PlannedInv'
  <2>1. UNCHANGED <<slices, asked>>
    BY <1>11 DEF ReleaseSlice, withdrawalVars
  <2>2. \A v \in Workers : StaysOn(v)
    BY <1>11, <2>1, ReleaseSliceMoves DEF StaysOn, Idle
  <2> QED
    BY <2>2, StaysPlanned
<1>12. ASSUME NEW w \in Workers, NEW q \in Requests, InsertRequest(w, q)
       PROVE  PlannedInv'
  <2>1. /\ jobs[w].pc = "insert" /\ \A v \in Workers \ {w} : jobs'[v] = jobs[v]
        /\ jobs'[w].pc = "portions" /\ jobs'[w].q = q /\ jobs'[w].plan = jobs[w].plan
    BY <1>12, InsertRequestMoves
  <2>2. /\ requestStatus[q] = None /\ asked'[q] = jobs[w].amount
        /\ \A u \in Requests \ {q} : asked'[u] = asked[u]
        /\ slices' = slices
    BY <1>12, InsertRequestStores
  <2>3. \A v \in Workers \ {w} : StaysOn(v)
    <3>1. \A v \in Workers : jobs[v].pc = "portions" => jobs[v].q \in Requests \ {q}
      BY <2>2, StoringKnows DEF PromptInv, StoringInv
    <3> QED
      BY <2>1, <2>2, <3>1 DEF StaysOn
  <2>4. Total(slices'[q], Rows) = 0
    <3>1. \A r \in Rows : slices[q][r] = 0
      BY <2>2, RowsOK DEF PromptInv, StoredInv
    <3>2. Total(slices[q], Rows) = 0
      BY <3>1, RowsOK, TotalZero
    <3> QED
      BY <2>2, <3>2
  <2>5. Total(jobs'[w].plan, Rows) = jobs[w].amount /\ jobs[w].amount \in Nat
    BY <2>1 DEF PlannedInv, TypeInv, JobsInv, Job
  <2>6. Total(jobs'[w].plan, Rows) + Total(slices'[jobs'[w].q], Rows) = asked'[jobs'[w].q]
    BY <2>1, <2>2, <2>4, <2>5
  <2> QED
    BY <2>1, <2>3, <2>6 DEF PlannedInv, StaysOn
<1>13. ASSUME NEW w \in Workers, NEW q \in Requests, RequestInTransaction(w, q)
       PROVE  PlannedInv'
  <2>1. \A v \in Workers : jobs[v].pc # "portions"
    BY <1>13, RequestInTransactionStores DEF PromptInv, DrawingInv
  <2> QED
    BY <1>13, <2>1, RequestInTransactionMoves, StaysPlanned DEF Idle, StaysOn
<1>14. ASSUME NEW w \in Workers, NEW p \in Parties, InsertPortion(w, p)
       PROVE  PlannedInv'
  <2>1. /\ jobs[w].pc = "portions" /\ \A v \in Workers \ {w} : jobs'[v] = jobs[v]
        /\ jobs'[w] = Idle \/ (/\ jobs'[w].pc = "portions" /\ jobs'[w].q = jobs[w].q
                              /\ \A r \in Rows : jobs'[w].plan[r] =
                                   IF Source[r] = p THEN 0 ELSE jobs[w].plan[r])
    BY <1>14, InsertPortionMoves
  <2>2. PICK q \in Requests :
          /\ q = jobs[w].q /\ asked' = asked
          /\ \A u \in Requests \ {q} : slices'[u] = slices[u]
    BY <1>14, InsertPortionStores
  <2>3. \A v \in Workers \ {w} : StaysOn(v)
    <3>1. \A v \in Workers \ {w} :
            jobs[v].pc = "portions" => jobs[v].q \in Requests \ {q}
      BY <2>1, <2>2, StoringKnows DEF PromptInv, StoringInv
    <3> QED
      BY <2>1, <2>2, <3>1 DEF StaysOn
  <2>4. CASE jobs'[w] = Idle
    BY <2>3, <2>4 DEF PlannedInv, StaysOn, Idle
  <2>5. CASE jobs'[w] # Idle
    <3>1. jobs'[w].plan \in [Rows -> Nat]
      BY DEF TypeInv, JobsInv, Job
    <3>2. Total(jobs'[w].plan, Rows) + Total(slices'[q], Rows) = asked'[q]
      BY <1>14, <2>1, <2>2, <2>5, <3>1, InsertedPortionAdds
    <3> QED
      BY <2>1, <2>2, <2>3, <2>5, <3>2 DEF PlannedInv, StaysOn
  <2> QED
    BY <2>4, <2>5
<1>15. ASSUME NEW w \in Workers, CancelRefused(w)
       PROVE  PlannedInv'
  <2>1. UNCHANGED <<slices, asked>>
    BY <1>15 DEF CancelRefused, withdrawalVars
  <2>2. \A v \in Workers : StaysOn(v)
    BY <1>15, <2>1, CancelRefusedMoves DEF StaysOn, Idle
  <2> QED
    BY <2>2, StaysPlanned
<1>16. ASSUME NEW w \in Workers, CancelRead(w)
       PROVE  PlannedInv'
  <2>1. UNCHANGED <<slices, asked>>
    BY <1>16 DEF CancelRead, withdrawalVars
  <2>2. \A v \in Workers : StaysOn(v)
    BY <1>16, <2>1, CancelReadMoves DEF StaysOn, Idle
  <2> QED
    BY <2>2, StaysPlanned
<1>17. ASSUME NEW w \in Workers, Unmark(w)
       PROVE  PlannedInv'
  <2>1. UNCHANGED <<slices, asked>>
    BY <1>17 DEF Unmark, withdrawalVars
  <2>2. \A v \in Workers : StaysOn(v)
    BY <1>17, <2>1, UnmarkMoves DEF StaysOn, Idle
  <2> QED
    BY <2>2, StaysPlanned
<1>18. ASSUME NEW w \in Workers, CancelPortions(w)
       PROVE  PlannedInv'
  BY <1>18, CancelPortionsMoves, CancelPortionsStores, StaysPlanned
  DEF Idle, StaysOn
<1>19. ASSUME NEW w \in Workers, CancelRequest(w)
       PROVE  PlannedInv'
  BY <1>19, CancelRequestMoves, CancelRequestStores, StaysPlanned
  DEF Idle, StaysOn
<1>20. ASSUME NEW w \in Workers, Debit(w)
       PROVE  PlannedInv'
  <2>1. UNCHANGED <<slices, asked>>
    BY <1>20 DEF Debit, withdrawalVars
  <2>2. \A v \in Workers : StaysOn(v)
    BY <1>20, <2>1, DebitMoves DEF StaysOn, Idle
  <2> QED
    BY <2>2, StaysPlanned
<1>21. ASSUME NEW w \in Workers, DebitRefused(w)
       PROVE  PlannedInv'
  <2>1. UNCHANGED <<slices, asked>>
    BY <1>21 DEF DebitRefused, withdrawalVars
  <2>2. \A v \in Workers : StaysOn(v)
    BY <1>21, <2>1, DebitRefusedMoves DEF StaysOn, Idle
  <2> QED
    BY <2>2, StaysPlanned
<1>22. ASSUME NEW w \in Workers, Credit(w)
       PROVE  PlannedInv'
  <2>1. UNCHANGED <<slices, asked>>
    BY <1>22 DEF Credit, withdrawalVars
  <2>2. \A v \in Workers : StaysOn(v)
    BY <1>22, <2>1, CreditMoves DEF StaysOn, Idle
  <2> QED
    BY <2>2, StaysPlanned
<1>23. ASSUME NEW w \in Workers, Refresh(w)
       PROVE  PlannedInv'
  <2>1. UNCHANGED <<slices, asked>>
    BY <1>23 DEF Refresh, withdrawalVars
  <2>2. \A v \in Workers : StaysOn(v)
    BY <1>23, <2>1, RefreshMoves DEF StaysOn, Idle
  <2> QED
    BY <2>2, StaysPlanned
<1>24. ASSUME NEW w \in Workers, Close(w)
       PROVE  PlannedInv'
  BY <1>24, CloseMoves, CloseStores, StaysPlanned
  DEF Idle, StaysOn
<1>25. ASSUME NEW q \in Requests, NEW p \in Parties,
              SubmitPlatformPortionPaymentProof(q, p)
       PROVE  PlannedInv'
  BY <1>25, StaysPlanned
  DEF SubmitPlatformPortionPaymentProof, withdrawalVars, StaysOn
<1>26. ASSUME NEW q \in Requests, NEW p \in Parties,
              DisputePlatformPortionReceipt(q, p)
       PROVE  PlannedInv'
  BY <1>26, StaysPlanned
  DEF DisputePlatformPortionReceipt, withdrawalVars, StaysOn
<1>27. ASSUME NEW q \in Requests, NEW p \in Parties, RetryPortion(q, p)
       PROVE  PlannedInv'
  BY <1>27, StaysPlanned
  DEF RetryPortion, withdrawalVars, StaysOn
<1>28. ASSUME NEW w \in Workers, NEW q \in Requests, NEW p \in Parties,
              ConfirmInTransaction(w, q, p)
       PROVE  PlannedInv'
  <2>1. UNCHANGED <<slices, asked>>
    BY <1>28 DEF ConfirmInTransaction, withdrawalVars
  <2>2. \A v \in Workers : StaysOn(v)
    BY <1>28, <2>1, ConfirmInTransactionMoves DEF StaysOn, Idle
  <2> QED
    BY <2>2, StaysPlanned
<1>29. ASSUME NEW w \in Workers, NEW q \in Requests, NEW p \in Parties,
              ConfirmClaim(w, q, p)
       PROVE  PlannedInv'
  <2>1. UNCHANGED <<slices, asked>>
    BY <1>29 DEF ConfirmClaim, withdrawalVars
  <2>2. \A v \in Workers : StaysOn(v)
    BY <1>29, <2>1, ConfirmClaimMoves DEF StaysOn, Idle
  <2> QED
    BY <2>2, StaysPlanned
<1>30. ASSUME Crash
       PROVE  PlannedInv'
  BY <1>30, StaysPlanned
  DEF Crash, Idle, StaysOn
<1>31. CASE UNCHANGED vars
  BY <1>31, StaysPlanned
  DEF vars, withdrawalVars, StaysOn
<1> QED
  BY <1>1, <1>2, <1>3, <1>4, <1>5, <1>6, <1>7, <1>8, <1>9, <1>10, <1>11,
     <1>12, <1>13, <1>14, <1>15, <1>16, <1>17, <1>18, <1>19, <1>20, <1>21,
     <1>22, <1>23, <1>24, <1>25, <1>26, <1>27, <1>28, <1>29, <1>30, <1>31
  DEF Next, JobStep, Handshake

\* A step that stores nothing, and ends nobody's storing.
LEMMA StaysAsked ==
  ASSUME AskedInv, UNCHANGED <<useTransactions, crashes>>,
         \A q \in Requests : requestStatus'[q] # None =>
           requestStatus[q] # None /\ slices'[q] = slices[q] /\ asked'[q] = asked[q],
         \A v \in Workers : jobs[v].pc = "portions" =>
           jobs'[v].pc = "portions" /\ jobs'[v].q = jobs[v].q
  PROVE  AskedInv'
BY DEF AskedInv, Storing

LEMMA AskedStep ==
  TypeInv /\ PromptInv /\ TypeInv' /\ PlannedInv /\ AskedInv /\ [Next]_vars => AskedInv'
<1> SUFFICES ASSUME TypeInv, PromptInv, TypeInv', PlannedInv, AskedInv, [Next]_vars
             PROVE  AskedInv'
  OBVIOUS
<1>1. ASSUME NEW r \in Rows, CreateAllocation(r)
      PROVE  AskedInv'
  <2>1. UNCHANGED <<useTransactions, crashes>>
    BY <1>1 DEF CreateAllocation
  <2>2. \A u \in Requests : requestStatus'[u] # None =>
          /\ requestStatus[u] # None
          /\ slices'[u] = slices[u] /\ asked'[u] = asked[u]
    BY <1>1 DEF CreateAllocation, withdrawalVars
  <2>3. \A v \in Workers : jobs[v].pc = "portions" =>
          jobs'[v].pc = "portions" /\ jobs'[v].q = jobs[v].q
    BY <1>1 DEF CreateAllocation
  <2> QED
    BY <2>1, <2>2, <2>3, StaysAsked
<1>2. ASSUME NEW c \in Commissions, PayCommissionFromPool(c)
      PROVE  AskedInv'
  <2>1. UNCHANGED <<useTransactions, crashes>>
    BY <1>2 DEF PayCommissionFromPool
  <2>2. \A u \in Requests : requestStatus'[u] # None =>
          /\ requestStatus[u] # None
          /\ slices'[u] = slices[u] /\ asked'[u] = asked[u]
    BY <1>2 DEF PayCommissionFromPool, withdrawalVars
  <2>3. \A v \in Workers : jobs[v].pc = "portions" =>
          jobs'[v].pc = "portions" /\ jobs'[v].q = jobs[v].q
    BY <1>2 DEF PayCommissionFromPool
  <2> QED
    BY <2>1, <2>2, <2>3, StaysAsked
<1>3. ASSUME NEW w \in Workers, NEW a \in Amounts, RequestPlatformWithdrawal(w, a)
      PROVE  AskedInv'
  <2>1. UNCHANGED <<useTransactions, crashes>>
    BY <1>3 DEF RequestPlatformWithdrawal
  <2>2. \A u \in Requests : requestStatus'[u] # None =>
          /\ requestStatus[u] # None
          /\ slices'[u] = slices[u] /\ asked'[u] = asked[u]
    BY <1>3 DEF RequestPlatformWithdrawal, withdrawalVars
  <2>3. \A v \in Workers : jobs[v].pc = "portions" =>
          jobs'[v].pc = "portions" /\ jobs'[v].q = jobs[v].q
    BY <1>3, RequestPlatformWithdrawalMoves
  <2> QED
    BY <2>1, <2>2, <2>3, StaysAsked
<1>4. ASSUME NEW w \in Workers, NEW q \in Requests, CancelPlatformWithdrawal(w, q)
      PROVE  AskedInv'
  <2>1. UNCHANGED <<useTransactions, crashes>>
    BY <1>4 DEF CancelPlatformWithdrawal
  <2>2. \A u \in Requests : requestStatus'[u] # None =>
          /\ requestStatus[u] # None
          /\ slices'[u] = slices[u] /\ asked'[u] = asked[u]
    BY <1>4 DEF CancelPlatformWithdrawal, withdrawalVars
  <2>3. \A v \in Workers : jobs[v].pc = "portions" =>
          jobs'[v].pc = "portions" /\ jobs'[v].q = jobs[v].q
    BY <1>4, CancelPlatformWithdrawalMoves
  <2> QED
    BY <2>1, <2>2, <2>3, StaysAsked
<1>5. ASSUME NEW w \in Workers, Refuse(w)
      PROVE  AskedInv'
  <2>1. UNCHANGED <<useTransactions, crashes>>
    BY <1>5 DEF Refuse
  <2>2. \A u \in Requests : requestStatus'[u] # None =>
          /\ requestStatus[u] # None
          /\ slices'[u] = slices[u] /\ asked'[u] = asked[u]
    BY <1>5 DEF Refuse, withdrawalVars
  <2>3. \A v \in Workers : jobs[v].pc = "portions" =>
          jobs'[v].pc = "portions" /\ jobs'[v].q = jobs[v].q
    BY <1>5, RefuseMoves
  <2> QED
    BY <2>1, <2>2, <2>3, StaysAsked
<1>6. ASSUME NEW w \in Workers, ReadCandidates(w)
      PROVE  AskedInv'
  <2>1. UNCHANGED <<useTransactions, crashes>>
    BY <1>6 DEF ReadCandidates
  <2>2. \A u \in Requests : requestStatus'[u] # None =>
          /\ requestStatus[u] # None
          /\ slices'[u] = slices[u] /\ asked'[u] = asked[u]
    BY <1>6 DEF ReadCandidates, withdrawalVars
  <2>3. \A v \in Workers : jobs[v].pc = "portions" =>
          jobs'[v].pc = "portions" /\ jobs'[v].q = jobs[v].q
    BY <1>6, ReadCandidatesMoves
  <2> QED
    BY <2>1, <2>2, <2>3, StaysAsked
<1>7. ASSUME NEW w \in Workers, Mark(w)
      PROVE  AskedInv'
  <2>1. UNCHANGED <<useTransactions, crashes>>
    BY <1>7 DEF Mark
  <2>2. \A u \in Requests : requestStatus'[u] # None =>
          /\ requestStatus[u] # None
          /\ slices'[u] = slices[u] /\ asked'[u] = asked[u]
    BY <1>7 DEF Mark, withdrawalVars
  <2>3. \A v \in Workers : jobs[v].pc = "portions" =>
          jobs'[v].pc = "portions" /\ jobs'[v].q = jobs[v].q
    BY <1>7, MarkMoves
  <2> QED
    BY <2>1, <2>2, <2>3, StaysAsked
<1>8. ASSUME NEW w \in Workers, MarkLost(w)
      PROVE  AskedInv'
  <2>1. UNCHANGED <<useTransactions, crashes>>
    BY <1>8 DEF MarkLost
  <2>2. \A u \in Requests : requestStatus'[u] # None =>
          /\ requestStatus[u] # None
          /\ slices'[u] = slices[u] /\ asked'[u] = asked[u]
    BY <1>8 DEF MarkLost, withdrawalVars
  <2>3. \A v \in Workers : jobs[v].pc = "portions" =>
          jobs'[v].pc = "portions" /\ jobs'[v].q = jobs[v].q
    BY <1>8, MarkLostMoves
  <2> QED
    BY <2>1, <2>2, <2>3, StaysAsked
<1>9. ASSUME NEW w \in Workers, NEW r \in Rows, Draw(w, r)
      PROVE  AskedInv'
  <2>1. UNCHANGED <<useTransactions, crashes>>
    BY <1>9 DEF Draw, DrawOn
  <2>2. \A u \in Requests : requestStatus'[u] # None =>
          /\ requestStatus[u] # None
          /\ slices'[u] = slices[u] /\ asked'[u] = asked[u]
    BY <1>9 DEF Draw, withdrawalVars, DrawOn
  <2>3. \A v \in Workers : jobs[v].pc = "portions" =>
          jobs'[v].pc = "portions" /\ jobs'[v].q = jobs[v].q
    BY <1>9, DrawMoves
  <2> QED
    BY <2>1, <2>2, <2>3, StaysAsked
<1>10. ASSUME NEW w \in Workers, NEW r \in Rows, DrawLost(w, r)
       PROVE  AskedInv'
  <2>1. UNCHANGED <<useTransactions, crashes>>
    BY <1>10 DEF DrawLost
  <2>2. \A u \in Requests : requestStatus'[u] # None =>
          /\ requestStatus[u] # None
          /\ slices'[u] = slices[u] /\ asked'[u] = asked[u]
    BY <1>10 DEF DrawLost, withdrawalVars
  <2>3. \A v \in Workers : jobs[v].pc = "portions" =>
          jobs'[v].pc = "portions" /\ jobs'[v].q = jobs[v].q
    BY <1>10, DrawLostMoves
  <2> QED
    BY <2>1, <2>2, <2>3, StaysAsked
<1>11. ASSUME NEW w \in Workers, NEW r \in Rows, ReleaseSlice(w, r)
       PROVE  AskedInv'
  <2>1. UNCHANGED <<useTransactions, crashes>>
    BY <1>11 DEF ReleaseSlice
  <2>2. \A u \in Requests : requestStatus'[u] # None =>
          /\ requestStatus[u] # None
          /\ slices'[u] = slices[u] /\ asked'[u] = asked[u]
    BY <1>11 DEF ReleaseSlice, withdrawalVars
  <2>3. \A v \in Workers : jobs[v].pc = "portions" =>
          jobs'[v].pc = "portions" /\ jobs'[v].q = jobs[v].q
    BY <1>11, ReleaseSliceMoves
  <2> QED
    BY <2>1, <2>2, <2>3, StaysAsked
<1>12. ASSUME NEW w \in Workers, NEW q \in Requests, InsertRequest(w, q)
       PROVE  AskedInv'
  <2>1. Storing(q)'
    BY <1>12, InsertRequestMoves DEF Storing
  <2>2. UNCHANGED <<useTransactions, crashes, slices>>
    BY <1>12 DEF InsertRequest
  <2>3. \A u \in Requests \ {q} :
          requestStatus'[u] = requestStatus[u] /\ asked'[u] = asked[u]
    BY <1>12, InsertRequestStores
  <2>4. \A u \in Requests : Storing(u) => Storing(u)'
    BY <1>12, InsertRequestMoves DEF Storing
  <2> QED
    BY <2>1, <2>2, <2>3, <2>4 DEF AskedInv
<1>13. ASSUME NEW w \in Workers, NEW q \in Requests, RequestInTransaction(w, q)
       PROVE  AskedInv'
  <2>1. UNCHANGED <<useTransactions, crashes>>
    BY <1>13 DEF RequestInTransaction
  <2>2. /\ slices'[q] = PlanOf(w) /\ asked'[q] = jobs[w].amount
        /\ \A u \in Requests \ {q} :
             /\ requestStatus'[u] = requestStatus[u]
             /\ asked'[u] = asked[u] /\ slices'[u] = slices[u]
    BY <1>13, RequestInTransactionStores
  <2>3. Total(PlanOf(w), Rows) = jobs[w].amount
    BY <1>13, PlanOfAdds DEF RequestInTransaction
  <2>4. \A u \in Requests : Storing(u) => Storing(u)'
    BY <1>13, RequestInTransactionMoves DEF Storing
  <2> QED
    BY <2>1, <2>2, <2>3, <2>4 DEF AskedInv
<1>14. ASSUME NEW w \in Workers, NEW p \in Parties, InsertPortion(w, p)
       PROVE  AskedInv'
  <2>1. /\ jobs[w].pc = "portions" /\ \A v \in Workers \ {w} : jobs'[v] = jobs[v]
        /\ \/ jobs'[w].pc = "portions" /\ jobs'[w].q = jobs[w].q
           \/ \A r \in Rows : Source[r] # p => jobs[w].plan[r] = 0
    BY <1>14, InsertPortionMoves
  <2>2. PICK q \in Requests :
          /\ q = jobs[w].q /\ UNCHANGED <<requestStatus, asked>>
          /\ \A u \in Requests \ {q} : slices'[u] = slices[u]
    BY <1>14, InsertPortionStores
  <2>3. UNCHANGED <<useTransactions, crashes>>
    BY <1>14 DEF InsertPortion
  <2>4. \A u \in Requests \ {q} : Storing(u) => Storing(u)'
    BY <2>1, <2>2 DEF Storing
  <2>5. Storing(q)' \/ Total(slices'[q], Rows) = asked'[q]
    <3>1. CASE jobs'[w].pc = "portions" /\ jobs'[w].q = jobs[w].q
      BY <2>2, <3>1 DEF Storing
    <3>2. CASE \A r \in Rows : Source[r] # p => jobs[w].plan[r] = 0
      <4>1. NoSlices \in [Rows -> Nat]
        BY NoSlicesType
      <4>2. \A r \in Rows : NoSlices[r] = IF Source[r] = p THEN 0 ELSE jobs[w].plan[r]
        BY <3>2 DEF NoSlices
      <4>3. Total(NoSlices, Rows) + Total(slices'[q], Rows) = asked'[q]
        BY <1>14, <2>2, <4>1, <4>2, InsertedPortionAdds
      <4>4. Total(slices'[q], Rows) \in Nat
        <5>1. \A r \in Rows : slices'[q][r] \in Nat
          BY DEF TypeInv, RequestsInv
        <5> QED
          BY <5>1, RowsOK, TotalNat
      <4> QED
        BY <4>3, <4>4, NothingAdds
    <3> QED
      BY <2>1, <3>1, <3>2
  <2> QED
    BY <2>2, <2>3, <2>4, <2>5 DEF AskedInv
<1>15. ASSUME NEW w \in Workers, CancelRefused(w)
       PROVE  AskedInv'
  <2>1. UNCHANGED <<useTransactions, crashes>>
    BY <1>15 DEF CancelRefused
  <2>2. \A u \in Requests : requestStatus'[u] # None =>
          /\ requestStatus[u] # None
          /\ slices'[u] = slices[u] /\ asked'[u] = asked[u]
    BY <1>15 DEF CancelRefused, withdrawalVars
  <2>3. \A v \in Workers : jobs[v].pc = "portions" =>
          jobs'[v].pc = "portions" /\ jobs'[v].q = jobs[v].q
    BY <1>15, CancelRefusedMoves
  <2> QED
    BY <2>1, <2>2, <2>3, StaysAsked
<1>16. ASSUME NEW w \in Workers, CancelRead(w)
       PROVE  AskedInv'
  <2>1. UNCHANGED <<useTransactions, crashes>>
    BY <1>16 DEF CancelRead
  <2>2. \A u \in Requests : requestStatus'[u] # None =>
          /\ requestStatus[u] # None
          /\ slices'[u] = slices[u] /\ asked'[u] = asked[u]
    BY <1>16 DEF CancelRead, withdrawalVars
  <2>3. \A v \in Workers : jobs[v].pc = "portions" =>
          jobs'[v].pc = "portions" /\ jobs'[v].q = jobs[v].q
    BY <1>16, CancelReadMoves
  <2> QED
    BY <2>1, <2>2, <2>3, StaysAsked
<1>17. ASSUME NEW w \in Workers, Unmark(w)
       PROVE  AskedInv'
  <2>1. UNCHANGED <<useTransactions, crashes>>
    BY <1>17 DEF Unmark
  <2>2. \A u \in Requests : requestStatus'[u] # None =>
          /\ requestStatus[u] # None
          /\ slices'[u] = slices[u] /\ asked'[u] = asked[u]
    BY <1>17 DEF Unmark, withdrawalVars
  <2>3. \A v \in Workers : jobs[v].pc = "portions" =>
          jobs'[v].pc = "portions" /\ jobs'[v].q = jobs[v].q
    BY <1>17, UnmarkMoves
  <2> QED
    BY <2>1, <2>2, <2>3, StaysAsked
<1>18. ASSUME NEW w \in Workers, CancelPortions(w)
       PROVE  AskedInv'
  <2>1. UNCHANGED <<useTransactions, crashes>>
    BY <1>18 DEF CancelPortions
  <2>2. \A u \in Requests : requestStatus'[u] # None =>
          /\ requestStatus[u] # None
          /\ slices'[u] = slices[u] /\ asked'[u] = asked[u]
    BY <1>18, CancelPortionsStores, NoneIsNoStatus
  <2>3. \A v \in Workers : jobs[v].pc = "portions" =>
          jobs'[v].pc = "portions" /\ jobs'[v].q = jobs[v].q
    BY <1>18, CancelPortionsMoves
  <2> QED
    BY <2>1, <2>2, <2>3, StaysAsked
<1>19. ASSUME NEW w \in Workers, CancelRequest(w)
       PROVE  AskedInv'
  <2>1. UNCHANGED <<useTransactions, crashes>>
    BY <1>19 DEF CancelRequest
  <2>2. \A u \in Requests : requestStatus'[u] # None =>
          /\ requestStatus[u] # None
          /\ slices'[u] = slices[u] /\ asked'[u] = asked[u]
    BY <1>19, CancelRequestStores, NoneIsNoStatus
  <2>3. \A v \in Workers : jobs[v].pc = "portions" =>
          jobs'[v].pc = "portions" /\ jobs'[v].q = jobs[v].q
    BY <1>19, CancelRequestMoves
  <2> QED
    BY <2>1, <2>2, <2>3, StaysAsked
<1>20. ASSUME NEW w \in Workers, Debit(w)
       PROVE  AskedInv'
  <2>1. UNCHANGED <<useTransactions, crashes>>
    BY <1>20 DEF Debit
  <2>2. \A u \in Requests : requestStatus'[u] # None =>
          /\ requestStatus[u] # None
          /\ slices'[u] = slices[u] /\ asked'[u] = asked[u]
    BY <1>20 DEF Debit, withdrawalVars
  <2>3. \A v \in Workers : jobs[v].pc = "portions" =>
          jobs'[v].pc = "portions" /\ jobs'[v].q = jobs[v].q
    BY <1>20, DebitMoves
  <2> QED
    BY <2>1, <2>2, <2>3, StaysAsked
<1>21. ASSUME NEW w \in Workers, DebitRefused(w)
       PROVE  AskedInv'
  <2>1. UNCHANGED <<useTransactions, crashes>>
    BY <1>21 DEF DebitRefused
  <2>2. \A u \in Requests : requestStatus'[u] # None =>
          /\ requestStatus[u] # None
          /\ slices'[u] = slices[u] /\ asked'[u] = asked[u]
    BY <1>21 DEF DebitRefused, withdrawalVars
  <2>3. \A v \in Workers : jobs[v].pc = "portions" =>
          jobs'[v].pc = "portions" /\ jobs'[v].q = jobs[v].q
    BY <1>21, DebitRefusedMoves
  <2> QED
    BY <2>1, <2>2, <2>3, StaysAsked
<1>22. ASSUME NEW w \in Workers, Credit(w)
       PROVE  AskedInv'
  <2>1. UNCHANGED <<useTransactions, crashes>>
    BY <1>22 DEF Credit
  <2>2. \A u \in Requests : requestStatus'[u] # None =>
          /\ requestStatus[u] # None
          /\ slices'[u] = slices[u] /\ asked'[u] = asked[u]
    BY <1>22 DEF Credit, withdrawalVars
  <2>3. \A v \in Workers : jobs[v].pc = "portions" =>
          jobs'[v].pc = "portions" /\ jobs'[v].q = jobs[v].q
    BY <1>22, CreditMoves
  <2> QED
    BY <2>1, <2>2, <2>3, StaysAsked
<1>23. ASSUME NEW w \in Workers, Refresh(w)
       PROVE  AskedInv'
  <2>1. UNCHANGED <<useTransactions, crashes>>
    BY <1>23 DEF Refresh
  <2>2. \A u \in Requests : requestStatus'[u] # None =>
          /\ requestStatus[u] # None
          /\ slices'[u] = slices[u] /\ asked'[u] = asked[u]
    BY <1>23 DEF Refresh, withdrawalVars
  <2>3. \A v \in Workers : jobs[v].pc = "portions" =>
          jobs'[v].pc = "portions" /\ jobs'[v].q = jobs[v].q
    BY <1>23, RefreshMoves
  <2> QED
    BY <2>1, <2>2, <2>3, StaysAsked
<1>24. ASSUME NEW w \in Workers, Close(w)
       PROVE  AskedInv'
  <2>1. UNCHANGED <<useTransactions, crashes>>
    BY <1>24 DEF Close
  <2>2. \A u \in Requests : requestStatus'[u] # None =>
          /\ requestStatus[u] # None
          /\ slices'[u] = slices[u] /\ asked'[u] = asked[u]
    BY <1>24, CloseStores, NoneIsNoStatus
  <2>3. \A v \in Workers : jobs[v].pc = "portions" =>
          jobs'[v].pc = "portions" /\ jobs'[v].q = jobs[v].q
    BY <1>24, CloseMoves
  <2> QED
    BY <2>1, <2>2, <2>3, StaysAsked
<1>25. ASSUME NEW q \in Requests, NEW p \in Parties,
              SubmitPlatformPortionPaymentProof(q, p)
       PROVE  AskedInv'
  <2>1. UNCHANGED <<useTransactions, crashes>>
    BY <1>25 DEF SubmitPlatformPortionPaymentProof
  <2>2. \A u \in Requests : requestStatus'[u] # None =>
          /\ requestStatus[u] # None
          /\ slices'[u] = slices[u] /\ asked'[u] = asked[u]
    BY <1>25 DEF SubmitPlatformPortionPaymentProof, withdrawalVars
  <2>3. \A v \in Workers : jobs[v].pc = "portions" =>
          jobs'[v].pc = "portions" /\ jobs'[v].q = jobs[v].q
    BY <1>25 DEF SubmitPlatformPortionPaymentProof
  <2> QED
    BY <2>1, <2>2, <2>3, StaysAsked
<1>26. ASSUME NEW q \in Requests, NEW p \in Parties,
              DisputePlatformPortionReceipt(q, p)
       PROVE  AskedInv'
  <2>1. UNCHANGED <<useTransactions, crashes>>
    BY <1>26 DEF DisputePlatformPortionReceipt
  <2>2. \A u \in Requests : requestStatus'[u] # None =>
          /\ requestStatus[u] # None
          /\ slices'[u] = slices[u] /\ asked'[u] = asked[u]
    BY <1>26 DEF DisputePlatformPortionReceipt, withdrawalVars
  <2>3. \A v \in Workers : jobs[v].pc = "portions" =>
          jobs'[v].pc = "portions" /\ jobs'[v].q = jobs[v].q
    BY <1>26 DEF DisputePlatformPortionReceipt
  <2> QED
    BY <2>1, <2>2, <2>3, StaysAsked
<1>27. ASSUME NEW q \in Requests, NEW p \in Parties, RetryPortion(q, p)
       PROVE  AskedInv'
  <2>1. UNCHANGED <<useTransactions, crashes>>
    BY <1>27 DEF RetryPortion
  <2>2. \A u \in Requests : requestStatus'[u] # None =>
          /\ requestStatus[u] # None
          /\ slices'[u] = slices[u] /\ asked'[u] = asked[u]
    BY <1>27 DEF RetryPortion, withdrawalVars
  <2>3. \A v \in Workers : jobs[v].pc = "portions" =>
          jobs'[v].pc = "portions" /\ jobs'[v].q = jobs[v].q
    BY <1>27 DEF RetryPortion
  <2> QED
    BY <2>1, <2>2, <2>3, StaysAsked
<1>28. ASSUME NEW w \in Workers, NEW q \in Requests, NEW p \in Parties,
              ConfirmInTransaction(w, q, p)
       PROVE  AskedInv'
  <2>1. UNCHANGED <<useTransactions, crashes>>
    BY <1>28 DEF ConfirmInTransaction
  <2>2. \A u \in Requests : requestStatus'[u] # None =>
          /\ requestStatus[u] # None
          /\ slices'[u] = slices[u] /\ asked'[u] = asked[u]
    BY <1>28 DEF ConfirmInTransaction, withdrawalVars
  <2>3. \A v \in Workers : jobs[v].pc = "portions" =>
          jobs'[v].pc = "portions" /\ jobs'[v].q = jobs[v].q
    BY <1>28, ConfirmInTransactionMoves
  <2> QED
    BY <2>1, <2>2, <2>3, StaysAsked
<1>29. ASSUME NEW w \in Workers, NEW q \in Requests, NEW p \in Parties,
              ConfirmClaim(w, q, p)
       PROVE  AskedInv'
  <2>1. UNCHANGED <<useTransactions, crashes>>
    BY <1>29 DEF ConfirmClaim
  <2>2. \A u \in Requests : requestStatus'[u] # None =>
          /\ requestStatus[u] # None
          /\ slices'[u] = slices[u] /\ asked'[u] = asked[u]
    BY <1>29 DEF ConfirmClaim, withdrawalVars
  <2>3. \A v \in Workers : jobs[v].pc = "portions" =>
          jobs'[v].pc = "portions" /\ jobs'[v].q = jobs[v].q
    BY <1>29, ConfirmClaimMoves
  <2> QED
    BY <2>1, <2>2, <2>3, StaysAsked
<1>30. ASSUME Crash
       PROVE  AskedInv'
  <2>1. crashes' # 0 /\ UNCHANGED <<useTransactions, requestStatus, asked, slices>>
    BY <1>30 DEF Crash, withdrawalVars, TypeInv
  <2>2. useTransactions => \A v \in Workers : jobs[v].pc # "portions"
    BY DEF PromptInv, DrawingInv
  <2> QED
    BY <2>1, <2>2 DEF AskedInv, Storing
<1>31. CASE UNCHANGED vars
  BY <1>31, StaysAsked
  DEF vars, withdrawalVars
<1> QED
  BY <1>1, <1>2, <1>3, <1>4, <1>5, <1>6, <1>7, <1>8, <1>9, <1>10, <1>11,
     <1>12, <1>13, <1>14, <1>15, <1>16, <1>17, <1>18, <1>19, <1>20, <1>21,
     <1>22, <1>23, <1>24, <1>25, <1>26, <1>27, <1>28, <1>29, <1>30, <1>31
  DEF Next, JobStep, Handshake

-----------------------------------------------------------------------------
(* Settled in full, and closed *)

\* A request whose portions are all settled stays so: nobody stores or cancels
\* a portion of it any more.
FulfilledStays == \A q \in Requests : AllFulfilled(q) => AllFulfilled(q)'
NoneFulfils == \A q \in Requests : AllFulfilled(q)' => AllFulfilled(q)

LEMMA FulfilledIs ==
  ASSUME TypeInv, PromptInv, NEW q \in Requests, AllFulfilled(q)
  PROVE  requestStatus[q] \in {"PENDING", "FULFILLED"} /\ ~Storing(q)
<1>1. PICK p \in Parties : portionStatus[q][p] = "FULFILLED"
  BY DEF AllFulfilled, Stored
<1>2. requestStatus[q] \notin {None, "CANCELLED"}
  BY <1>1, NoneIsNoStatus DEF PromptInv, StoredInv, GivingInv
<1>3. ~Storing(q)
  BY <1>1, NoneIsNoStatus DEF PromptInv, StoringInv, Storing
<1> QED
  BY <1>2, <1>3 DEF TypeInv, RequestsInv, REQUEST_STATUSES

LEMMA FulfilledRequestsStay == TypeInv /\ PromptInv /\ [Next]_vars => FulfilledStays
<1> SUFFICES ASSUME TypeInv, PromptInv, [Next]_vars PROVE FulfilledStays
  OBVIOUS
<1>1. ASSUME NEW r \in Rows, CreateAllocation(r)
      PROVE  FulfilledStays
  BY <1>1
  DEF CreateAllocation, withdrawalVars, FulfilledStays, AllFulfilled, Stored
<1>2. ASSUME NEW c \in Commissions, PayCommissionFromPool(c)
      PROVE  FulfilledStays
  BY <1>2
  DEF PayCommissionFromPool, withdrawalVars, FulfilledStays, AllFulfilled,
      Stored
<1>3. ASSUME NEW w \in Workers, NEW a \in Amounts, RequestPlatformWithdrawal(w, a)
      PROVE  FulfilledStays
  BY <1>3
  DEF RequestPlatformWithdrawal, withdrawalVars, FulfilledStays, AllFulfilled,
      Stored
<1>4. ASSUME NEW w \in Workers, NEW q \in Requests, CancelPlatformWithdrawal(w, q)
      PROVE  FulfilledStays
  BY <1>4
  DEF CancelPlatformWithdrawal, withdrawalVars, FulfilledStays, AllFulfilled,
      Stored
<1>5. ASSUME NEW w \in Workers, Refuse(w)
      PROVE  FulfilledStays
  BY <1>5
  DEF Refuse, withdrawalVars, FulfilledStays, AllFulfilled, Stored
<1>6. ASSUME NEW w \in Workers, ReadCandidates(w)
      PROVE  FulfilledStays
  BY <1>6
  DEF ReadCandidates, withdrawalVars, FulfilledStays, AllFulfilled, Stored
<1>7. ASSUME NEW w \in Workers, Mark(w)
      PROVE  FulfilledStays
  BY <1>7
  DEF Mark, withdrawalVars, FulfilledStays, AllFulfilled, Stored
<1>8. ASSUME NEW w \in Workers, MarkLost(w)
      PROVE  FulfilledStays
  BY <1>8
  DEF MarkLost, withdrawalVars, FulfilledStays, AllFulfilled, Stored
<1>9. ASSUME NEW w \in Workers, NEW r \in Rows, Draw(w, r)
      PROVE  FulfilledStays
  BY <1>9
  DEF Draw, DrawOn, withdrawalVars, FulfilledStays, AllFulfilled, Stored
<1>10. ASSUME NEW w \in Workers, NEW r \in Rows, DrawLost(w, r)
       PROVE  FulfilledStays
  BY <1>10
  DEF DrawLost, withdrawalVars, FulfilledStays, AllFulfilled, Stored
<1>11. ASSUME NEW w \in Workers, NEW r \in Rows, ReleaseSlice(w, r)
       PROVE  FulfilledStays
  BY <1>11
  DEF ReleaseSlice, withdrawalVars, FulfilledStays, AllFulfilled, Stored
<1>12. ASSUME NEW w \in Workers, NEW q \in Requests, InsertRequest(w, q)
       PROVE  FulfilledStays
  BY <1>12, InsertRequestStores
  DEF FulfilledStays, AllFulfilled, Stored
<1>13. ASSUME NEW w \in Workers, NEW q \in Requests, RequestInTransaction(w, q)
       PROVE  FulfilledStays
  BY <1>13, RequestInTransactionStores, NoneIsNoStatus
  DEF PromptInv, StoredInv, FulfilledStays, AllFulfilled, Stored
<1>14. ASSUME NEW w \in Workers, NEW p \in Parties, InsertPortion(w, p)
       PROVE  FulfilledStays
  <2>1. PICK u \in Requests :
          /\ u = jobs[w].q
          /\ \A v \in Requests, x \in Parties :
               v # u => portionStatus'[v][x] = portionStatus[v][x]
    BY <1>14, InsertPortionStores
  <2>2. ~AllFulfilled(u)
    BY <1>14, <2>1, InsertPortionMoves, FulfilledIs DEF Storing
  <2> QED
    BY <2>1, <2>2 DEF FulfilledStays, AllFulfilled, Stored
<1>15. ASSUME NEW w \in Workers, CancelRefused(w)
       PROVE  FulfilledStays
  BY <1>15
  DEF CancelRefused, withdrawalVars, FulfilledStays, AllFulfilled, Stored
<1>16. ASSUME NEW w \in Workers, CancelRead(w)
       PROVE  FulfilledStays
  BY <1>16
  DEF CancelRead, withdrawalVars, FulfilledStays, AllFulfilled, Stored
<1>17. ASSUME NEW w \in Workers, Unmark(w)
       PROVE  FulfilledStays
  BY <1>17
  DEF Unmark, withdrawalVars, FulfilledStays, AllFulfilled, Stored
<1>18. ASSUME NEW w \in Workers, CancelPortions(w)
       PROVE  FulfilledStays
  BY <1>18, CancelPortionsMoves, CancelPortionsStores, NoneIsNoStatus
  DEF PromptInv, GivingInv, GivingPcs, FulfilledStays, AllFulfilled, Stored
<1>19. ASSUME NEW w \in Workers, CancelRequest(w)
       PROVE  FulfilledStays
  BY <1>19, CancelRequestStores
  DEF FulfilledStays, AllFulfilled, Stored
<1>20. ASSUME NEW w \in Workers, Debit(w)
       PROVE  FulfilledStays
  BY <1>20
  DEF Debit, withdrawalVars, FulfilledStays, AllFulfilled, Stored
<1>21. ASSUME NEW w \in Workers, DebitRefused(w)
       PROVE  FulfilledStays
  BY <1>21
  DEF DebitRefused, withdrawalVars, FulfilledStays, AllFulfilled, Stored
<1>22. ASSUME NEW w \in Workers, Credit(w)
       PROVE  FulfilledStays
  BY <1>22
  DEF Credit, withdrawalVars, FulfilledStays, AllFulfilled, Stored
<1>23. ASSUME NEW w \in Workers, Refresh(w)
       PROVE  FulfilledStays
  BY <1>23
  DEF Refresh, withdrawalVars, FulfilledStays, AllFulfilled, Stored
<1>24. ASSUME NEW w \in Workers, Close(w)
       PROVE  FulfilledStays
  BY <1>24, CloseStores
  DEF FulfilledStays, AllFulfilled, Stored
<1>25. ASSUME NEW q \in Requests, NEW p \in Parties,
              SubmitPlatformPortionPaymentProof(q, p)
       PROVE  FulfilledStays
  <2>1. PICK from, to \in {"PENDING", "PARTY_PAID", "DISPUTED"} : Answered(q, p, from, to)
    BY <1>25, HandshakeAnswers
  <2> QED
    BY <2>1, NoneIsNoStatus
    DEF Answered, FulfilledStays, AllFulfilled, Stored
<1>26. ASSUME NEW q \in Requests, NEW p \in Parties,
              DisputePlatformPortionReceipt(q, p)
       PROVE  FulfilledStays
  <2>1. PICK from, to \in {"PENDING", "PARTY_PAID", "DISPUTED"} : Answered(q, p, from, to)
    BY <1>26, HandshakeAnswers
  <2> QED
    BY <2>1, NoneIsNoStatus
    DEF Answered, FulfilledStays, AllFulfilled, Stored
<1>27. ASSUME NEW q \in Requests, NEW p \in Parties, RetryPortion(q, p)
       PROVE  FulfilledStays
  <2>1. PICK from, to \in {"PENDING", "PARTY_PAID", "DISPUTED"} : Answered(q, p, from, to)
    BY <1>27, HandshakeAnswers
  <2> QED
    BY <2>1, NoneIsNoStatus
    DEF Answered, FulfilledStays, AllFulfilled, Stored
<1>28. ASSUME NEW w \in Workers, NEW q \in Requests, NEW p \in Parties,
              ConfirmInTransaction(w, q, p)
       PROVE  FulfilledStays
  <2>1. PICK from \in {"PARTY_PAID", "DISPUTED"} : Answered(q, p, from, "FULFILLED")
    BY <1>28, ConfirmAnswers
  <2> QED
    BY <2>1, NoneIsNoStatus
    DEF Answered, FulfilledStays, AllFulfilled, Stored
<1>29. ASSUME NEW w \in Workers, NEW q \in Requests, NEW p \in Parties,
              ConfirmClaim(w, q, p)
       PROVE  FulfilledStays
  <2>1. PICK from \in {"PARTY_PAID", "DISPUTED"} : Answered(q, p, from, "FULFILLED")
    BY <1>29, ConfirmAnswers
  <2> QED
    BY <2>1, NoneIsNoStatus
    DEF Answered, FulfilledStays, AllFulfilled, Stored
<1>30. ASSUME Crash
       PROVE  FulfilledStays
  BY <1>30
  DEF Crash, withdrawalVars, FulfilledStays, AllFulfilled, Stored
<1>31. CASE UNCHANGED vars
  BY <1>31
  DEF vars, withdrawalVars, FulfilledStays, AllFulfilled, Stored
<1> QED
  BY <1>1, <1>2, <1>3, <1>4, <1>5, <1>6, <1>7, <1>8, <1>9, <1>10, <1>11,
     <1>12, <1>13, <1>14, <1>15, <1>16, <1>17, <1>18, <1>19, <1>20, <1>21,
     <1>22, <1>23, <1>24, <1>25, <1>26, <1>27, <1>28, <1>29, <1>30, <1>31
  DEF Next, JobStep, Handshake

\* A step that settles no request and closes none.
LEMMA StaysClosed ==
  ASSUME TypeInv, FulfilledStays, NoneFulfils, ClosedInv, UNCHANGED <<useTransactions, crashes>>,
         \A q \in Requests :
           requestStatus'[q] = "FULFILLED" <=> requestStatus[q] = "FULFILLED",
         \A v \in Workers : /\ jobs'[v].pc = "close" => jobs'[v] = jobs[v]
                            /\ jobs[v].pc \in {"refresh", "close"} => jobs'[v] = jobs[v]
  PROVE  ClosedInv'
<1>1. \A v \in Workers : jobs'[v].pc = "close" => AllFulfilled(jobs[v].q)'
  BY DEF ClosedInv, FulfilledStays, TypeInv, JobsInv, JobKnows, ConfirmingPcs
<1>2. \A v \in Workers : jobs'[v].pc = "close" => jobs'[v].q = jobs[v].q
  OBVIOUS
<1>3. \A q \in Requests : requestStatus'[q] = "FULFILLED" => AllFulfilled(q)'
  BY DEF ClosedInv, FulfilledStays
<1>4. \A q \in Requests : Refreshing(q) => Refreshing(q)'
  BY DEF Refreshing
<1>5. ASSUME NEW q \in Requests, useTransactions', crashes' = 0, AllFulfilled(q)'
      PROVE  requestStatus'[q] = "FULFILLED" \/ Refreshing(q)'
  BY <1>4, <1>5 DEF ClosedInv, NoneFulfils
<1> QED
  BY <1>1, <1>2, <1>3, <1>5 DEF ClosedInv

LEMMA ClosedStep == TypeInv /\ PromptInv /\ ClosedInv /\ [Next]_vars => ClosedInv'
<1> SUFFICES ASSUME TypeInv, PromptInv, FulfilledStays, ClosedInv, [Next]_vars
             PROVE  ClosedInv'
  BY FulfilledRequestsStay
<1>1. ASSUME NEW r \in Rows, CreateAllocation(r)
      PROVE  ClosedInv'
  <2>2. NoneFulfils
    BY <1>1 DEF CreateAllocation, withdrawalVars, NoneFulfils, AllFulfilled, Stored
  <2>3. UNCHANGED <<useTransactions, crashes>>
    BY <1>1 DEF CreateAllocation
  <2>4. \A u \in Requests :
          requestStatus'[u] = "FULFILLED" <=> requestStatus[u] = "FULFILLED"
    BY <1>1 DEF CreateAllocation, withdrawalVars
  <2>5. \A v \in Workers : /\ jobs'[v].pc = "close" => jobs'[v] = jobs[v]
                           /\ jobs[v].pc \in {"refresh", "close"} => jobs'[v] = jobs[v]
    BY <1>1 DEF CreateAllocation
  <2> QED
    BY <2>2, <2>3, <2>4, <2>5, StaysClosed
<1>2. ASSUME NEW c \in Commissions, PayCommissionFromPool(c)
      PROVE  ClosedInv'
  <2>2. NoneFulfils
    BY <1>2
    DEF PayCommissionFromPool, withdrawalVars, NoneFulfils, AllFulfilled, Stored
  <2>3. UNCHANGED <<useTransactions, crashes>>
    BY <1>2 DEF PayCommissionFromPool
  <2>4. \A u \in Requests :
          requestStatus'[u] = "FULFILLED" <=> requestStatus[u] = "FULFILLED"
    BY <1>2 DEF PayCommissionFromPool, withdrawalVars
  <2>5. \A v \in Workers : /\ jobs'[v].pc = "close" => jobs'[v] = jobs[v]
                           /\ jobs[v].pc \in {"refresh", "close"} => jobs'[v] = jobs[v]
    BY <1>2 DEF PayCommissionFromPool
  <2> QED
    BY <2>2, <2>3, <2>4, <2>5, StaysClosed
<1>3. ASSUME NEW w \in Workers, NEW a \in Amounts, RequestPlatformWithdrawal(w, a)
      PROVE  ClosedInv'
  <2>2. NoneFulfils
    BY <1>3
    DEF RequestPlatformWithdrawal, withdrawalVars, NoneFulfils, AllFulfilled, Stored
  <2>3. UNCHANGED <<useTransactions, crashes>>
    BY <1>3 DEF RequestPlatformWithdrawal
  <2>4. \A u \in Requests :
          requestStatus'[u] = "FULFILLED" <=> requestStatus[u] = "FULFILLED"
    BY <1>3 DEF RequestPlatformWithdrawal, withdrawalVars
  <2>5. \A v \in Workers : /\ jobs'[v].pc = "close" => jobs'[v] = jobs[v]
                           /\ jobs[v].pc \in {"refresh", "close"} => jobs'[v] = jobs[v]
    BY <1>3, RequestPlatformWithdrawalMoves DEF Idle
  <2> QED
    BY <2>2, <2>3, <2>4, <2>5, StaysClosed
<1>4. ASSUME NEW w \in Workers, NEW q \in Requests, CancelPlatformWithdrawal(w, q)
      PROVE  ClosedInv'
  <2>2. NoneFulfils
    BY <1>4
    DEF CancelPlatformWithdrawal, withdrawalVars, NoneFulfils, AllFulfilled, Stored
  <2>3. UNCHANGED <<useTransactions, crashes>>
    BY <1>4 DEF CancelPlatformWithdrawal
  <2>4. \A u \in Requests :
          requestStatus'[u] = "FULFILLED" <=> requestStatus[u] = "FULFILLED"
    BY <1>4 DEF CancelPlatformWithdrawal, withdrawalVars
  <2>5. \A v \in Workers : /\ jobs'[v].pc = "close" => jobs'[v] = jobs[v]
                           /\ jobs[v].pc \in {"refresh", "close"} => jobs'[v] = jobs[v]
    BY <1>4, CancelPlatformWithdrawalMoves DEF Idle
  <2> QED
    BY <2>2, <2>3, <2>4, <2>5, StaysClosed
<1>5. ASSUME NEW w \in Workers, Refuse(w)
      PROVE  ClosedInv'
  <2>2. NoneFulfils
    BY <1>5 DEF Refuse, withdrawalVars, NoneFulfils, AllFulfilled, Stored
  <2>3. UNCHANGED <<useTransactions, crashes>>
    BY <1>5 DEF Refuse
  <2>4. \A u \in Requests :
          requestStatus'[u] = "FULFILLED" <=> requestStatus[u] = "FULFILLED"
    BY <1>5 DEF Refuse, withdrawalVars
  <2>5. \A v \in Workers : /\ jobs'[v].pc = "close" => jobs'[v] = jobs[v]
                           /\ jobs[v].pc \in {"refresh", "close"} => jobs'[v] = jobs[v]
    BY <1>5, RefuseMoves DEF Idle
  <2> QED
    BY <2>2, <2>3, <2>4, <2>5, StaysClosed
<1>6. ASSUME NEW w \in Workers, ReadCandidates(w)
      PROVE  ClosedInv'
  <2>2. NoneFulfils
    BY <1>6 DEF ReadCandidates, withdrawalVars, NoneFulfils, AllFulfilled, Stored
  <2>3. UNCHANGED <<useTransactions, crashes>>
    BY <1>6 DEF ReadCandidates
  <2>4. \A u \in Requests :
          requestStatus'[u] = "FULFILLED" <=> requestStatus[u] = "FULFILLED"
    BY <1>6 DEF ReadCandidates, withdrawalVars
  <2>5. \A v \in Workers : /\ jobs'[v].pc = "close" => jobs'[v] = jobs[v]
                           /\ jobs[v].pc \in {"refresh", "close"} => jobs'[v] = jobs[v]
    BY <1>6, ReadCandidatesMoves DEF Idle
  <2> QED
    BY <2>2, <2>3, <2>4, <2>5, StaysClosed
<1>7. ASSUME NEW w \in Workers, Mark(w)
      PROVE  ClosedInv'
  <2>2. NoneFulfils
    BY <1>7 DEF Mark, withdrawalVars, NoneFulfils, AllFulfilled, Stored
  <2>3. UNCHANGED <<useTransactions, crashes>>
    BY <1>7 DEF Mark
  <2>4. \A u \in Requests :
          requestStatus'[u] = "FULFILLED" <=> requestStatus[u] = "FULFILLED"
    BY <1>7 DEF Mark, withdrawalVars
  <2>5. \A v \in Workers : /\ jobs'[v].pc = "close" => jobs'[v] = jobs[v]
                           /\ jobs[v].pc \in {"refresh", "close"} => jobs'[v] = jobs[v]
    BY <1>7, MarkMoves DEF Idle
  <2> QED
    BY <2>2, <2>3, <2>4, <2>5, StaysClosed
<1>8. ASSUME NEW w \in Workers, MarkLost(w)
      PROVE  ClosedInv'
  <2>2. NoneFulfils
    BY <1>8 DEF MarkLost, withdrawalVars, NoneFulfils, AllFulfilled, Stored
  <2>3. UNCHANGED <<useTransactions, crashes>>
    BY <1>8 DEF MarkLost
  <2>4. \A u \in Requests :
          requestStatus'[u] = "FULFILLED" <=> requestStatus[u] = "FULFILLED"
    BY <1>8 DEF MarkLost, withdrawalVars
  <2>5. \A v \in Workers : /\ jobs'[v].pc = "close" => jobs'[v] = jobs[v]
                           /\ jobs[v].pc \in {"refresh", "close"} => jobs'[v] = jobs[v]
    BY <1>8, MarkLostMoves DEF Idle
  <2> QED
    BY <2>2, <2>3, <2>4, <2>5, StaysClosed
<1>9. ASSUME NEW w \in Workers, NEW r \in Rows, Draw(w, r)
      PROVE  ClosedInv'
  <2>2. NoneFulfils
    BY <1>9 DEF Draw, withdrawalVars, NoneFulfils, AllFulfilled, Stored, DrawOn
  <2>3. UNCHANGED <<useTransactions, crashes>>
    BY <1>9 DEF Draw, DrawOn
  <2>4. \A u \in Requests :
          requestStatus'[u] = "FULFILLED" <=> requestStatus[u] = "FULFILLED"
    BY <1>9 DEF Draw, withdrawalVars, DrawOn
  <2>5. \A v \in Workers : /\ jobs'[v].pc = "close" => jobs'[v] = jobs[v]
                           /\ jobs[v].pc \in {"refresh", "close"} => jobs'[v] = jobs[v]
    BY <1>9, DrawMoves DEF Idle
  <2> QED
    BY <2>2, <2>3, <2>4, <2>5, StaysClosed
<1>10. ASSUME NEW w \in Workers, NEW r \in Rows, DrawLost(w, r)
       PROVE  ClosedInv'
  <2>2. NoneFulfils
    BY <1>10 DEF DrawLost, withdrawalVars, NoneFulfils, AllFulfilled, Stored
  <2>3. UNCHANGED <<useTransactions, crashes>>
    BY <1>10 DEF DrawLost
  <2>4. \A u \in Requests :
          requestStatus'[u] = "FULFILLED" <=> requestStatus[u] = "FULFILLED"
    BY <1>10 DEF DrawLost, withdrawalVars
  <2>5. \A v \in Workers : /\ jobs'[v].pc = "close" => jobs'[v] = jobs[v]
                           /\ jobs[v].pc \in {"refresh", "close"} => jobs'[v] = jobs[v]
    BY <1>10, DrawLostMoves DEF Idle
  <2> QED
    BY <2>2, <2>3, <2>4, <2>5, StaysClosed
<1>11. ASSUME NEW w \in Workers, NEW r \in Rows, ReleaseSlice(w, r)
       PROVE  ClosedInv'
  <2>2. NoneFulfils
    BY <1>11 DEF ReleaseSlice, withdrawalVars, NoneFulfils, AllFulfilled, Stored
  <2>3. UNCHANGED <<useTransactions, crashes>>
    BY <1>11 DEF ReleaseSlice
  <2>4. \A u \in Requests :
          requestStatus'[u] = "FULFILLED" <=> requestStatus[u] = "FULFILLED"
    BY <1>11 DEF ReleaseSlice, withdrawalVars
  <2>5. \A v \in Workers : /\ jobs'[v].pc = "close" => jobs'[v] = jobs[v]
                           /\ jobs[v].pc \in {"refresh", "close"} => jobs'[v] = jobs[v]
    BY <1>11, ReleaseSliceMoves DEF Idle
  <2> QED
    BY <2>2, <2>3, <2>4, <2>5, StaysClosed
<1>12. ASSUME NEW w \in Workers, NEW q \in Requests, InsertRequest(w, q)
       PROVE  ClosedInv'
  <2>2. NoneFulfils
    BY <1>12, InsertRequestStores, NoneIsNoStatus
    DEF NoneFulfils, AllFulfilled, Stored
  <2>3. UNCHANGED <<useTransactions, crashes>>
    BY <1>12 DEF InsertRequest
  <2>4. \A u \in Requests :
          requestStatus'[u] = "FULFILLED" <=> requestStatus[u] = "FULFILLED"
    BY <1>12, InsertRequestStores, NoneIsNoStatus
  <2>5. \A v \in Workers : /\ jobs'[v].pc = "close" => jobs'[v] = jobs[v]
                           /\ jobs[v].pc \in {"refresh", "close"} => jobs'[v] = jobs[v]
    BY <1>12, InsertRequestMoves DEF Idle
  <2> QED
    BY <2>2, <2>3, <2>4, <2>5, StaysClosed
<1>13. ASSUME NEW w \in Workers, NEW q \in Requests, RequestInTransaction(w, q)
       PROVE  ClosedInv'
  <2>2. NoneFulfils
    BY <1>13, RequestInTransactionStores, NoneIsNoStatus
    DEF NoneFulfils, AllFulfilled, Stored
  <2>3. UNCHANGED <<useTransactions, crashes>>
    BY <1>13 DEF RequestInTransaction
  <2>4. \A u \in Requests :
          requestStatus'[u] = "FULFILLED" <=> requestStatus[u] = "FULFILLED"
    BY <1>13, RequestInTransactionStores, NoneIsNoStatus
  <2>5. \A v \in Workers : /\ jobs'[v].pc = "close" => jobs'[v] = jobs[v]
                           /\ jobs[v].pc \in {"refresh", "close"} => jobs'[v] = jobs[v]
    BY <1>13, RequestInTransactionMoves DEF Idle
  <2> QED
    BY <2>2, <2>3, <2>4, <2>5, StaysClosed
<1>14. ASSUME NEW w \in Workers, NEW p \in Parties, InsertPortion(w, p)
       PROVE  ClosedInv'
  <2>1. PICK one \in Requests :
          /\ portionStatus'[one][p] = "PENDING"
          /\ \A v \in Requests, x \in Parties :
               v # one => portionStatus'[v][x] = portionStatus[v][x]
    BY <1>14, InsertPortionStores
  <2>2. NoneFulfils
    BY <2>1, NoneIsNoStatus DEF NoneFulfils, AllFulfilled, Stored
  <2>3. UNCHANGED <<useTransactions, crashes>>
    BY <1>14 DEF InsertPortion
  <2>4. \A u \in Requests :
          requestStatus'[u] = "FULFILLED" <=> requestStatus[u] = "FULFILLED"
    BY <1>14, InsertPortionStores, NoneIsNoStatus
  <2>5. \A v \in Workers : /\ jobs'[v].pc = "close" => jobs'[v] = jobs[v]
                           /\ jobs[v].pc \in {"refresh", "close"} => jobs'[v] = jobs[v]
    BY <1>14, InsertPortionMoves DEF Idle
  <2> QED
    BY <2>2, <2>3, <2>4, <2>5, StaysClosed
<1>15. ASSUME NEW w \in Workers, CancelRefused(w)
       PROVE  ClosedInv'
  <2>2. NoneFulfils
    BY <1>15 DEF CancelRefused, withdrawalVars, NoneFulfils, AllFulfilled, Stored
  <2>3. UNCHANGED <<useTransactions, crashes>>
    BY <1>15 DEF CancelRefused
  <2>4. \A u \in Requests :
          requestStatus'[u] = "FULFILLED" <=> requestStatus[u] = "FULFILLED"
    BY <1>15 DEF CancelRefused, withdrawalVars
  <2>5. \A v \in Workers : /\ jobs'[v].pc = "close" => jobs'[v] = jobs[v]
                           /\ jobs[v].pc \in {"refresh", "close"} => jobs'[v] = jobs[v]
    BY <1>15, CancelRefusedMoves DEF Idle
  <2> QED
    BY <2>2, <2>3, <2>4, <2>5, StaysClosed
<1>16. ASSUME NEW w \in Workers, CancelRead(w)
       PROVE  ClosedInv'
  <2>2. NoneFulfils
    BY <1>16 DEF CancelRead, withdrawalVars, NoneFulfils, AllFulfilled, Stored
  <2>3. UNCHANGED <<useTransactions, crashes>>
    BY <1>16 DEF CancelRead
  <2>4. \A u \in Requests :
          requestStatus'[u] = "FULFILLED" <=> requestStatus[u] = "FULFILLED"
    BY <1>16 DEF CancelRead, withdrawalVars
  <2>5. \A v \in Workers : /\ jobs'[v].pc = "close" => jobs'[v] = jobs[v]
                           /\ jobs[v].pc \in {"refresh", "close"} => jobs'[v] = jobs[v]
    BY <1>16, CancelReadMoves DEF Idle
  <2> QED
    BY <2>2, <2>3, <2>4, <2>5, StaysClosed
<1>17. ASSUME NEW w \in Workers, Unmark(w)
       PROVE  ClosedInv'
  <2>2. NoneFulfils
    BY <1>17 DEF Unmark, withdrawalVars, NoneFulfils, AllFulfilled, Stored
  <2>3. UNCHANGED <<useTransactions, crashes>>
    BY <1>17 DEF Unmark
  <2>4. \A u \in Requests :
          requestStatus'[u] = "FULFILLED" <=> requestStatus[u] = "FULFILLED"
    BY <1>17 DEF Unmark, withdrawalVars
  <2>5. \A v \in Workers : /\ jobs'[v].pc = "close" => jobs'[v] = jobs[v]
                           /\ jobs[v].pc \in {"refresh", "close"} => jobs'[v] = jobs[v]
    BY <1>17, UnmarkMoves DEF Idle
  <2> QED
    BY <2>2, <2>3, <2>4, <2>5, StaysClosed
<1>18. ASSUME NEW w \in Workers, CancelPortions(w)
       PROVE  ClosedInv'
  <2>2. NoneFulfils
    BY <1>18, CancelPortionsStores, NoneIsNoStatus
    DEF NoneFulfils, AllFulfilled, Stored
  <2>3. UNCHANGED <<useTransactions, crashes>>
    BY <1>18 DEF CancelPortions
  <2>4. \A u \in Requests :
          requestStatus'[u] = "FULFILLED" <=> requestStatus[u] = "FULFILLED"
    BY <1>18, CancelPortionsStores, NoneIsNoStatus
  <2>5. \A v \in Workers : /\ jobs'[v].pc = "close" => jobs'[v] = jobs[v]
                           /\ jobs[v].pc \in {"refresh", "close"} => jobs'[v] = jobs[v]
    BY <1>18, CancelPortionsMoves DEF Idle
  <2> QED
    BY <2>2, <2>3, <2>4, <2>5, StaysClosed
<1>19. ASSUME NEW w \in Workers, CancelRequest(w)
       PROVE  ClosedInv'
  <2>2. NoneFulfils
    BY <1>19, CancelRequestStores, NoneIsNoStatus
    DEF NoneFulfils, AllFulfilled, Stored
  <2>3. UNCHANGED <<useTransactions, crashes>>
    BY <1>19 DEF CancelRequest
  <2>4. \A u \in Requests :
          requestStatus'[u] = "FULFILLED" <=> requestStatus[u] = "FULFILLED"
    BY <1>19, CancelRequestStores, NoneIsNoStatus
  <2>5. \A v \in Workers : /\ jobs'[v].pc = "close" => jobs'[v] = jobs[v]
                           /\ jobs[v].pc \in {"refresh", "close"} => jobs'[v] = jobs[v]
    BY <1>19, CancelRequestMoves DEF Idle
  <2> QED
    BY <2>2, <2>3, <2>4, <2>5, StaysClosed
<1>20. ASSUME NEW w \in Workers, Debit(w)
       PROVE  ClosedInv'
  <2>2. NoneFulfils
    BY <1>20 DEF Debit, withdrawalVars, NoneFulfils, AllFulfilled, Stored
  <2>3. UNCHANGED <<useTransactions, crashes>>
    BY <1>20 DEF Debit
  <2>4. \A u \in Requests :
          requestStatus'[u] = "FULFILLED" <=> requestStatus[u] = "FULFILLED"
    BY <1>20 DEF Debit, withdrawalVars
  <2>5. \A v \in Workers : /\ jobs'[v].pc = "close" => jobs'[v] = jobs[v]
                           /\ jobs[v].pc \in {"refresh", "close"} => jobs'[v] = jobs[v]
    BY <1>20, DebitMoves DEF Idle
  <2> QED
    BY <2>2, <2>3, <2>4, <2>5, StaysClosed
<1>21. ASSUME NEW w \in Workers, DebitRefused(w)
       PROVE  ClosedInv'
  <2>2. NoneFulfils
    BY <1>21 DEF DebitRefused, withdrawalVars, NoneFulfils, AllFulfilled, Stored
  <2>3. UNCHANGED <<useTransactions, crashes>>
    BY <1>21 DEF DebitRefused
  <2>4. \A u \in Requests :
          requestStatus'[u] = "FULFILLED" <=> requestStatus[u] = "FULFILLED"
    BY <1>21 DEF DebitRefused, withdrawalVars
  <2>5. \A v \in Workers : /\ jobs'[v].pc = "close" => jobs'[v] = jobs[v]
                           /\ jobs[v].pc \in {"refresh", "close"} => jobs'[v] = jobs[v]
    BY <1>21, DebitRefusedMoves DEF Idle
  <2> QED
    BY <2>2, <2>3, <2>4, <2>5, StaysClosed
<1>22. ASSUME NEW w \in Workers, Credit(w)
       PROVE  ClosedInv'
  <2>2. NoneFulfils
    BY <1>22 DEF Credit, withdrawalVars, NoneFulfils, AllFulfilled, Stored
  <2>3. UNCHANGED <<useTransactions, crashes>>
    BY <1>22 DEF Credit
  <2>4. \A u \in Requests :
          requestStatus'[u] = "FULFILLED" <=> requestStatus[u] = "FULFILLED"
    BY <1>22 DEF Credit, withdrawalVars
  <2>5. \A v \in Workers : /\ jobs'[v].pc = "close" => jobs'[v] = jobs[v]
                           /\ jobs[v].pc \in {"refresh", "close"} => jobs'[v] = jobs[v]
    BY <1>22, CreditMoves DEF Idle
  <2> QED
    BY <2>2, <2>3, <2>4, <2>5, StaysClosed
<1>23. ASSUME NEW w \in Workers, Refresh(w)
       PROVE  ClosedInv'
  <2>1. PICK q \in Requests : q = jobs[w].q
    BY <1>23, RefreshMoves DEF TypeInv, JobsInv, JobKnows, ConfirmingPcs
  <2>2. /\ jobs[w].pc = "refresh" /\ \A v \in Workers \ {w} : jobs'[v] = jobs[v]
        /\ IF AllFulfilled(q) THEN jobs'[w].pc = "close" /\ jobs'[w].q = q
                              ELSE jobs'[w].pc = "idle"
    BY <1>23, <2>1, RefreshMoves DEF Idle
  <2>3. UNCHANGED <<useTransactions, crashes, requestStatus, portionStatus>>
    BY <1>23 DEF Refresh, withdrawalVars
  <2>4. \A u \in Requests : AllFulfilled(u)' <=> AllFulfilled(u)
    BY <2>3 DEF AllFulfilled, Stored
  <2>5. ASSUME NEW v \in Workers, jobs'[v].pc = "close"
        PROVE  AllFulfilled(jobs[v].q)' /\ jobs'[v].q = jobs[v].q
    <3>1. CASE v = w
      BY <2>1, <2>2, <2>4, <2>5, <3>1
    <3>2. CASE v # w
      <4>1. jobs'[v] = jobs[v] /\ jobs[v].q \in Requests
        BY <2>2, <2>5, <3>2 DEF TypeInv, JobsInv, JobKnows, ConfirmingPcs
      <4> QED
        BY <2>4, <2>5, <4>1 DEF ClosedInv
    <3> QED
      BY <3>1, <3>2
  <2>6. \A u \in Requests : Refreshing(u) /\ AllFulfilled(u) => Refreshing(u)'
    BY <2>1, <2>2 DEF Refreshing
  <2> QED
    BY <2>3, <2>4, <2>5, <2>6 DEF ClosedInv
<1>24. ASSUME NEW w \in Workers, Close(w)
       PROVE  ClosedInv'
  <2>1. PICK q \in Requests :
          /\ q = jobs[w].q
          /\ requestStatus'[q] = IF requestStatus[q] = "PENDING" THEN "FULFILLED"
                                                               ELSE requestStatus[q]
          /\ \A u \in Requests \ {q} : requestStatus'[u] = requestStatus[u]
          /\ portionStatus' = portionStatus
    BY <1>24, CloseStores
  <2>2. /\ jobs[w].pc = "close" /\ \A v \in Workers \ {w} : jobs'[v] = jobs[v]
        /\ jobs'[w].pc = "idle"
    BY <1>24, CloseMoves DEF Idle
  <2>3. UNCHANGED <<useTransactions, crashes>>
    BY <1>24 DEF Close
  <2>4. \A u \in Requests : AllFulfilled(u)' <=> AllFulfilled(u)
    BY <2>1 DEF AllFulfilled, Stored
  <2>5. AllFulfilled(q) /\ requestStatus'[q] = "FULFILLED"
    <3>1. AllFulfilled(q)
      BY <2>1, <2>2 DEF ClosedInv
    <3> QED
      BY <2>1, <3>1, FulfilledIs
  <2>6. \A v \in Workers : jobs'[v].pc = "close" =>
          AllFulfilled(jobs[v].q)' /\ jobs'[v].q = jobs[v].q
    <3>1. \A v \in Workers :
            jobs'[v].pc = "close" => jobs'[v] = jobs[v] /\ jobs[v].q \in Requests
      BY <2>2 DEF TypeInv, JobsInv, JobKnows, ConfirmingPcs
    <3> QED
      BY <2>4, <3>1 DEF ClosedInv
  <2>7. \A u \in Requests \ {q} : Refreshing(u) => Refreshing(u)'
    BY <2>1, <2>2 DEF Refreshing
  <2> QED
    BY <2>1, <2>3, <2>4, <2>5, <2>6, <2>7 DEF ClosedInv
<1>25. ASSUME NEW q \in Requests, NEW p \in Parties,
              SubmitPlatformPortionPaymentProof(q, p)
       PROVE  ClosedInv'
  <2>1. PICK from, to \in {"PENDING", "PARTY_PAID", "DISPUTED"} : Answered(q, p, from, to)
    BY <1>25, HandshakeAnswers
  <2>2. NoneFulfils
    BY <2>1, NoneIsNoStatus DEF Answered, NoneFulfils, AllFulfilled, Stored
  <2>3. UNCHANGED <<useTransactions, crashes>>
    BY <1>25 DEF SubmitPlatformPortionPaymentProof
  <2>4. \A u \in Requests :
          requestStatus'[u] = "FULFILLED" <=> requestStatus[u] = "FULFILLED"
    BY <1>25 DEF SubmitPlatformPortionPaymentProof, withdrawalVars
  <2>5. \A v \in Workers : /\ jobs'[v].pc = "close" => jobs'[v] = jobs[v]
                           /\ jobs[v].pc \in {"refresh", "close"} => jobs'[v] = jobs[v]
    BY <1>25 DEF SubmitPlatformPortionPaymentProof
  <2> QED
    BY <2>2, <2>3, <2>4, <2>5, StaysClosed
<1>26. ASSUME NEW q \in Requests, NEW p \in Parties,
              DisputePlatformPortionReceipt(q, p)
       PROVE  ClosedInv'
  <2>1. PICK from, to \in {"PENDING", "PARTY_PAID", "DISPUTED"} : Answered(q, p, from, to)
    BY <1>26, HandshakeAnswers
  <2>2. NoneFulfils
    BY <2>1, NoneIsNoStatus DEF Answered, NoneFulfils, AllFulfilled, Stored
  <2>3. UNCHANGED <<useTransactions, crashes>>
    BY <1>26 DEF DisputePlatformPortionReceipt
  <2>4. \A u \in Requests :
          requestStatus'[u] = "FULFILLED" <=> requestStatus[u] = "FULFILLED"
    BY <1>26 DEF DisputePlatformPortionReceipt, withdrawalVars
  <2>5. \A v \in Workers : /\ jobs'[v].pc = "close" => jobs'[v] = jobs[v]
                           /\ jobs[v].pc \in {"refresh", "close"} => jobs'[v] = jobs[v]
    BY <1>26 DEF DisputePlatformPortionReceipt
  <2> QED
    BY <2>2, <2>3, <2>4, <2>5, StaysClosed
<1>27. ASSUME NEW q \in Requests, NEW p \in Parties, RetryPortion(q, p)
       PROVE  ClosedInv'
  <2>1. PICK from, to \in {"PENDING", "PARTY_PAID", "DISPUTED"} : Answered(q, p, from, to)
    BY <1>27, HandshakeAnswers
  <2>2. NoneFulfils
    BY <2>1, NoneIsNoStatus DEF Answered, NoneFulfils, AllFulfilled, Stored
  <2>3. UNCHANGED <<useTransactions, crashes>>
    BY <1>27 DEF RetryPortion
  <2>4. \A u \in Requests :
          requestStatus'[u] = "FULFILLED" <=> requestStatus[u] = "FULFILLED"
    BY <1>27 DEF RetryPortion, withdrawalVars
  <2>5. \A v \in Workers : /\ jobs'[v].pc = "close" => jobs'[v] = jobs[v]
                           /\ jobs[v].pc \in {"refresh", "close"} => jobs'[v] = jobs[v]
    BY <1>27 DEF RetryPortion
  <2> QED
    BY <2>2, <2>3, <2>4, <2>5, StaysClosed
<1>28. ASSUME NEW w \in Workers, NEW q \in Requests, NEW p \in Parties,
              ConfirmInTransaction(w, q, p)
       PROVE  ClosedInv'
  <2>1. PICK from \in {"PARTY_PAID", "DISPUTED"} : Answered(q, p, from, "FULFILLED")
    BY <1>28, ConfirmAnswers
  <2>2. Refreshing(q)' /\ \A u \in Requests : Refreshing(u) => Refreshing(u)'
    BY <1>28, ConfirmInTransactionMoves DEF Refreshing
  <2>3. \A u \in Requests \ {q} : AllFulfilled(u)' => AllFulfilled(u)
    BY <2>1 DEF Answered, AllFulfilled, Stored
  <2>4. UNCHANGED <<useTransactions, crashes, requestStatus>>
    BY <1>28 DEF ConfirmInTransaction
  <2>5. \A v \in Workers : jobs'[v].pc = "close" =>
          jobs'[v] = jobs[v] /\ jobs[v].q \in Requests
    BY <1>28, ConfirmInTransactionMoves DEF TypeInv, JobsInv, JobKnows, ConfirmingPcs
  <2>6. \A v \in Workers : jobs'[v].pc = "close" => AllFulfilled(jobs[v].q)'
    BY <2>5 DEF ClosedInv, FulfilledStays
  <2>7. \A u \in Requests : requestStatus'[u] = "FULFILLED" => AllFulfilled(u)'
    BY <2>4 DEF ClosedInv, FulfilledStays
  <2> QED
    BY <2>2, <2>3, <2>4, <2>5, <2>6, <2>7 DEF ClosedInv
<1>29. ASSUME NEW w \in Workers, NEW q \in Requests, NEW p \in Parties,
              ConfirmClaim(w, q, p)
       PROVE  ClosedInv'
  <2>1. PICK from \in {"PARTY_PAID", "DISPUTED"} : Answered(q, p, from, "FULFILLED")
    BY <1>29, ConfirmAnswers
  <2>2. ~useTransactions
    BY <1>29 DEF ConfirmClaim
  <2>3. \A u \in Requests \ {q} : AllFulfilled(u)' => AllFulfilled(u)
    BY <2>1 DEF Answered, AllFulfilled, Stored
  <2>4. UNCHANGED <<useTransactions, crashes, requestStatus>>
    BY <1>29 DEF ConfirmClaim
  <2>5. \A v \in Workers : jobs'[v].pc = "close" =>
          jobs'[v] = jobs[v] /\ jobs[v].q \in Requests
    BY <1>29, ConfirmClaimMoves DEF TypeInv, JobsInv, JobKnows, ConfirmingPcs
  <2>6. \A v \in Workers : jobs'[v].pc = "close" => AllFulfilled(jobs[v].q)'
    BY <2>5 DEF ClosedInv, FulfilledStays
  <2>7. \A u \in Requests : requestStatus'[u] = "FULFILLED" => AllFulfilled(u)'
    BY <2>4 DEF ClosedInv, FulfilledStays
  <2> QED
    BY <2>2, <2>3, <2>4, <2>5, <2>6, <2>7 DEF ClosedInv
<1>30. ASSUME Crash
       PROVE  ClosedInv'
  <2>1. crashes' # 0 /\ UNCHANGED <<requestStatus, portionStatus>>
    BY <1>30 DEF Crash, withdrawalVars, TypeInv
  <2>2. \A v \in Workers : jobs'[v].pc # "close"
    BY <1>30 DEF Crash, Idle
  <2> QED
    BY <2>1, <2>2 DEF ClosedInv, AllFulfilled, Stored
<1>31. CASE UNCHANGED vars
  <2>1. NoneFulfils
    BY <1>31 DEF vars, withdrawalVars, NoneFulfils, AllFulfilled, Stored
  <2> QED
    BY <1>31, <2>1, StaysClosed DEF vars, withdrawalVars
<1> QED
  BY <1>1, <1>2, <1>3, <1>4, <1>5, <1>6, <1>7, <1>8, <1>9, <1>10, <1>11,
     <1>12, <1>13, <1>14, <1>15, <1>16, <1>17, <1>18, <1>19, <1>20, <1>21,
     <1>22, <1>23, <1>24, <1>25, <1>26, <1>27, <1>28, <1>29, <1>30, <1>31
  DEF Next, JobStep, Handshake

LEMMA ClosingInit == WithdrawalAssumption /\ Init => PlannedInv /\ AskedInv /\ ClosedInv
<1> SUFFICES ASSUME WithdrawalAssumption, Init PROVE PlannedInv /\ AskedInv /\ ClosedInv
  OBVIOUS
<1>1. TypeInv
  BY TypeInit
<1>2. \A w \in Workers : jobs[w].pc = "idle"
  BY DEF Init, Idle
<1>3. \A q \in Requests : requestStatus[q] = None /\ ~AllFulfilled(q)
  BY DEF Init, AllFulfilled, Stored
<1>4. None # "FULFILLED"
  BY <1>1, NoneIsNoStatus
<1> QED
  BY <1>2, <1>3, <1>4 DEF PlannedInv, AskedInv, ClosedInv

LEMMA ClosingGives ==
  TypeInv /\ PromptInv /\ AskedInv /\ ClosedInv => ClosesInFull
<1> SUFFICES ASSUME TypeInv, PromptInv, AskedInv, ClosedInv, NEW q \in Requests
             PROVE  /\ requestStatus[q] = "FULFILLED" =>
                         /\ AllFulfilled(q)
                         /\ useTransactions \/ crashes = 0 => Total(slices[q], Rows) = asked[q]
                    /\ useTransactions /\ crashes = 0 /\ AllFulfilled(q)
                       /\ (\A w \in Workers : jobs[w].q # q)
                         => requestStatus[q] = "FULFILLED"
  BY DEF ClosesInFull
<1>1. requestStatus[q] = "FULFILLED" => AllFulfilled(q)
  BY DEF ClosedInv
<1>2. AllFulfilled(q) => ~Storing(q)
  BY FulfilledIs
<1>3. requestStatus[q] = "FULFILLED" => requestStatus[q] # None
  BY NoneIsNoStatus
<1>4. requestStatus[q] = "FULFILLED" /\ (useTransactions \/ crashes = 0)
        => Total(slices[q], Rows) = asked[q]
  BY <1>1, <1>2, <1>3 DEF AskedInv
<1>5. (\A w \in Workers : jobs[w].q # q) => ~Refreshing(q)
  BY DEF Refreshing
<1> QED
  BY <1>1, <1>4, <1>5 DEF ClosedInv

\* For every number of rows, parties, requests and handlers, under the same
\* assumption: a request that is FULFILLED has every portion settled, and these
\* add up to what was asked for; one whose portions are settled does not stay
\* PENDING once nobody works on it (with transactions, and no stop in between).
THEOREM RequestsCloseInFull ==
  WithdrawalAssumption /\ PromptRequests /\ Spec => []ClosesInFull
<1> DEFINE Inv == TypeInv /\ PromptInv /\ PlannedInv /\ AskedInv /\ ClosedInv
<1>1. WithdrawalAssumption /\ PromptRequests /\ Init => Inv
  BY TypeInit, PromptInit, ClosingInit
<1>2. Inv /\ [Next]_vars => Inv'
  BY TypeStep, PromptStep, PlannedStep, AskedStep, ClosedStep
<1>3. Inv => ClosesInFull
  BY ClosingGives
<1> QED
  BY <1>1, <1>2, <1>3, PTL DEF Spec

=============================================================================
