------------------------- MODULE PlatformWithdrawal -------------------------
(***************************************************************************)
(* The platform cashes out what it earned: adminWithdrawal.service.ts and  *)
(* dmcAllocation.service.ts.  Each completed pay-out leaves an allocation  *)
(* row that names the party the share came from.  A withdrawal draws on    *)
(* these rows, oldest first, and asks every source party for its portion;  *)
(* a portion leaves the pool when its payment is confirmed.                *)
(*                                                                         *)
(* Handlers are jobs, as in PayoutWorkflow.  Left out: the text of proofs  *)
(* and disputes, audit rows, and inserts the database itself refuses.      *)
(***************************************************************************)
EXTENDS Totals, Deployment

CONSTANTS
  Rows,            \* allocation rows, numbered in the order they are created
  Requests,        \* bound: withdrawals ever requested
  Workers,         \* requests being served at a time
  Earned,          \* Earned[r]: amountPaise of row r
  Source,          \* Source[r]: sourcePartyId of row r
  Amounts,         \* what admin may ask for
  Commissions,     \* what captains of pay-ins may be paid from the pool
  OpeningPool,     \* poolBalancePaise at the start
  PromptRequests   \* timing assumption, see Undisturbed

RowStatuses == {"ABSENT", "AVAILABLE", "PARTIALLY_USED", "SETTLED"}
REQUEST_STATUSES == {"PENDING", "FULFILLED", "CANCELLED"}
WITHDRAWAL_STATUSES == {"PENDING", "PARTY_PAID", "FULFILLED", "DISPUTED", "CANCELLED"}

WithdrawalAssumption ==
  /\ Rows \subseteq Nat \ {0} /\ IsFiniteSet(Rows)
  /\ IsFiniteSet(Requests) /\ IsFiniteSet(Workers)
  /\ None \notin Requests \cup Parties \cup REQUEST_STATUSES \cup WITHDRAWAL_STATUSES
  /\ Earned \in [Rows -> Nat \ {0}]
  /\ Source \in [Rows -> Parties]
  /\ Amounts \subseteq Nat \ {0}
  /\ Commissions \subseteq Nat \ {0}
  /\ OpeningPool \in Nat
  /\ PromptRequests \in BOOLEAN
  /\ MaxCrashes \in Nat

VARIABLES
  \* the DMCAllocation rows; version is __v, which optimisticConcurrency tests
  used, rowStatus, version,
  \* the AdminWithdrawalRequest and its AdminWithdrawalPortions, one per party
  requestStatus, portionStatus,
  asked,                    \* amountPaise of the request
  slices,                   \* slices[q][r]: what q's portion drew from row r
  pool, partyDmc,           \* poolBalancePaise; credits to Party.dmcBalancePaise
  jobs, crashes

allocationVars == <<used, rowStatus, version>>
withdrawalVars == <<requestStatus, portionStatus, asked, slices>>
moneyVars == <<pool, partyDmc>>
vars == <<useTransactions, allocationVars, withdrawalVars, moneyVars, jobs, crashes>>

\* availableAmountPaise: every write moves it against usedAmountPaise.
Available(r) == Earned[r] - used[r]

NoSlices == [r \in Rows |-> 0]

RowsOf(p) == {r \in Rows : Source[r] = p}

\* amountPaise of the portion
PortionAmount(q, p) == Total(slices[q], RowsOf(p))

-----------------------------------------------------------------------------
(* Jobs *)

CreatingPcs == {"consume", "draw", "mark", "insert", "portions"}
CancellingPcs == {"readPortions", "release", "unmark", "cancelPortions", "cancelRequest"}
ConfirmingPcs == {"debit", "credit", "refresh", "close"}
Pcs == {"idle"} \cup CreatingPcs \cup CancellingPcs \cup ConfirmingPcs

\* plan: what to draw, or what is left to give back; row, left and ver: the
\* row just written and the copy that write returned.
Idle == [pc |-> "idle", q |-> None, p |-> None, amount |-> 0, plan |-> NoSlices,
         row |-> 0, left |-> 0, ver |-> 0]

At(w, p) == jobs[w].pc = p

Begin(w, job) == At(w, "idle") /\ jobs' = [jobs EXCEPT ![w] = job]
Goto(w, p)    == jobs' = [jobs EXCEPT ![w].pc = p]
Finish(w)     == jobs' = [jobs EXCEPT ![w] = Idle]

(***************************************************************************)
(* If PromptRequests, nobody acts on a withdrawal while its portions are   *)
(* being stored, and a cancellation runs undisturbed: it does not overlap  *)
(* with another, with a request that is drawing, with a party's or admin's *)
(* answer on a portion, or with the process stopping.  Each takes          *)
(* milliseconds and one admin presses the buttons; the code does not       *)
(* enforce it.                                                             *)
(***************************************************************************)
Running(pcs) == \E w \in Workers : jobs[w].pc \in pcs

Undisturbed(q) ==
  PromptRequests =>
    /\ ~Running(CancellingPcs)
    /\ \A w \in Workers : jobs[w].pc = "portions" => jobs[w].q # q

-----------------------------------------------------------------------------
Init ==
  /\ useTransactions \in BOOLEAN
  /\ used = [r \in Rows |-> 0]
  /\ rowStatus = [r \in Rows |-> "ABSENT"]
  /\ version = [r \in Rows |-> 0]
  /\ requestStatus = [q \in Requests |-> None]
  /\ portionStatus = [q \in Requests |-> [p \in Parties |-> None]]
  /\ asked = [q \in Requests |-> 0]
  /\ slices = [q \in Requests |-> NoSlices]
  /\ pool = OpeningPool
  /\ partyDmc = [p \in Parties |-> 0]
  /\ jobs = [w \in Workers |-> Idle]
  /\ crashes = 0

\* A pay-out completes: its charge, less what its captain was paid, is in the
\* pool and the platform's allocation is inserted.
CreateAllocation(r) ==
  /\ rowStatus[r] = "ABSENT"
  /\ \A s \in Rows : s < r => rowStatus[s] # "ABSENT"
  /\ rowStatus' = [rowStatus EXCEPT ![r] = "AVAILABLE"]
  /\ pool' = pool + Earned[r]
  /\ UNCHANGED <<useTransactions, used, version, withdrawalVars, partyDmc, jobs, crashes>>

\* payCommissionFromPool: the other way out of the pool, which knows nothing
\* of allocations.
PayCommissionFromPool(amount) ==
  /\ pool >= amount
  /\ pool' = pool - amount
  /\ UNCHANGED <<useTransactions, allocationVars, withdrawalVars, partyDmc, jobs, crashes>>

-----------------------------------------------------------------------------
(* consumeAllocationsFifo *)

Least(m, n) == IF m <= n THEN m ELSE n

\* What find(status # SETTLED) shows to be available.
Candidates ==
  [r \in Rows |-> IF rowStatus[r] \in {"ABSENT", "SETTLED"} THEN 0 ELSE Available(r)]

\* The draw on each row when amount is taken oldest row first.
FifoPlan(seen, amount) ==
  [r \in Rows |->
     LET before == Total(seen, {s \in Rows : s < r})
     IN IF before >= amount THEN 0 ELSE Least(seen[r], amount - before)]

StatusAfterDraw(left) == IF left = 0 THEN "SETTLED" ELSE "PARTIALLY_USED"

\* The next row the plan draws on.
NextDraw(w, r) ==
  /\ At(w, "draw") /\ jobs[w].plan[r] > 0 /\ r > jobs[w].row
  /\ \A s \in Rows : s < r /\ s > jobs[w].row => jobs[w].plan[s] = 0

DrawOn(w, r) ==
  LET draw == jobs[w].plan[r] IN
  /\ used' = [used EXCEPT ![r] = @ + draw]
  /\ jobs' = [jobs EXCEPT ![w].pc = "mark", ![w].row = r, ![w].left = Available(r) - draw,
                          ![w].ver = version[r]]
  /\ UNCHANGED <<useTransactions, rowStatus, version, withdrawalVars, moneyVars, crashes>>

\* Fault: the draw trusts the copy.
DrawUntested(w, r) == NextDraw(w, r) /\ DrawOn(w, r)

\* One conditional draw.
Draw(w, r) == NextDraw(w, r) /\ Available(r) >= jobs[w].plan[r] /\ DrawOn(w, r)

\* The pending test; nothing stops a second request that passes it too.
RequestPlatformWithdrawal(w, amount) ==
  /\ PromptRequests => ~Running(CancellingPcs)
  /\ \A q \in Requests : requestStatus[q] # "PENDING"
  /\ \E q \in Requests : requestStatus[q] = None
  /\ Begin(w, [Idle EXCEPT !.pc = "consume", !.amount = amount])
  /\ UNCHANGED <<useTransactions, allocationVars, withdrawalVars, moneyVars, crashes>>

\* Not enough is available.
Refuse(w) ==
  /\ At(w, "consume")
  /\ Total(Candidates, Rows) < jobs[w].amount
  /\ Finish(w)
  /\ UNCHANGED <<useTransactions, allocationVars, withdrawalVars, moneyVars, crashes>>

ReadCandidates(w) ==
  /\ At(w, "consume") /\ ~useTransactions
  /\ Total(Candidates, Rows) >= jobs[w].amount
  /\ jobs' = [jobs EXCEPT ![w].pc = "draw",
                          ![w].plan = FifoPlan(Candidates, jobs[w].amount)]
  /\ UNCHANGED <<useTransactions, allocationVars, withdrawalVars, moneyVars, crashes>>

\* Another request was faster.  The slices already drawn are lost: the caller
\* has not been given them to release.
DrawLost(w, r) ==
  /\ NextDraw(w, r)
  /\ Available(r) < jobs[w].plan[r]
  /\ Finish(w)
  /\ UNCHANGED <<useTransactions, allocationVars, withdrawalVars, moneyVars, crashes>>

\* save() of the copy: a status that has not changed is not written.
SaveStatus(r, status) ==
  /\ rowStatus' = [rowStatus EXCEPT ![r] = status]
  /\ version' = [version EXCEPT ![r] = IF rowStatus[r] = status THEN @ ELSE @ + 1]

Mark(w) ==
  LET r == jobs[w].row IN
  /\ At(w, "mark")
  /\ version[r] = jobs[w].ver
  /\ SaveStatus(r, StatusAfterDraw(jobs[w].left))
  /\ Goto(w, IF \E s \in Rows : s > r /\ jobs[w].plan[s] > 0 THEN "draw" ELSE "insert")
  /\ UNCHANGED <<useTransactions, used, withdrawalVars, moneyVars, crashes>>

\* VersionError: the draw stays.
MarkLost(w) ==
  /\ At(w, "mark")
  /\ version[jobs[w].row] # jobs[w].ver
  /\ Finish(w)
  /\ UNCHANGED <<useTransactions, allocationVars, withdrawalVars, moneyVars, crashes>>

-----------------------------------------------------------------------------
(* requestPlatformWithdrawal, once the slices are drawn *)

Drawing(draws) == {Source[r] : r \in {s \in Rows : draws[s] > 0}}

InsertRequest(w, q) ==
  /\ At(w, "insert") /\ requestStatus[q] = None
  /\ requestStatus' = [requestStatus EXCEPT ![q] = "PENDING"]
  /\ asked' = [asked EXCEPT ![q] = jobs[w].amount]
  /\ jobs' = [jobs EXCEPT ![w].pc = "portions", ![w].q = q]
  /\ UNCHANGED <<useTransactions, allocationVars, portionStatus, slices, moneyVars, crashes>>

\* The inserts of createPortions, in the order they reach the database.
InsertPortion(w, p) ==
  LET q == jobs[w].q
      rest == [r \in Rows |-> IF Source[r] = p THEN 0 ELSE jobs[w].plan[r]]
  IN /\ At(w, "portions") /\ p \in Drawing(jobs[w].plan)
     /\ portionStatus' = [portionStatus EXCEPT ![q][p] = "PENDING"]
     /\ slices' = [slices EXCEPT ![q] =
                     [r \in Rows |-> IF Source[r] = p THEN jobs[w].plan[r] ELSE @[r]]]
     /\ IF rest = NoSlices THEN Finish(w) ELSE jobs' = [jobs EXCEPT ![w].plan = rest]
     /\ UNCHANGED <<useTransactions, allocationVars, requestStatus, asked, moneyVars, crashes>>

\* The same in a transaction.
RequestInTransaction(w, q) ==
  LET plan == FifoPlan(Candidates, jobs[w].amount)
      Drawn(r) == plan[r] > 0
      after(r) == StatusAfterDraw(Available(r) - plan[r])
  IN /\ At(w, "consume") /\ useTransactions /\ requestStatus[q] = None
     /\ Total(Candidates, Rows) >= jobs[w].amount
     /\ used' = [r \in Rows |-> used[r] + plan[r]]
     /\ rowStatus' = [r \in Rows |-> IF Drawn(r) THEN after(r) ELSE rowStatus[r]]
     /\ version' = [r \in Rows |->
          IF Drawn(r) /\ after(r) # rowStatus[r] THEN version[r] + 1 ELSE version[r]]
     /\ requestStatus' = [requestStatus EXCEPT ![q] = "PENDING"]
     /\ asked' = [asked EXCEPT ![q] = jobs[w].amount]
     /\ portionStatus' = [portionStatus EXCEPT ![q] =
          [p \in Parties |-> IF p \in Drawing(plan) THEN "PENDING" ELSE None]]
     /\ slices' = [slices EXCEPT ![q] = plan]
     /\ Finish(w)
     /\ UNCHANGED <<useTransactions, moneyVars, crashes>>

-----------------------------------------------------------------------------
(* cancelPlatformWithdrawal and releaseAllocations: never a transaction *)

CancelPlatformWithdrawal(w, q) ==
  /\ PromptRequests => ~Running(CreatingPcs \cup CancellingPcs)
  /\ requestStatus[q] = "PENDING"
  /\ Begin(w, [Idle EXCEPT !.pc = "readPortions", !.q = q])
  /\ UNCHANGED <<useTransactions, allocationVars, withdrawalVars, moneyVars, crashes>>

\* A party has paid part of it: refused.
CancelRefused(w) ==
  /\ At(w, "readPortions")
  /\ \E p \in Parties : portionStatus[jobs[w].q][p] \notin {None, "PENDING"}
  /\ Finish(w)
  /\ UNCHANGED <<useTransactions, allocationVars, withdrawalVars, moneyVars, crashes>>

CancelRead(w) ==
  /\ At(w, "readPortions")
  /\ \A p \in Parties : portionStatus[jobs[w].q][p] \in {None, "PENDING"}
  /\ jobs' = [jobs EXCEPT
       ![w].plan = slices[jobs[w].q],
       ![w].pc = IF slices[jobs[w].q] = NoSlices THEN "cancelPortions" ELSE "release"]
  /\ UNCHANGED <<useTransactions, allocationVars, withdrawalVars, moneyVars, crashes>>

\* One slice, in the order the portions were returned.
ReleaseSlice(w, r) ==
  LET slice == jobs[w].plan[r] IN
  /\ At(w, "release") /\ slice > 0
  /\ used' = [used EXCEPT ![r] = @ - slice]
  /\ jobs' = [jobs EXCEPT ![w].pc = "unmark", ![w].plan[r] = 0, ![w].row = r,
                          ![w].left = used[r] - slice, ![w].ver = version[r]]
  /\ UNCHANGED <<useTransactions, rowStatus, version, withdrawalVars, moneyVars, crashes>>

AfterRelease(w) == IF jobs[w].plan = NoSlices THEN "cancelPortions" ELSE "release"

\* Fault: a row that was used up stays SETTLED.
UnmarkSkipped(w) ==
  /\ At(w, "unmark")
  /\ Goto(w, AfterRelease(w))
  /\ UNCHANGED <<useTransactions, allocationVars, withdrawalVars, moneyVars, crashes>>

\* save() validates usedAmountPaise too: it may not be negative.  When the save
\* is refused, what was released stays released and the rest does not follow.
Unmark(w) ==
  LET r == jobs[w].row IN
  /\ At(w, "unmark")
  /\ IF version[r] = jobs[w].ver /\ jobs[w].left >= 0
     THEN /\ SaveStatus(r, IF jobs[w].left = 0 THEN "AVAILABLE" ELSE "PARTIALLY_USED")
          /\ Goto(w, AfterRelease(w))
     ELSE Finish(w) /\ UNCHANGED <<rowStatus, version>>
  /\ UNCHANGED <<useTransactions, used, withdrawalVars, moneyVars, crashes>>

\* updateMany tests no status.
CancelPortions(w) ==
  LET q == jobs[w].q IN
  /\ At(w, "cancelPortions")
  /\ portionStatus' = [portionStatus EXCEPT ![q] =
       [p \in Parties |-> IF @[p] = None THEN None ELSE "CANCELLED"]]
  /\ Goto(w, "cancelRequest")
  /\ UNCHANGED <<useTransactions, allocationVars, requestStatus, asked, slices, moneyVars,
                 crashes>>

CancelRequest(w) ==
  LET q == jobs[w].q IN
  /\ At(w, "cancelRequest")
  /\ requestStatus' =
       [requestStatus EXCEPT ![q] = IF @ = "PENDING" THEN "CANCELLED" ELSE @]
  /\ Finish(w)
  /\ UNCHANGED <<useTransactions, allocationVars, portionStatus, asked, slices, moneyVars,
                 crashes>>

-----------------------------------------------------------------------------
(* The handshake on one portion *)

MovePortion(q, p, from, to) ==
  /\ Undisturbed(q)
  /\ portionStatus[q][p] = from
  /\ portionStatus' = [portionStatus EXCEPT ![q][p] = to]

SubmitPlatformPortionPaymentProof(q, p) ==
  /\ MovePortion(q, p, "PENDING", "PARTY_PAID")
  /\ UNCHANGED <<useTransactions, allocationVars, requestStatus, asked, slices, moneyVars,
                 jobs, crashes>>

DisputePlatformPortionReceipt(q, p) ==
  /\ MovePortion(q, p, "PARTY_PAID", "DISPUTED")
  /\ UNCHANGED <<useTransactions, allocationVars, requestStatus, asked, slices, moneyVars,
                 jobs, crashes>>

\* resolvePlatformPortionDispute, RETRY
RetryPortion(q, p) ==
  /\ MovePortion(q, p, "DISPUTED", "PENDING")
  /\ UNCHANGED <<useTransactions, allocationVars, requestStatus, asked, slices, moneyVars,
                 jobs, crashes>>

\* confirmPlatformPortionReceipt, or resolvePlatformPortionDispute with SETTLE
Confirmable == {"PARTY_PAID", "DISPUTED"}

\* Fault: the portion is confirmed on the strength of an earlier read.
ConfirmUnclaimed(w, q, p) ==
  /\ useTransactions
  /\ Undisturbed(q)
  /\ portionStatus[q][p] \in Confirmable \cup {"FULFILLED"}
  /\ pool >= PortionAmount(q, p)
  /\ portionStatus' = [portionStatus EXCEPT ![q][p] = "FULFILLED"]
  /\ pool' = pool - PortionAmount(q, p)
  /\ partyDmc' = [partyDmc EXCEPT ![p] = @ + PortionAmount(q, p)]
  /\ Begin(w, [Idle EXCEPT !.pc = "refresh", !.q = q])
  /\ UNCHANGED <<useTransactions, allocationVars, requestStatus, asked, slices, crashes>>

\* In a transaction, a pool that cannot cover the portion leaves it as it was.
ConfirmInTransaction(w, q, p) ==
  /\ useTransactions
  /\ \E from \in Confirmable : MovePortion(q, p, from, "FULFILLED")
  /\ pool >= PortionAmount(q, p)
  /\ pool' = pool - PortionAmount(q, p)
  /\ partyDmc' = [partyDmc EXCEPT ![p] = @ + PortionAmount(q, p)]
  /\ Begin(w, [Idle EXCEPT !.pc = "refresh", !.q = q])
  /\ UNCHANGED <<useTransactions, allocationVars, requestStatus, asked, slices, crashes>>

\* Otherwise the portion is claimed first, then the money moves.
ConfirmClaim(w, q, p) ==
  /\ ~useTransactions
  /\ \E from \in Confirmable : MovePortion(q, p, from, "FULFILLED")
  /\ Begin(w, [Idle EXCEPT !.pc = "debit", !.q = q, !.p = p])
  /\ UNCHANGED <<useTransactions, allocationVars, requestStatus, asked, slices, moneyVars,
                 crashes>>

\* Fault: the pool is debited without looking at its balance.
DebitUnguarded(w) ==
  /\ At(w, "debit")
  /\ pool' = pool - PortionAmount(jobs[w].q, jobs[w].p)
  /\ Goto(w, "credit")
  /\ UNCHANGED <<useTransactions, allocationVars, withdrawalVars, partyDmc, crashes>>

\* debitPlatformCommission
Debit(w) ==
  LET amount == PortionAmount(jobs[w].q, jobs[w].p) IN
  /\ At(w, "debit") /\ pool >= amount
  /\ pool' = pool - amount
  /\ Goto(w, "credit")
  /\ UNCHANGED <<useTransactions, allocationVars, withdrawalVars, partyDmc, crashes>>

\* The pool is short: nothing undoes the claim.
DebitRefused(w) ==
  /\ At(w, "debit") /\ pool < PortionAmount(jobs[w].q, jobs[w].p)
  /\ Finish(w)
  /\ UNCHANGED <<useTransactions, allocationVars, withdrawalVars, moneyVars, crashes>>

Credit(w) ==
  /\ At(w, "credit")
  /\ partyDmc' = [partyDmc EXCEPT ![jobs[w].p] = @ + PortionAmount(jobs[w].q, jobs[w].p)]
  /\ Goto(w, "refresh")
  /\ UNCHANGED <<useTransactions, allocationVars, withdrawalVars, pool, crashes>>

-----------------------------------------------------------------------------
(* refreshRequestStatus *)

Stored(q) == {p \in Parties : portionStatus[q][p] # None}

AllFulfilled(q) == Stored(q) # {} /\ \A p \in Stored(q) : portionStatus[q][p] = "FULFILLED"

\* Fault: one portion that has been settled is enough.
RefreshAny(w) ==
  /\ At(w, "refresh")
  /\ IF \E p \in Parties : portionStatus[jobs[w].q][p] = "FULFILLED"
       THEN Goto(w, "close") ELSE Finish(w)
  /\ UNCHANGED <<useTransactions, allocationVars, withdrawalVars, moneyVars, crashes>>

Refresh(w) ==
  /\ At(w, "refresh")
  /\ IF AllFulfilled(jobs[w].q) THEN Goto(w, "close") ELSE Finish(w)
  /\ UNCHANGED <<useTransactions, allocationVars, withdrawalVars, moneyVars, crashes>>

Close(w) ==
  LET q == jobs[w].q IN
  /\ At(w, "close")
  /\ requestStatus' =
       [requestStatus EXCEPT ![q] = IF @ = "PENDING" THEN "FULFILLED" ELSE @]
  /\ Finish(w)
  /\ UNCHANGED <<useTransactions, allocationVars, portionStatus, asked, slices, moneyVars,
                 crashes>>

-----------------------------------------------------------------------------
\* The process stops and is started again: what was running is forgotten.
Crash ==
  /\ crashes < MaxCrashes
  /\ \E w \in Workers : ~At(w, "idle")
  /\ PromptRequests => ~Running(CancellingPcs)
  /\ jobs' = [w \in Workers |-> Idle]
  /\ crashes' = crashes + 1
  /\ UNCHANGED <<useTransactions, allocationVars, withdrawalVars, moneyVars>>

JobStep(w) ==
  \/ Refuse(w) \/ ReadCandidates(w) \/ Mark(w) \/ MarkLost(w)
  \/ \E r \in Rows : Draw(w, r) \/ DrawLost(w, r) \/ ReleaseSlice(w, r)
  \/ \E q \in Requests : InsertRequest(w, q) \/ RequestInTransaction(w, q)
  \/ \E p \in Parties : InsertPortion(w, p)
  \/ CancelRefused(w) \/ CancelRead(w) \/ Unmark(w)
  \/ CancelPortions(w) \/ CancelRequest(w)
  \/ Debit(w) \/ DebitRefused(w) \/ Credit(w) \/ Refresh(w) \/ Close(w)

Handshake(q, p) ==
  \/ SubmitPlatformPortionPaymentProof(q, p)
  \/ DisputePlatformPortionReceipt(q, p)
  \/ RetryPortion(q, p)
  \/ \E w \in Workers : ConfirmInTransaction(w, q, p) \/ ConfirmClaim(w, q, p)

Next ==
  \/ \E r \in Rows : CreateAllocation(r)
  \/ \E c \in Commissions : PayCommissionFromPool(c)
  \/ \E w \in Workers, a \in Amounts : RequestPlatformWithdrawal(w, a)
  \/ \E w \in Workers, q \in Requests : CancelPlatformWithdrawal(w, q)
  \/ \E w \in Workers : JobStep(w)
  \/ \E q \in Requests, p \in Parties : Handshake(q, p)
  \/ Crash

Spec == Init /\ [][Next]_vars

-----------------------------------------------------------------------------
(* Properties *)

Job == [pc : Pcs, q : Requests \cup {None}, p : Parties \cup {None},
        amount : Nat, plan : [Rows -> Nat], row : Rows \cup {0}, left : Int, ver : Nat]

\* The types of rows, requests, portions, balances and jobs.
TypeOK ==
  /\ useTransactions \in BOOLEAN
  /\ used \in [Rows -> Int]
  /\ rowStatus \in [Rows -> RowStatuses]
  /\ version \in [Rows -> Nat]
  /\ requestStatus \in [Requests -> REQUEST_STATUSES \cup {None}]
  /\ portionStatus \in [Requests -> [Parties -> WITHDRAWAL_STATUSES \cup {None}]]
  /\ asked \in [Requests -> Nat]
  /\ slices \in [Requests -> [Rows -> Nat]]
  /\ pool \in Nat
  /\ partyDmc \in [Parties -> Nat]
  /\ jobs \in [Workers -> Job]
  /\ crashes \in Nat

\* What q has reserved of row r: the slice of a portion that was not cancelled,
\* less what a running cancellation has given back of it.
Reserved(q, r) ==
  LET cancelling == {w \in Workers : jobs[w].q = q
                                     /\ jobs[w].pc \in {"release", "unmark", "cancelPortions"}}
  IN IF portionStatus[q][Source[r]] \in {None, "CANCELLED"} THEN 0
     ELSE IF cancelling = {} THEN slices[q][r]
     ELSE jobs[CHOOSE w \in cancelling : TRUE].plan[r]

\* What a running request has drawn on row r and not yet stored in a portion.
InHand(w, r) ==
  IF jobs[w].pc \in {"draw", "mark", "insert", "portions"} /\ r <= jobs[w].row
    THEN jobs[w].plan[r] ELSE 0

\* No share is promised twice: whatever live portions and running requests
\* have drawn on a row is used up on it, and with transactions nothing else is
\* ("two concurrent requests can never double-spend the same DMC").
NotSpentTwice ==
  \A r \in Rows :
    LET drawn == Total([q \in Requests |-> Reserved(q, r)], Requests)
                 + Total([w \in Workers |-> InHand(w, r)], Workers)
    IN /\ drawn <= used[r] /\ used[r] <= Earned[r]
       /\ useTransactions => drawn = used[r]

\* Nothing that is available is hidden from the next request: a row is SETTLED
\* only when it is used up, unless its status is being written.
NothingStranded ==
  \A r \in Rows :
    rowStatus[r] = "SETTLED" /\ Available(r) > 0
      => \E w \in Workers : At(w, "unmark") /\ jobs[w].row = r

\* A party is credited at most once for each portion it paid, and exactly once
\* with transactions.
PaidOnce ==
  \A p \in Parties :
    LET Settled(q) == IF portionStatus[q][p] = "FULFILLED" THEN PortionAmount(q, p) ELSE 0
        due == Total([q \in Requests |-> Settled(q)], Requests)
    IN partyDmc[p] <= due /\ (useTransactions => partyDmc[p] = due)

\* A request is FULFILLED only when every portion is, and these add up to what
\* was asked for, unless the process stopped while they were being stored.
\* With transactions, one whose portions are all settled does not stay PENDING
\* and block the next, whichever confirmations overlapped; a stop between the
\* last settlement and the refresh is the exception.
ClosesInFull ==
  \A q \in Requests :
    /\ requestStatus[q] = "FULFILLED" =>
         /\ AllFulfilled(q)
         /\ useTransactions \/ crashes = 0 => Total(slices[q], Rows) = asked[q]
    /\ useTransactions /\ crashes = 0 /\ AllFulfilled(q) /\ (\A w \in Workers : jobs[w].q # q)
         => requestStatus[q] = "FULFILLED"
=============================================================================
