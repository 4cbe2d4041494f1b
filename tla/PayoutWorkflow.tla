--------------------------- MODULE PayoutWorkflow ---------------------------
(***************************************************************************)
(* The life of a pay-out: the requests and sweeps of workflow.service.ts,  *)
(* task.service.ts and customerConfirmation.service.ts over the rows of    *)
(* MongoDB they share.                                                     *)
(*                                                                         *)
(* A handler is asynchronous.  It reads the row, checks the copy it read,  *)
(* decides with one conditional write (findOneAndUpdate: the row changes   *)
(* only if it still satisfies the filter), and then moves money and marks  *)
(* records with further writes.  Between any two of these another handler  *)
(* may run, and the process may stop.  A handler that decides from what it *)
(* read, or has more than one write, is a job of a worker: jobs[w] is the  *)
(* copy it read and pc, the write it does next.  A handler whose only      *)
(* write re-tests everything it read is one action.                        *)
(*                                                                         *)
(* Who is offered a pay-out is TaskRouting's business; here any captain    *)
(* may be the one who claims.  Wording, history entries, audit rows,       *)
(* ratings and notifications are left out.                                 *)
(***************************************************************************)
EXTENDS Integers

CONSTANTS
  Payouts,          \* what a party asks for, one per (party, externalRef)
  Captains,
  Handlers,         \* requests being served at a time
  Sweepers,         \* passes of the expiry job that may overlap
  None,             \* null
  Amount,           \* Amount[t]: what the beneficiary receives
  Charge,           \* Charge[t]: what the party is billed on top
  DefaultShare,     \* DefaultShare[t]: captain's share at the default rate
  AgreedShare,      \* AgreedShare[c]: the share captain c's own rate gives
  Ceiling,          \* Ceiling[c]: creditLimitPaise ?? collateralBalancePaise
  OpeningDmc,       \* OpeningDmc[c]: captain c's balance at the start
  OpeningParty,     \* the party's balance at the start
  Deployments,      \* the values useTransactions may have
  PromptRequests,   \* timing assumption, see HandsOver
  MaxCrashes        \* bound: how often the process may stop, with and without them

Workers == Handlers \cup Sweepers

Clocks == {"completion", "confirmation", "acknowledgement", "age"}

TaskStates ==
  {"CREATED", "ASSIGNED", "IN_PROGRESS", "PROOF_SUBMITTED", "AUDIT_PENDING",
   "COMPLETED", "REJECTED", "REASSIGNED", "EXPIRED", "CANCEL_REVIEW",
   "CANCEL_DISPUTED", "CANCELLED"}

\* "ABSENT": no row has been inserted yet.
Statuses == TaskStates \cup {"ABSENT"}

TASK_TRANSITIONS ==
  [s \in TaskStates |->
     CASE s = "CREATED"         -> {"ASSIGNED", "CANCELLED"}
       [] s = "ASSIGNED"        -> {"IN_PROGRESS", "CANCEL_REVIEW", "EXPIRED"}
       [] s = "IN_PROGRESS"     -> {"PROOF_SUBMITTED", "EXPIRED"}
       [] s = "PROOF_SUBMITTED" -> {"AUDIT_PENDING"}
       [] s = "AUDIT_PENDING"   -> {"COMPLETED", "REJECTED"}
       [] s = "REJECTED"        -> {"REASSIGNED", "COMPLETED"}
       [] s = "REASSIGNED"      -> {"ASSIGNED", "CANCELLED"}
       [] s = "EXPIRED"         -> {"REJECTED"}
       [] s = "CANCEL_REVIEW"   -> {"CANCELLED", "CANCEL_DISPUTED"}
       [] s = "CANCEL_DISPUTED" -> {"ASSIGNED", "IN_PROGRESS", "REASSIGNED"}
       [] OTHER                 -> {}]

CLAIMABLE_STATES == {"CREATED", "REASSIGNED"}

DMC_HELD_STATES ==
  {"ASSIGNED", "IN_PROGRESS", "PROOF_SUBMITTED", "AUDIT_PENDING", "REJECTED",
   "CANCEL_REVIEW", "CANCEL_DISPUTED"}

TERMINAL_STATES == {"COMPLETED", "CANCELLED"}

CanTransition(from, to) == from \in TaskStates /\ to \in TASK_TRANSITIONS[from]

ASSUME ConstantsAssumption ==
  /\ None \notin Captains /\ None \notin Payouts
  /\ Amount \in [Payouts -> Nat \ {0}]
  /\ Charge \in [Payouts -> Nat]
  /\ DefaultShare \in [Payouts -> Nat]
  /\ \A t \in Payouts : DefaultShare[t] <= Charge[t]
  /\ AgreedShare \in [Captains -> Nat]
  /\ Ceiling \in [Captains -> Nat]
  /\ OpeningDmc \in [Captains -> Nat]
  /\ OpeningParty \in Nat
  /\ Deployments \subseteq BOOLEAN
  /\ PromptRequests \in BOOLEAN
  /\ MaxCrashes \in [BOOLEAN -> Nat]

VARIABLES
  \* the Task row
  status, captainId, previousCaptainIds, preCancelStatus,
  commissionPaise, adminCommissionPaise,
  confirmationDeadline,  \* None, or the captain whose proof it was set for
  lapsed,                \* the clocks of this row that have run out
  \* rows of other collections that belong to a task
  liveProof,             \* the captain of the proof not superseded, or None
  commissionRow,         \* the captain named by the Commission row, or None
  allocations,           \* the owners of its DMCAllocation rows
  \* balances
  dmc, earned,           \* Captain.dmcBalancePaise, commissionEarnedTotalPaise
  partyDmc, pool,        \* Party.dmcBalancePaise, poolBalancePaise
  \* the process
  jobs, crashes,
  useTransactions,       \* supportsTransactions(): MongoDB is a replica set
  \* history: amounts held from a captain for a payout and not given back,
  \* refunds and reimbursements made, and who was reimbursed
  hold, refunded, reimbursed, paidCaptain

rowButStatus == <<captainId, previousCaptainIds, preCancelStatus, commissionPaise,
                  adminCommissionPaise, confirmationDeadline, lapsed>>
rowVars == <<status, rowButStatus>>
recordVars == <<liveProof, commissionRow, allocations>>
moneyVars == <<dmc, earned, partyDmc, pool>>
faultVars == <<useTransactions, crashes>>
historyVars == <<hold, refunded, reimbursed, paidCaptain>>
vars == <<rowVars, recordVars, moneyVars, jobs, faultVars, historyVars>>

-----------------------------------------------------------------------------
(* Jobs *)

\* A write that decides from a copy of the row; while one is due the copy
\* may be out of date.
DecidingPcs == {"complete", "reassign", "expire", "return"}

\* Before its conditional write, a claim.
ClaimingPcs == {"hold", "claim"}

\* What is still owed to the party or the captain once the end is decided.
SettlingPcs == {"releaseCancelled", "refund", "commission", "collect", "reimburse"}

Pcs == DecidingPcs \cup ClaimingPcs \cup SettlingPcs \cup
       {"idle", "insert", "refundDebit", "release", "supersede",
        "proofClaim", "proofCreate", "proofQueue", "proofAsk",
        "approve", "reject", "payShare", "allocateCaptain", "allocatePlatform"}

Idle == [pc |-> "idle", t |-> None, c |-> None, from |-> "ABSENT",
         share |-> 0, platform |-> 0]

\* A copy of the row of t, held by a job whose next write is p.
Read(t, p) == [pc |-> p, t |-> t, c |-> captainId[t], from |-> status[t],
               share |-> commissionPaise[t], platform |-> adminCommissionPaise[t]]

At(w, p) == jobs[w].pc = p

Begin(w, job) == At(w, "idle") /\ jobs' = [jobs EXCEPT ![w] = job]
Goto(w, p)    == jobs' = [jobs EXCEPT ![w].pc = p]
Finish(w)     == jobs' = [jobs EXCEPT ![w] = Idle]

(***************************************************************************)
(* The conditional writes test the status and, most of them, nothing else. *)
(* If PromptRequests, a payout does not pass to another captain while a    *)
(* job that read it in the hands of the earlier one has yet to write: a    *)
(* request takes milliseconds, an offer and a claim take a person.  The    *)
(* code does not enforce this; without it the write can succeed on a row   *)
(* that has been given back and claimed again since.                       *)
(***************************************************************************)
HandsOver(t, w, outdated) ==
  PromptRequests =>
    \A v \in Workers \ {w} : jobs[v].t = t => jobs[v].pc \notin outdated


\* Fault: the captain's rate is not capped by what was charged.
UncappedShare(t, c) == AgreedShare[c]

\* repriceCaptainShare: the charge is fixed, the captain's part of it is not.
RepricedShare(t, c) ==
  LET charged == commissionPaise[t] + adminCommissionPaise[t]
  IN  IF AgreedShare[c] <= charged THEN AgreedShare[c] ELSE charged

\* Fault: the ceiling is tested, the balance is not.
WithinCeiling(c, amount) == amount <= Ceiling[c]

WithinCurrentLimit(c, amount) == amount <= Ceiling[c] /\ amount <= dmc[c] - earned[c]

-----------------------------------------------------------------------------
Init ==
  /\ status = [t \in Payouts |-> "ABSENT"]
  /\ captainId = [t \in Payouts |-> None]
  /\ previousCaptainIds = [t \in Payouts |-> {}]
  /\ preCancelStatus = [t \in Payouts |-> None]
  /\ commissionPaise = [t \in Payouts |-> 0]
  /\ adminCommissionPaise = [t \in Payouts |-> 0]
  /\ confirmationDeadline = [t \in Payouts |-> None]
  /\ lapsed = [t \in Payouts |-> {}]
  /\ liveProof = [t \in Payouts |-> None]
  /\ commissionRow = [t \in Payouts |-> None]
  /\ allocations = [t \in Payouts |-> {}]
  /\ dmc = OpeningDmc
  /\ earned = [c \in Captains |-> 0]
  /\ partyDmc = OpeningParty
  /\ pool = 0
  /\ jobs = [w \in Workers |-> Idle]
  /\ crashes = 0
  /\ useTransactions \in Deployments
  /\ hold = [t \in Payouts |-> [c \in Captains |-> 0]]
  /\ refunded = [t \in Payouts |-> 0]
  /\ reimbursed = [t \in Payouts |-> 0]
  /\ paidCaptain = [t \in Payouts |-> None]

-----------------------------------------------------------------------------
(* createTask: debit the party, insert the row, undo the debit if the      *)
(* (partyId, externalRef) index refuses it.                                *)

CreateDebit(w, t) ==
  /\ partyDmc >= Amount[t] + Charge[t]
  /\ Begin(w, [Idle EXCEPT !.pc = "insert", !.t = t])
  /\ partyDmc' = partyDmc - (Amount[t] + Charge[t])
  /\ UNCHANGED <<rowVars, recordVars, dmc, earned, pool, faultVars, historyVars>>

CreateInsert(w) ==
  LET t == jobs[w].t IN
  /\ At(w, "insert")
  /\ status[t] = "ABSENT"
  /\ status' = [status EXCEPT ![t] = "CREATED"]
  /\ commissionPaise' = [commissionPaise EXCEPT ![t] = DefaultShare[t]]
  /\ adminCommissionPaise' = [adminCommissionPaise EXCEPT ![t] = Charge[t] - DefaultShare[t]]
  /\ Finish(w)
  /\ UNCHANGED <<captainId, previousCaptainIds, preCancelStatus, confirmationDeadline,
                 lapsed, recordVars, moneyVars, faultVars, historyVars>>

CreateDuplicate(w) ==
  /\ At(w, "insert")
  /\ status[jobs[w].t] # "ABSENT"
  /\ Goto(w, "refundDebit")
  /\ UNCHANGED <<rowVars, recordVars, moneyVars, faultVars, historyVars>>

CreateRefundDebit(w) ==
  LET t == jobs[w].t IN
  /\ At(w, "refundDebit")
  /\ partyDmc' = partyDmc + Amount[t] + Charge[t]
  /\ Finish(w)
  /\ UNCHANGED <<rowVars, recordVars, dmc, earned, pool, faultVars, historyVars>>

-----------------------------------------------------------------------------
(* claimTask *)

\* Fault: the exclusion list is not consulted.
ClaimReadAnyone(w, t, c) ==
  /\ captainId[t] = None
  /\ status[t] \in CLAIMABLE_STATES
  /\ Begin(w, [Read(t, "hold") EXCEPT !.c = c])
  /\ UNCHANGED <<rowVars, recordVars, moneyVars, faultVars, historyVars>>

ClaimRead(w, t, c) ==
  /\ captainId[t] = None
  /\ status[t] \in CLAIMABLE_STATES
  /\ c \notin previousCaptainIds[t]
  /\ Begin(w, [Read(t, "hold") EXCEPT !.c = c])
  /\ UNCHANGED <<rowVars, recordVars, moneyVars, faultVars, historyVars>>

\* holdForPayout
TakeHold(t, c) ==
  /\ WithinCurrentLimit(c, Amount[t])
  /\ dmc' = [dmc EXCEPT ![c] = @ - Amount[t]]
  /\ hold' = [hold EXCEPT ![t][c] = @ + 1]

\* releasePayoutHold
ReleaseHold(t, c) ==
  /\ dmc' = [dmc EXCEPT ![c] = @ + Amount[t]]
  /\ hold' = [hold EXCEPT ![t][c] = @ - 1]

\* compareAndSwapClaim, when its filter matches.
AssignTo(w, t, c) ==
  /\ status[t] \in CLAIMABLE_STATES
  /\ captainId[t] = None
  /\ HandsOver(t, w, DecidingPcs \cup {"supersede"})
  /\ status' = [status EXCEPT ![t] = "ASSIGNED"]
  /\ captainId' = [captainId EXCEPT ![t] = c]
  /\ commissionPaise' = [commissionPaise EXCEPT ![t] = RepricedShare(t, c)]
  /\ adminCommissionPaise' =
       [adminCommissionPaise EXCEPT ![t] =
          commissionPaise[t] + adminCommissionPaise[t] - RepricedShare(t, c)]
  /\ lapsed' = [lapsed EXCEPT ![t] = @ \ {"completion"}]
  /\ UNCHANGED <<previousCaptainIds, preCancelStatus, confirmationDeadline>>

\* With a transaction, the hold and the claim commit together.
ClaimInTransaction(w) ==
  LET t == jobs[w].t  c == jobs[w].c IN
  /\ useTransactions
  /\ At(w, "hold")
  /\ TakeHold(t, c)
  /\ AssignTo(w, t, c)
  /\ Finish(w)
  /\ UNCHANGED <<recordVars, earned, partyDmc, pool, faultVars, refunded, reimbursed, paidCaptain>>

\* Without one, the hold comes first ...
ClaimHold(w) ==
  LET t == jobs[w].t  c == jobs[w].c IN
  /\ ~useTransactions
  /\ At(w, "hold")
  /\ TakeHold(t, c)
  /\ Goto(w, "claim")
  /\ UNCHANGED <<rowVars, recordVars, earned, partyDmc, pool, faultVars,
                 refunded, reimbursed, paidCaptain>>

ClaimWrite(w) ==
  /\ At(w, "claim")
  /\ AssignTo(w, jobs[w].t, jobs[w].c)
  /\ Finish(w)
  /\ UNCHANGED <<recordVars, moneyVars, faultVars, historyVars>>

\* Fault: a claim that lost the race keeps the hold.
ClaimLostKeepingHold(w) ==
  LET t == jobs[w].t IN
  /\ At(w, "claim")
  /\ ~(status[t] \in CLAIMABLE_STATES /\ captainId[t] = None)
  /\ Finish(w)
  /\ UNCHANGED <<rowVars, recordVars, moneyVars, faultVars, historyVars>>

\* ... and is given back if the claim lost the race.
ClaimLost(w) ==
  LET t == jobs[w].t IN
  /\ At(w, "claim")
  /\ ~(status[t] \in CLAIMABLE_STATES /\ captainId[t] = None)
  /\ Goto(w, "release")
  /\ UNCHANGED <<rowVars, recordVars, moneyVars, faultVars, historyVars>>

\* Refused: the amount does not fit, or the aborted transaction lost the race.
ClaimRefused(w) ==
  LET t == jobs[w].t  c == jobs[w].c IN
  /\ At(w, "hold")
  /\ \/ ~WithinCurrentLimit(c, Amount[t])
     \/ useTransactions /\ ~(status[t] \in CLAIMABLE_STATES /\ captainId[t] = None)
  /\ Finish(w)
  /\ UNCHANGED <<rowVars, recordVars, moneyVars, faultVars, historyVars>>

-----------------------------------------------------------------------------
(* startTask and submitProof *)

StartTask(t, c) ==
  /\ CanTransition(status[t], "IN_PROGRESS")
  /\ status[t] = "ASSIGNED" /\ captainId[t] = c
  /\ status' = [status EXCEPT ![t] = "IN_PROGRESS"]
  /\ UNCHANGED <<rowButStatus, recordVars, moneyVars, jobs, faultVars, historyVars>>

ProofRead(w, t, c) ==
  /\ captainId[t] = c
  /\ CanTransition(status[t], "PROOF_SUBMITTED")
  /\ liveProof[t] = None
  /\ Begin(w, Read(t, "proofClaim"))
  /\ UNCHANGED <<rowVars, recordVars, moneyVars, faultVars, historyVars>>

\* Fault: the audit is queued before the proof is stored.
ProofClaimQueued(w) ==
  LET t == jobs[w].t IN
  /\ At(w, "proofClaim")
  /\ IF captainId[t] = jobs[w].c /\ status[t] = "IN_PROGRESS"
     THEN /\ status' = [status EXCEPT ![t] = "AUDIT_PENDING"]
          /\ Goto(w, "proofCreate")
     ELSE Finish(w) /\ UNCHANGED status
  /\ UNCHANGED <<rowButStatus, recordVars, moneyVars, faultVars, historyVars>>

ProofClaim(w) ==
  LET t == jobs[w].t IN
  /\ At(w, "proofClaim")
  /\ IF captainId[t] = jobs[w].c /\ status[t] = "IN_PROGRESS"
     THEN /\ status' = [status EXCEPT ![t] = "PROOF_SUBMITTED"]
          /\ Goto(w, "proofCreate")
     ELSE Finish(w) /\ UNCHANGED status
  /\ UNCHANGED <<rowButStatus, recordVars, moneyVars, faultVars, historyVars>>

\* At most one live proof per task: the unique index refuses a second one,
\* and the submission stops there.
ProofCreate(w) ==
  LET t == jobs[w].t IN
  /\ At(w, "proofCreate")
  /\ IF liveProof[t] = None
     THEN liveProof' = [liveProof EXCEPT ![t] = jobs[w].c] /\ Goto(w, "proofQueue")
     ELSE Finish(w) /\ UNCHANGED liveProof
  /\ UNCHANGED <<rowVars, commissionRow, allocations, moneyVars, faultVars, historyVars>>

ProofQueue(w) ==
  LET t == jobs[w].t IN
  /\ At(w, "proofQueue")
  /\ IF status[t] = "PROOF_SUBMITTED"
     THEN status' = [status EXCEPT ![t] = "AUDIT_PENDING"] /\ Goto(w, "proofAsk")
     ELSE Finish(w) /\ UNCHANGED status
  /\ UNCHANGED <<rowButStatus, recordVars, moneyVars, faultVars, historyVars>>

\* The party is asked, unless a deadline is already on the row.
ProofAsk(w) ==
  LET t == jobs[w].t IN
  /\ At(w, "proofAsk")
  /\ IF status[t] = "AUDIT_PENDING" /\ confirmationDeadline[t] = None
     THEN /\ confirmationDeadline' = [confirmationDeadline EXCEPT ![t] = jobs[w].c]
          /\ lapsed' = [lapsed EXCEPT ![t] = @ \ {"confirmation"}]
     ELSE UNCHANGED <<confirmationDeadline, lapsed>>
  /\ Finish(w)
  /\ UNCHANGED <<status, captainId, previousCaptainIds, preCancelStatus, commissionPaise,
                 adminCommissionPaise, recordVars, moneyVars, faultVars, historyVars>>

-----------------------------------------------------------------------------
(* applyCustomerConfirmation and autoApproveOnTimeout: clear the deadline, *)
(* then approve or reject.                                                 *)

ClearDeadline(w, t, next) ==
  /\ status[t] = "AUDIT_PENDING" /\ confirmationDeadline[t] # None
  /\ confirmationDeadline' = [confirmationDeadline EXCEPT ![t] = None]
  /\ Begin(w, [Idle EXCEPT !.pc = next, !.t = t])
  /\ UNCHANGED <<status, captainId, previousCaptainIds, preCancelStatus, commissionPaise,
                 adminCommissionPaise, lapsed, recordVars, moneyVars, faultVars, historyVars>>

ConfirmReceived(w, t)    == ClearDeadline(w, t, "approve")
ConfirmNotReceived(w, t) == ClearDeadline(w, t, "reject")
AutoApproveOnTimeout(w, t) ==
  "confirmation" \in lapsed[t] /\ ClearDeadline(w, t, "approve")

\* approveTask called by the above: its own read.
ApproveAfterClear(w) ==
  LET t == jobs[w].t IN
  /\ At(w, "approve")
  /\ IF status[t] = "AUDIT_PENDING"
     THEN jobs' = [jobs EXCEPT ![w] = Read(t, "complete")]
     ELSE Finish(w)
  /\ UNCHANGED <<rowVars, recordVars, moneyVars, faultVars, historyVars>>

\* rejectTask: the captain keeps the task, and its hold, until admin decides.
MarkRejected(t) ==
  /\ status[t] = "AUDIT_PENDING"
  /\ status' = [status EXCEPT ![t] = "REJECTED"]

RejectTask(t) ==
  /\ MarkRejected(t)
  /\ UNCHANGED <<rowButStatus, recordVars, moneyVars, jobs, faultVars, historyVars>>

RejectAfterClear(w) ==
  LET t == jobs[w].t IN
  /\ At(w, "reject")
  /\ MarkRejected(t) \/ (status[t] # "AUDIT_PENDING" /\ UNCHANGED status)
  /\ Finish(w)
  /\ UNCHANGED <<rowButStatus, recordVars, moneyVars, faultVars, historyVars>>

-----------------------------------------------------------------------------
(* completeTask, from approveTask and from resolveTaskRejection (APPROVE)  *)

ApproveRead(w, t) ==
  /\ status[t] = "AUDIT_PENDING"
  /\ Begin(w, Read(t, "complete"))
  /\ UNCHANGED <<rowVars, recordVars, moneyVars, faultVars, historyVars>>

OverruleRead(w, t) ==
  /\ status[t] = "REJECTED"
  /\ Begin(w, Read(t, "complete"))
  /\ UNCHANGED <<rowVars, recordVars, moneyVars, faultVars, historyVars>>

\* Fault: the status the caller read is taken to hold still.
MarkCompletedUnclaimed(w) ==
  LET t == jobs[w].t IN
  /\ At(w, "complete")
  /\ CanTransition(jobs[w].from, "COMPLETED")
  /\ status' = [status EXCEPT ![t] = "COMPLETED"]
  /\ commissionPaise' = [commissionPaise EXCEPT ![t] = jobs[w].share]
  /\ UNCHANGED <<captainId, previousCaptainIds, preCancelStatus,
                 adminCommissionPaise, confirmationDeadline, lapsed>>

\* claimCompletion, when its filter matches: the status, not the captain.
\* The share written is the one the job read.
MarkCompleted(w) ==
  LET t == jobs[w].t IN
  /\ At(w, "complete")
  /\ CanTransition(jobs[w].from, "COMPLETED")
  /\ status[t] = jobs[w].from
  /\ status' = [status EXCEPT ![t] = "COMPLETED"]
  /\ commissionPaise' = [commissionPaise EXCEPT ![t] = jobs[w].share]
  /\ UNCHANGED <<captainId, previousCaptainIds, preCancelStatus,
                 adminCommissionPaise, confirmationDeadline, lapsed>>

\* creditCommission: one row per task; a second one is a silent success.
CreditCommission(t, c) ==
  commissionRow' = [commissionRow EXCEPT ![t] = IF @ = None THEN c ELSE @]

\* The hold comes back together with the reimbursement.
ReimburseCaptain(t, c) ==
  /\ hold' = [hold EXCEPT ![t][c] = @ - 1]
  /\ reimbursed' = [reimbursed EXCEPT ![t] = @ + 1]
  /\ paidCaptain' = [paidCaptain EXCEPT ![t] = c]

\* Fault: the platform's part is not recorded.
CaptainOnly(w) == {"CAPTAIN"}

AllocationOwners(w) ==
  {"CAPTAIN"} \cup (IF jobs[w].platform > 0 THEN {"ADMIN"} ELSE {})

\* Fault: only the claim is in the transaction.
CompletePiecemeal(w) ==
  /\ useTransactions
  /\ MarkCompleted(w)
  /\ Goto(w, "commission")
  /\ UNCHANGED <<recordVars, moneyVars, faultVars, historyVars>>

\* Fault: the pool is not charged with what the captain is paid from it.
CompleteUncharged(w) ==
  LET t == jobs[w].t  c == jobs[w].c
      share == jobs[w].share  platform == jobs[w].platform IN
  /\ useTransactions
  /\ MarkCompleted(w)
  /\ CreditCommission(t, c)
  /\ ReimburseCaptain(t, c)
  /\ dmc' = [dmc EXCEPT ![c] = @ + 2 * Amount[t] + share]
  /\ earned' = [earned EXCEPT ![c] = @ + share]
  /\ pool' = pool + share + platform
  /\ allocations' = [allocations EXCEPT ![t] = @ \cup AllocationOwners(w)]
  /\ Finish(w)
  /\ UNCHANGED <<liveProof, partyDmc, faultVars, refunded>>

\* With a transaction, everything from the claim to the allocations at once.
CompleteInTransaction(w) ==
  LET t == jobs[w].t  c == jobs[w].c
      share == jobs[w].share  platform == jobs[w].platform IN
  /\ useTransactions
  /\ MarkCompleted(w)
  /\ CreditCommission(t, c)
  /\ ReimburseCaptain(t, c)
  /\ dmc' = [dmc EXCEPT ![c] = @ + 2 * Amount[t] + share]
  /\ earned' = [earned EXCEPT ![c] = @ + share]
  /\ pool' = pool + platform
  /\ allocations' = [allocations EXCEPT ![t] = @ \cup AllocationOwners(w)]
  /\ Finish(w)
  /\ UNCHANGED <<liveProof, partyDmc, faultVars, refunded>>

CompleteWrite(w) ==
  /\ ~useTransactions
  /\ MarkCompleted(w)
  /\ Goto(w, "commission")
  /\ UNCHANGED <<recordVars, moneyVars, faultVars, historyVars>>

\* Someone else decided it first.
CompleteLost(w) ==
  /\ At(w, "complete")
  /\ status[jobs[w].t] # jobs[w].from
  /\ Finish(w)
  /\ UNCHANGED <<rowVars, recordVars, moneyVars, faultVars, historyVars>>

CompleteCommission(w) ==
  /\ At(w, "commission")
  /\ CreditCommission(jobs[w].t, jobs[w].c)
  /\ Goto(w, "collect")
  /\ UNCHANGED <<rowVars, liveProof, allocations, moneyVars, faultVars, historyVars>>

CompleteCollect(w) ==
  /\ At(w, "collect")
  /\ pool' = pool + jobs[w].share + jobs[w].platform
  /\ Goto(w, "reimburse")
  /\ UNCHANGED <<rowVars, recordVars, dmc, earned, partyDmc, faultVars, historyVars>>

CompleteReimburse(w) ==
  LET t == jobs[w].t  c == jobs[w].c IN
  /\ At(w, "reimburse")
  /\ ReimburseCaptain(t, c)
  /\ dmc' = [dmc EXCEPT ![c] = @ + 2 * Amount[t]]
  /\ Goto(w, "payShare")
  /\ UNCHANGED <<rowVars, recordVars, earned, partyDmc, pool, faultVars, refunded>>

\* payCommissionToCaptain: nothing at all if the pool cannot cover it.
CompletePayShare(w) ==
  LET c == jobs[w].c  share == jobs[w].share IN
  /\ At(w, "payShare")
  /\ IF share <= pool
     THEN /\ pool' = pool - share
          /\ dmc' = [dmc EXCEPT ![c] = @ + share]
          /\ earned' = [earned EXCEPT ![c] = @ + share]
     ELSE UNCHANGED <<pool, dmc, earned>>
  /\ Goto(w, "allocateCaptain")
  /\ UNCHANGED <<rowVars, recordVars, partyDmc, faultVars, historyVars>>

CompleteAllocateCaptain(w) ==
  /\ At(w, "allocateCaptain")
  /\ allocations' = [allocations EXCEPT ![jobs[w].t] = @ \cup {"CAPTAIN"}]
  /\ Goto(w, "allocatePlatform")
  /\ UNCHANGED <<rowVars, liveProof, commissionRow, moneyVars, faultVars, historyVars>>

CompleteAllocatePlatform(w) ==
  /\ At(w, "allocatePlatform")
  /\ allocations' = [allocations EXCEPT ![jobs[w].t] = @ \cup AllocationOwners(w)]
  /\ Finish(w)
  /\ UNCHANGED <<rowVars, liveProof, commissionRow, moneyVars, faultVars, historyVars>>

-----------------------------------------------------------------------------
(* reassignTask, from resolveTaskRejection and resolveCancelDispute        *)
(* (REASSIGN)                                                              *)

ReassignRead(w, t) ==
  /\ status[t] \in {"REJECTED", "CANCEL_DISPUTED"}
  /\ CanTransition(status[t], "REASSIGNED")
  /\ Begin(w, Read(t, "reassign"))
  /\ UNCHANGED <<rowVars, recordVars, moneyVars, faultVars, historyVars>>

\* Fault: the captain who gave the payout up is not barred from it.
ReturnUnbarred(t, c) ==
  /\ status' = [status EXCEPT ![t] = "REASSIGNED"]
  /\ captainId' = [captainId EXCEPT ![t] = None]
  /\ lapsed' = [lapsed EXCEPT ![t] = @ \ {"completion"}]
  /\ UNCHANGED <<previousCaptainIds, preCancelStatus, commissionPaise,
                 adminCommissionPaise, confirmationDeadline>>

\* The row goes back to the pool, barred to the captain c who was read.
ReturnToPool(t, c) ==
  /\ status' = [status EXCEPT ![t] = "REASSIGNED"]
  /\ captainId' = [captainId EXCEPT ![t] = None]
  /\ previousCaptainIds' = [previousCaptainIds EXCEPT ![t] = @ \cup ({c} \ {None})]
  /\ lapsed' = [lapsed EXCEPT ![t] = @ \ {"completion"}]
  /\ UNCHANGED <<preCancelStatus, commissionPaise, adminCommissionPaise,
                 confirmationDeadline>>

ReassignWrite(w) ==
  LET t == jobs[w].t IN
  /\ At(w, "reassign")
  /\ status[t] = jobs[w].from
  /\ HandsOver(t, w, ClaimingPcs)
  /\ ReturnToPool(t, jobs[w].c)
  /\ Goto(w, "supersede")
  /\ UNCHANGED <<recordVars, moneyVars, faultVars, historyVars>>

ReassignLost(w) ==
  /\ At(w, "reassign")
  /\ status[jobs[w].t] # jobs[w].from
  /\ Finish(w)
  /\ UNCHANGED <<rowVars, recordVars, moneyVars, faultVars, historyVars>>

\* supersedeProofFor
ReassignSupersede(w) ==
  /\ At(w, "supersede")
  /\ liveProof' = [liveProof EXCEPT ![jobs[w].t] = None]
  /\ IF jobs[w].c # None THEN Goto(w, "release") ELSE Finish(w)
  /\ UNCHANGED <<rowVars, commissionRow, allocations, moneyVars, faultVars, historyVars>>

Release(w) ==
  /\ At(w, "release")
  /\ ReleaseHold(jobs[w].t, jobs[w].c)
  /\ Finish(w)
  /\ UNCHANGED <<rowVars, recordVars, earned, partyDmc, pool, faultVars,
                 refunded, reimbursed, paidCaptain>>

-----------------------------------------------------------------------------
(* requestCancellation and its review.  Whoever asks, the other side       *)
(* reviews; each write re-tests the status and takes the rest from the row *)
(* it wrote.                                                               *)

CancelUnclaimed(w, t) ==
  /\ captainId[t] = None
  /\ CanTransition(status[t], "CANCELLED")
  /\ Begin(w, Read(t, "refund"))
  /\ status' = [status EXCEPT ![t] = "CANCELLED"]
  /\ UNCHANGED <<rowButStatus, recordVars, moneyVars, faultVars, historyVars>>

RequestCancellation(t) ==
  /\ captainId[t] # None
  /\ CanTransition(status[t], "CANCEL_REVIEW")
  /\ status' = [status EXCEPT ![t] = "CANCEL_REVIEW"]
  /\ preCancelStatus' = [preCancelStatus EXCEPT ![t] = status[t]]
  /\ UNCHANGED <<captainId, previousCaptainIds, commissionPaise,
                 adminCommissionPaise, confirmationDeadline, lapsed, recordVars,
                 moneyVars, jobs, faultVars, historyVars>>

ApproveCancellation(w, t) ==
  /\ status[t] = "CANCEL_REVIEW"
  /\ Begin(w, Read(t, IF captainId[t] # None THEN "releaseCancelled" ELSE "refund"))
  /\ status' = [status EXCEPT ![t] = "CANCELLED"]
  /\ UNCHANGED <<rowButStatus, recordVars, moneyVars, faultVars, historyVars>>

DisputeCancellation(t) ==
  /\ status[t] = "CANCEL_REVIEW"
  /\ status' = [status EXCEPT ![t] = "CANCEL_DISPUTED"]
  /\ UNCHANGED <<rowButStatus, recordVars, moneyVars, jobs, faultVars, historyVars>>

ReleaseCancelled(w) ==
  /\ At(w, "releaseCancelled")
  /\ ReleaseHold(jobs[w].t, jobs[w].c)
  /\ Goto(w, "refund")
  /\ UNCHANGED <<rowVars, recordVars, earned, partyDmc, pool, faultVars,
                 refunded, reimbursed, paidCaptain>>

\* refundPartyForCancelledTask
RefundParty(w) ==
  LET t == jobs[w].t IN
  /\ At(w, "refund")
  /\ partyDmc' = partyDmc + Amount[t] + jobs[w].share + jobs[w].platform
  /\ refunded' = [refunded EXCEPT ![t] = @ + 1]
  /\ Finish(w)
  /\ UNCHANGED <<rowVars, recordVars, dmc, earned, pool, faultVars,
                 hold, reimbursed, paidCaptain>>

\* resolveCancelDispute (APPROVE): exactly as it was before.
RestoreDisputed(t) ==
  LET to == IF preCancelStatus[t] # None THEN preCancelStatus[t] ELSE "ASSIGNED" IN
  /\ status[t] = "CANCEL_DISPUTED"
  /\ CanTransition(status[t], to)
  /\ status' = [status EXCEPT ![t] = to]
  /\ UNCHANGED <<rowButStatus, recordVars, moneyVars, jobs, faultVars, historyVars>>

-----------------------------------------------------------------------------
(* The sweeps of taskExpiry.job.ts, and the captain's own acknowledgement  *)

ExpireRead(w, t) ==
  /\ status[t] \in {"ASSIGNED", "IN_PROGRESS"}
  /\ "completion" \in lapsed[t]
  /\ CanTransition(status[t], "EXPIRED")
  /\ Begin(w, Read(t, "expire"))
  /\ UNCHANGED <<rowVars, recordVars, moneyVars, faultVars, historyVars>>

\* Fault: the sweep trusts the status it listed.
ExpireUnpinned(w) ==
  LET t == jobs[w].t IN
  /\ At(w, "expire")
  /\ status' = [status EXCEPT ![t] = "EXPIRED"]
  /\ lapsed' = [lapsed EXCEPT ![t] = @ \ {"acknowledgement"}]
  /\ IF jobs[w].c # None THEN Goto(w, "release") ELSE Finish(w)
  /\ UNCHANGED <<captainId, previousCaptainIds, preCancelStatus, commissionPaise,
                 adminCommissionPaise, confirmationDeadline, recordVars,
                 moneyVars, faultVars, historyVars>>

\* Pinned to the status only: not to the captain, nor to the deadline.
ExpireWrite(w) ==
  LET t == jobs[w].t IN
  /\ At(w, "expire")
  /\ status[t] = jobs[w].from
  /\ status' = [status EXCEPT ![t] = "EXPIRED"]
  /\ lapsed' = [lapsed EXCEPT ![t] = @ \ {"acknowledgement"}]
  /\ IF jobs[w].c # None THEN Goto(w, "release") ELSE Finish(w)
  /\ UNCHANGED <<captainId, previousCaptainIds, preCancelStatus, commissionPaise,
                 adminCommissionPaise, confirmationDeadline, recordVars,
                 moneyVars, faultVars, historyVars>>

ExpireLost(w) ==
  /\ At(w, "expire")
  /\ status[jobs[w].t] # jobs[w].from
  /\ Finish(w)
  /\ UNCHANGED <<rowVars, recordVars, moneyVars, faultVars, historyVars>>

\* returnExpiredTaskToPool: EXPIRED -> REJECTED -> REASSIGNED in one write.
\* The hold was released when the task expired.
ReturnRead(w, t) ==
  /\ status[t] = "EXPIRED"
  /\ CanTransition(status[t], "REJECTED") /\ CanTransition("REJECTED", "REASSIGNED")
  /\ Begin(w, Read(t, "return"))
  /\ UNCHANGED <<rowVars, recordVars, moneyVars, faultVars, historyVars>>

RejectExpired(w, t, c) == captainId[t] = c /\ ReturnRead(w, t)

ReclaimExpired(w, t) == "acknowledgement" \in lapsed[t] /\ ReturnRead(w, t)

\* Fault: the hold is released again when the expired row is reclaimed.
ReturnReleasing(w) ==
  LET t == jobs[w].t IN
  /\ At(w, "return")
  /\ status[t] = "EXPIRED"
  /\ HandsOver(t, w, ClaimingPcs)
  /\ ReturnToPool(t, jobs[w].c)
  /\ Goto(w, "release")
  /\ UNCHANGED <<recordVars, moneyVars, faultVars, historyVars>>

ReturnWrite(w) ==
  LET t == jobs[w].t IN
  /\ At(w, "return")
  /\ status[t] = "EXPIRED"
  /\ HandsOver(t, w, ClaimingPcs)
  /\ ReturnToPool(t, jobs[w].c)
  /\ Finish(w)
  /\ UNCHANGED <<recordVars, moneyVars, faultVars, historyVars>>

ReturnLost(w) ==
  /\ At(w, "return")
  /\ status[jobs[w].t] # "EXPIRED"
  /\ Finish(w)
  /\ UNCHANGED <<rowVars, recordVars, moneyVars, faultVars, historyVars>>

\* Fault: a payout that came back to the pool is no longer swept.
CancelStaleCreated(w, t) == "age" \in lapsed[t] /\ status[t] = "CREATED" /\ CancelUnclaimed(w, t)

\* expireStaleUnclaimedTasks
CancelStale(w, t) == "age" \in lapsed[t] /\ status[t] \in CLAIMABLE_STATES /\ CancelUnclaimed(w, t)

-----------------------------------------------------------------------------
(* Time and failure *)

\* A clock runs while its deadline is on the row.
Running(t) ==
  {k \in Clocks :
     /\ status[t] \notin TERMINAL_STATES \cup {"ABSENT"}
     /\ k = "completion" => captainId[t] # None
     /\ k = "confirmation" => confirmationDeadline[t] # None
     /\ k = "acknowledgement" => status[t] = "EXPIRED"}

ClockLapses(t, k) ==
  /\ k \in Running(t) \ lapsed[t]
  /\ lapsed' = [lapsed EXCEPT ![t] = @ \cup {k}]
  /\ UNCHANGED <<status, captainId, previousCaptainIds, preCancelStatus, commissionPaise,
                 adminCommissionPaise, confirmationDeadline, recordVars, moneyVars,
                 jobs, faultVars, historyVars>>

\* The process stops and is started again: what was running is forgotten.
Crash ==
  /\ crashes < MaxCrashes[useTransactions]
  /\ \E w \in Workers : ~At(w, "idle")
  /\ jobs' = [w \in Workers |-> Idle]
  /\ crashes' = crashes + 1
  /\ UNCHANGED <<rowVars, recordVars, moneyVars, useTransactions, historyVars>>

-----------------------------------------------------------------------------
\* What people ask for.
Request(w, t) ==
  \/ CreateDebit(w, t)
  \/ \E c \in Captains : ClaimRead(w, t, c) \/ ProofRead(w, t, c) \/ RejectExpired(w, t, c)
  \/ ConfirmReceived(w, t) \/ ConfirmNotReceived(w, t)
  \/ ApproveRead(w, t) \/ OverruleRead(w, t) \/ ReassignRead(w, t)
  \/ CancelUnclaimed(w, t) \/ ApproveCancellation(w, t)

Decision(t) ==
  \/ \E c \in Captains : StartTask(t, c)
  \/ RejectTask(t)
  \/ RequestCancellation(t) \/ DisputeCancellation(t) \/ RestoreDisputed(t)

\* What the expiry job starts.
Sweep(w, t) ==
  \/ AutoApproveOnTimeout(w, t) \/ ExpireRead(w, t)
  \/ ReclaimExpired(w, t) \/ CancelStale(w, t)

\* The next write of a job that is running.
JobStep(w) ==
  \/ CreateInsert(w) \/ CreateDuplicate(w) \/ CreateRefundDebit(w)
  \/ ClaimInTransaction(w) \/ ClaimHold(w) \/ ClaimWrite(w) \/ ClaimLost(w) \/ ClaimRefused(w)
  \/ ProofClaim(w) \/ ProofCreate(w) \/ ProofQueue(w) \/ ProofAsk(w)
  \/ ApproveAfterClear(w) \/ RejectAfterClear(w)
  \/ CompleteInTransaction(w) \/ CompleteWrite(w) \/ CompleteLost(w)
  \/ CompleteCommission(w) \/ CompleteCollect(w) \/ CompleteReimburse(w)
  \/ CompletePayShare(w) \/ CompleteAllocateCaptain(w) \/ CompleteAllocatePlatform(w)
  \/ ReassignWrite(w) \/ ReassignLost(w) \/ ReassignSupersede(w) \/ Release(w)
  \/ ReleaseCancelled(w) \/ RefundParty(w)
  \/ ExpireWrite(w) \/ ExpireLost(w) \/ ReturnWrite(w) \/ ReturnLost(w)

Next ==
  \/ \E w \in Handlers, t \in Payouts : Request(w, t)
  \/ \E t \in Payouts : Decision(t)
  \/ \E w \in Sweepers, t \in Payouts : Sweep(w, t)
  \/ \E w \in Workers : JobStep(w)
  \/ \E t \in Payouts, k \in Clocks : ClockLapses(t, k)
  \/ Crash

Spec == Init /\ [][Next]_vars

(***************************************************************************)
(* The event loop serves every job that is running, the expiry job runs    *)
(* every minute, and time passes.  Nothing is assumed of people.           *)
(***************************************************************************)
Fairness ==
  /\ \A w \in Workers : WF_vars(JobStep(w))
  /\ \A w \in Sweepers, t \in Payouts : WF_vars(Sweep(w, t))
  /\ \A t \in Payouts, k \in Clocks : WF_vars(ClockLapses(t, k))

FairSpec == Spec /\ Fairness

-----------------------------------------------------------------------------
(* Properties *)

Job == [pc : Pcs, t : Payouts \cup {None}, c : Captains \cup {None},
        from : Statuses, share : Nat, platform : Nat]

RowOK ==
  /\ status \in [Payouts -> Statuses]
  /\ captainId \in [Payouts -> Captains \cup {None}]
  /\ previousCaptainIds \in [Payouts -> SUBSET Captains]
  /\ preCancelStatus \in [Payouts -> Statuses \cup {None}]
  /\ commissionPaise \in [Payouts -> Nat]
  /\ adminCommissionPaise \in [Payouts -> Nat]
  /\ confirmationDeadline \in [Payouts -> Captains \cup {None}]
  /\ lapsed \in [Payouts -> SUBSET Clocks]

RecordsOK ==
  /\ liveProof \in [Payouts -> Captains \cup {None}]
  /\ commissionRow \in [Payouts -> Captains \cup {None}]
  /\ allocations \in [Payouts -> SUBSET {"CAPTAIN", "ADMIN"}]

MoneyOK ==
  /\ dmc \in [Captains -> Int]
  /\ earned \in [Captains -> Nat]
  /\ partyDmc \in Int
  /\ pool \in Int

HistoryOK ==
  /\ crashes \in Nat
  /\ useTransactions \in BOOLEAN
  /\ hold \in [Payouts -> [Captains -> Int]]
  /\ refunded \in [Payouts -> Nat]
  /\ reimbursed \in [Payouts -> Nat]
  /\ paidCaptain \in [Payouts -> Captains \cup {None}]

\* Writes that name the captain in the job's copy.
CaptainPcs ==
  ClaimingPcs \cup {"release", "releaseCancelled", "complete", "commission", "collect",
                    "reimburse", "payShare", "proofClaim", "proofCreate", "proofQueue",
                    "proofAsk"}

JobsOK ==
  /\ jobs \in [Workers -> Job]
  /\ \A w \in Workers :
       /\ jobs[w].pc # "idle" => jobs[w].t \in Payouts
       /\ jobs[w].pc \in CaptainPcs => jobs[w].c \in Captains

\* The types of rows, records, balances and history, and which fields of a
\* job its pc says are filled in.
TypeOK == RowOK /\ RecordsOK /\ MoneyOK /\ HistoryOK /\ JobsOK

\* A payout ends with the party refunded or a captain reimbursed, never both
\* and neither twice, whatever overlaps and whenever the process stops
\* ("running that twice would refund a task once and pay for it twice").
SettledOnce ==
  \A t \in Payouts :
    /\ refunded[t] + reimbursed[t] <= 1
    /\ refunded[t] = 1 => status[t] = "CANCELLED"
    /\ reimbursed[t] = 1 => status[t] = "COMPLETED"

\* The row of t moves along an edge of the transition table, or along the
\* two edges EXPIRED -> REJECTED -> REASSIGNED in one write.
LegalMove(t) ==
  \/ status'[t] = status[t]
  \/ status[t] = "ABSENT" /\ status'[t] = "CREATED"
  \/ CanTransition(status[t], status'[t])
  \/ /\ status[t] = "EXPIRED" /\ CanTransition("EXPIRED", "REJECTED")
     /\ status'[t] = "REASSIGNED" /\ CanTransition("REJECTED", "REASSIGNED")

\* No step takes a row along an edge the transition table does not have,
\* though most writes test a status that was checked on an earlier copy.
LegalTransitions == [][\A t \in Payouts : LegalMove(t)]_vars

\* No balance is overdrawn, and a captain's commission is never counted as
\* capital they can claim with, however claims and payments overlap.
NoOverdraft ==
  /\ partyDmc >= 0 /\ pool >= 0
  /\ \A c \in Captains : earned[c] <= dmc[c]

\* A captain who has lost a payout never holds it again.
ExclusionIsPermanent ==
  [][\A t \in Payouts :
       captainId'[t] # captainId[t] => captainId'[t] \notin previousCaptainIds[t]]_vars

\* The proof a party audits, and admin arbitrates on, is the live proof of
\* the captain who holds the payout.
ProofStands ==
  \A t \in Payouts :
    status[t] \in {"AUDIT_PENDING", "REJECTED"} => liveProof[t] = captainId[t]

\* A completed payout, once nothing is running on it, has paid the captain
\* who holds it, and its Commission and DMCAllocation rows say the same.
CompletedInFull ==
  \A t \in Payouts :
    status[t] = "COMPLETED" /\ (\A w \in Workers : jobs[w].t # t) =>
      /\ reimbursed[t] = 1
      /\ paidCaptain[t] = captainId[t] /\ commissionRow[t] = captainId[t]
      /\ allocations[t] =
           {"CAPTAIN"} \cup (IF adminCommissionPaise[t] > 0 THEN {"ADMIN"} ELSE {})

\* The money for a payout goes to the captain who holds it.
HolderIsPaid ==
  \A t \in Payouts : reimbursed[t] > 0 => paidCaptain[t] = captainId[t]

\* Left to the sweeps, a payout always comes to rest: ended, or with a
\* person who was asked to decide.
EveryPayoutComesToRest ==
  \A t \in Payouts :
    []<>(status[t] \in TERMINAL_STATES \cup
           {"ABSENT", "REJECTED", "CANCEL_REVIEW", "CANCEL_DISPUTED"})
=============================================================================
