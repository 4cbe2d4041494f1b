--------------------------- MODULE Payout_proofs ---------------------------
(***************************************************************************)
(* What holds of a payout for every number of payouts, captains and        *)
(* overlapping requests, whatever the amounts.  First of PayoutWorkflow    *)
(* alone: types, legal transitions, one settlement.  Then of the money and *)
(* of who holds it: that none is made or lost, what is held from captains, *)
(* whose proof is audited, who is paid, and who is kept out.  Most of this *)
(* rests on a job that decides from its copy of a row still naming the     *)
(* captain of the row.                                                     *)
(***************************************************************************)
EXTENDS PayoutWorkflow, PayoutLedger, PayoutRefinement, Totals_proofs, TLAPS

USE ConstantsAssumption

-----------------------------------------------------------------------------
(* Jobs *)

\* The status a deciding job read is one its handler accepts.
JobFromOK ==
  \A w \in Workers :
    /\ At(w, "complete") => jobs[w].from \in {"AUDIT_PENDING", "REJECTED"}
    /\ At(w, "reassign") => jobs[w].from \in {"REJECTED", "CANCEL_DISPUTED"}
    /\ At(w, "expire")   => jobs[w].from \in {"ASSIGNED", "IN_PROGRESS"}

JobsInv == JobsOK /\ JobFromOK

\* What a job must satisfy to be started.
Startable(job) ==
  /\ job \in Job
  /\ job.pc # "idle" => job.t \in Payouts
  /\ job.pc \in CaptainPcs => job.c \in Captains
  /\ job.pc = "complete" => job.from \in {"AUDIT_PENDING", "REJECTED"}
  /\ job.pc = "reassign" => job.from \in {"REJECTED", "CANCEL_DISPUTED"}
  /\ job.pc = "expire"   => job.from \in {"ASSIGNED", "IN_PROGRESS"}

LEMMA SetJob ==
  ASSUME JobsInv, NEW w \in Workers, NEW job, Startable(job),
         jobs' = [jobs EXCEPT ![w] = job]
  PROVE  JobsInv'
BY DEF JobsInv, JobsOK, JobFromOK, At, Startable

LEMMA BeginJob ==
  ASSUME JobsInv, NEW w \in Workers, NEW job, Startable(job), Begin(w, job)
  PROVE  JobsInv'
BY SetJob DEF Begin

LEMMA GotoJob ==
  ASSUME JobsInv, NEW w \in Workers, NEW p \in Pcs \ DecidingPcs, Goto(w, p),
         ~At(w, "idle"), p \in CaptainPcs => jobs[w].c \in Captains
  PROVE  JobsInv'
BY DEF JobsInv, JobsOK, JobFromOK, DecidingPcs, Goto, At, Job

LEMMA FinishJob ==
  ASSUME JobsInv, NEW w \in Workers, Finish(w)
  PROVE  JobsInv'
BY DEF JobsInv, JobsOK, JobFromOK, At, Finish, Idle, Job, Pcs, CaptainPcs,
       ClaimingPcs, Statuses

LEMMA KeepJobs ==
  ASSUME JobsInv, UNCHANGED jobs
  PROVE  JobsInv'
BY DEF JobsInv, JobsOK, JobFromOK, At

LEMMA ReadJob ==
  ASSUME RowOK, NEW t \in Payouts, NEW p \in Pcs
  PROVE  /\ Read(t, p) \in Job
         /\ Read(t, p).pc = p /\ Read(t, p).t = t
         /\ Read(t, p).c = captainId[t] /\ Read(t, p).from = status[t]
BY DEF RowOK, Read, Job

-----------------------------------------------------------------------------
(* Types *)

\* A payout that is not open has a captain, until it is cancelled.
HasCaptain(t) ==
  status[t] \in DMC_HELD_STATES \cup {"EXPIRED", "COMPLETED"} => captainId[t] \in Captains

TypeInv ==
  /\ RowOK /\ RecordsOK /\ MoneyOK /\ HistoryOK /\ JobsInv
  /\ \A t \in Payouts : HasCaptain(t)

LEMMA TypeInit == Init => TypeInv
BY DEF Init, TypeInv, RowOK, RecordsOK, MoneyOK, HistoryOK, JobsInv, JobsOK,
       JobFromOK, At, HasCaptain, Idle, Job, Pcs, CaptainPcs, ClaimingPcs,
       Statuses, DMC_HELD_STATES

RowInv == RowOK /\ \A t \in Payouts : HasCaptain(t)

LEMMA KeepRow ==
  ASSUME RowInv, UNCHANGED rowVars
  PROVE  RowInv'
BY DEF RowInv, RowOK, HasCaptain, rowVars, rowButStatus

LEMMA KeepRecords ==
  ASSUME RecordsOK, UNCHANGED recordVars
  PROVE  RecordsOK'
BY DEF RecordsOK, recordVars

LEMMA KeepMoney ==
  ASSUME MoneyOK, UNCHANGED moneyVars
  PROVE  MoneyOK'
BY DEF MoneyOK, moneyVars

LEMMA KeepHistory ==
  ASSUME HistoryOK, UNCHANGED <<faultVars, historyVars>>
  PROVE  HistoryOK'
BY DEF HistoryOK, historyVars, faultVars

LEMMA TypeStep ==
  ASSUME TypeInv, [Next]_vars
  PROVE  TypeInv'
<1> USE DEF TypeInv
<1>1. ASSUME NEW w \in Workers, NEW t \in Payouts, CreateDebit(w, t)
      PROVE  TypeInv'
  <2>1. Startable([Idle EXCEPT !.pc = "insert", !.t = t])
    BY <1>1, ReadJob
    DEF CreateDebit, Startable, Idle, Job, Pcs, CaptainPcs, ClaimingPcs,
        DecidingPcs, SettlingPcs, Statuses, TaskStates, RowOK, HasCaptain,
        DMC_HELD_STATES, CanTransition, TASK_TRANSITIONS
  <2>2. JobsInv'
    BY <1>1, <2>1, BeginJob DEF CreateDebit
  <2>3. MoneyOK'
    BY <1>1
    DEF CreateDebit, Begin, At, JobsInv, JobsOK, Job, CaptainPcs, ClaimingPcs,
        MoneyOK
  <2> QED
    BY <1>1, <2>2, <2>3, KeepRow, KeepRecords, KeepHistory
    DEF CreateDebit, RowInv
<1>2. ASSUME NEW w \in Workers, CreateInsert(w)
      PROVE  TypeInv'
  <2>1. JobsInv'
    BY <1>2, GotoJob, FinishJob
    DEF CreateInsert, At, JobsInv, JobsOK, Job, Pcs, CaptainPcs, ClaimingPcs,
        DecidingPcs, SettlingPcs
  <2>2. RowInv'
    BY <1>2
    DEF CreateInsert, Begin, At, JobsInv, JobsOK, Job, CaptainPcs,
        ClaimingPcs, RowInv, RowOK, rowButStatus, HasCaptain, Statuses,
        TaskStates, DMC_HELD_STATES, CLAIMABLE_STATES, CanTransition,
        TASK_TRANSITIONS
  <2> QED
    BY <1>2, <2>1, <2>2, KeepRecords, KeepMoney, KeepHistory
    DEF CreateInsert, RowInv
<1>3. ASSUME NEW w \in Workers, CreateDuplicate(w)
      PROVE  TypeInv'
  <2>1. JobsInv'
    BY <1>3, GotoJob, FinishJob
    DEF CreateDuplicate, At, JobsInv, JobsOK, Job, Pcs, CaptainPcs,
        ClaimingPcs, DecidingPcs, SettlingPcs
  <2> QED
    BY <1>3, <2>1, KeepRow, KeepRecords, KeepMoney, KeepHistory
    DEF CreateDuplicate, RowInv
<1>4. ASSUME NEW w \in Workers, CreateRefundDebit(w)
      PROVE  TypeInv'
  <2>1. JobsInv'
    BY <1>4, GotoJob, FinishJob
    DEF CreateRefundDebit, At, JobsInv, JobsOK, Job, Pcs, CaptainPcs,
        ClaimingPcs, DecidingPcs, SettlingPcs
  <2>2. MoneyOK'
    BY <1>4
    DEF CreateRefundDebit, Begin, At, JobsInv, JobsOK, Job, CaptainPcs,
        ClaimingPcs, MoneyOK
  <2> QED
    BY <1>4, <2>1, <2>2, KeepRow, KeepRecords, KeepHistory
    DEF CreateRefundDebit, RowInv
<1>5. ASSUME NEW w \in Workers, NEW t \in Payouts, NEW c \in Captains, ClaimRead(w, t, c)
      PROVE  TypeInv'
  <2>1. Startable([Read(t, "hold") EXCEPT !.c = c])
    BY <1>5, ReadJob
    DEF ClaimRead, Read, Startable, Idle, Job, Pcs, CaptainPcs, ClaimingPcs,
        DecidingPcs, SettlingPcs, Statuses, TaskStates, RowOK, HasCaptain,
        DMC_HELD_STATES, CanTransition, TASK_TRANSITIONS
  <2>2. JobsInv'
    BY <1>5, <2>1, BeginJob DEF ClaimRead
  <2> QED
    BY <1>5, <2>2, KeepRow, KeepRecords, KeepMoney, KeepHistory
    DEF ClaimRead, RowInv
<1>6. ASSUME NEW w \in Workers, ClaimInTransaction(w)
      PROVE  TypeInv'
  <2>1. JobsInv'
    BY <1>6, GotoJob, FinishJob
    DEF ClaimInTransaction, TakeHold, WithinCurrentLimit, AssignTo,
        RepricedShare, At, JobsInv, JobsOK, Job, Pcs, CaptainPcs, ClaimingPcs,
        DecidingPcs, SettlingPcs
  <2>2. RowInv'
    BY <1>6
    DEF ClaimInTransaction, TakeHold, WithinCurrentLimit, AssignTo,
        RepricedShare, Begin, At, JobsInv, JobsOK, Job, CaptainPcs,
        ClaimingPcs, RowInv, RowOK, rowButStatus, HasCaptain, Statuses,
        TaskStates, DMC_HELD_STATES, CLAIMABLE_STATES, CanTransition,
        TASK_TRANSITIONS
  <2>3. MoneyOK'
    BY <1>6
    DEF ClaimInTransaction, TakeHold, WithinCurrentLimit, AssignTo,
        RepricedShare, Begin, At, JobsInv, JobsOK, Job, CaptainPcs,
        ClaimingPcs, MoneyOK
  <2>4. HistoryOK'
    BY <1>6
    DEF ClaimInTransaction, TakeHold, WithinCurrentLimit, AssignTo,
        RepricedShare, Begin, At, JobsInv, JobsOK, Job, CaptainPcs,
        ClaimingPcs, HistoryOK, historyVars, faultVars
  <2> QED
    BY <1>6, <2>1, <2>2, <2>3, <2>4, KeepRecords
    DEF ClaimInTransaction, RowInv
<1>7. ASSUME NEW w \in Workers, ClaimHold(w)
      PROVE  TypeInv'
  <2>1. JobsInv'
    BY <1>7, GotoJob, FinishJob
    DEF ClaimHold, TakeHold, WithinCurrentLimit, At, JobsInv, JobsOK, Job,
        Pcs, CaptainPcs, ClaimingPcs, DecidingPcs, SettlingPcs
  <2>2. MoneyOK'
    BY <1>7
    DEF ClaimHold, TakeHold, WithinCurrentLimit, Begin, At, JobsInv, JobsOK,
        Job, CaptainPcs, ClaimingPcs, MoneyOK
  <2>3. HistoryOK'
    BY <1>7
    DEF ClaimHold, TakeHold, WithinCurrentLimit, Begin, At, JobsInv, JobsOK,
        Job, CaptainPcs, ClaimingPcs, HistoryOK, historyVars, faultVars
  <2> QED
    BY <1>7, <2>1, <2>2, <2>3, KeepRow, KeepRecords DEF ClaimHold, RowInv
<1>8. ASSUME NEW w \in Workers, ClaimWrite(w)
      PROVE  TypeInv'
  <2>1. JobsInv'
    BY <1>8, GotoJob, FinishJob
    DEF ClaimWrite, AssignTo, RepricedShare, At, JobsInv, JobsOK, Job, Pcs,
        CaptainPcs, ClaimingPcs, DecidingPcs, SettlingPcs
  <2>2. RowInv'
    BY <1>8
    DEF ClaimWrite, AssignTo, RepricedShare, Begin, At, JobsInv, JobsOK, Job,
        CaptainPcs, ClaimingPcs, RowInv, RowOK, rowButStatus, HasCaptain,
        Statuses, TaskStates, DMC_HELD_STATES, CLAIMABLE_STATES,
        CanTransition, TASK_TRANSITIONS
  <2> QED
    BY <1>8, <2>1, <2>2, KeepRecords, KeepMoney, KeepHistory
    DEF ClaimWrite, RowInv
<1>9. ASSUME NEW w \in Workers, ClaimLost(w)
      PROVE  TypeInv'
  <2>1. JobsInv'
    BY <1>9, GotoJob, FinishJob
    DEF ClaimLost, At, JobsInv, JobsOK, Job, Pcs, CaptainPcs, ClaimingPcs,
        DecidingPcs, SettlingPcs
  <2> QED
    BY <1>9, <2>1, KeepRow, KeepRecords, KeepMoney, KeepHistory
    DEF ClaimLost, RowInv
<1>10. ASSUME NEW w \in Workers, ClaimRefused(w)
      PROVE  TypeInv'
  <2>1. JobsInv'
    BY <1>10, GotoJob, FinishJob
    DEF ClaimRefused, At, JobsInv, JobsOK, Job, Pcs, CaptainPcs, ClaimingPcs,
        DecidingPcs, SettlingPcs
  <2> QED
    BY <1>10, <2>1, KeepRow, KeepRecords, KeepMoney, KeepHistory
    DEF ClaimRefused, RowInv
<1>11. ASSUME NEW t \in Payouts, NEW c \in Captains, StartTask(t, c)
      PROVE  TypeInv'
  <2>1. JobsInv'
    BY <1>11, KeepJobs DEF StartTask
  <2>2. RowInv'
    BY <1>11
    DEF StartTask, Begin, At, JobsInv, JobsOK, Job, CaptainPcs, ClaimingPcs,
        RowInv, RowOK, rowButStatus, HasCaptain, Statuses, TaskStates,
        DMC_HELD_STATES, CLAIMABLE_STATES, CanTransition, TASK_TRANSITIONS
  <2> QED
    BY <1>11, <2>1, <2>2, KeepRecords, KeepMoney, KeepHistory
    DEF StartTask, RowInv
<1>12. ASSUME NEW w \in Workers, NEW t \in Payouts, NEW c \in Captains, ProofRead(w, t, c)
      PROVE  TypeInv'
  <2>1. Startable(Read(t, "proofClaim"))
    BY <1>12, ReadJob
    DEF ProofRead, Startable, Idle, Job, Pcs, CaptainPcs, ClaimingPcs,
        DecidingPcs, SettlingPcs, Statuses, TaskStates, RowOK, HasCaptain,
        DMC_HELD_STATES, CanTransition, TASK_TRANSITIONS
  <2>2. JobsInv'
    BY <1>12, <2>1, BeginJob DEF ProofRead
  <2> QED
    BY <1>12, <2>2, KeepRow, KeepRecords, KeepMoney, KeepHistory
    DEF ProofRead, RowInv
<1>13. ASSUME NEW w \in Workers, ProofClaim(w)
      PROVE  TypeInv'
  <2>1. JobsInv'
    BY <1>13, GotoJob, FinishJob
    DEF ProofClaim, At, JobsInv, JobsOK, Job, Pcs, CaptainPcs, ClaimingPcs,
        DecidingPcs, SettlingPcs
  <2>2. RowInv'
    <3>1. PICK t \in Payouts : t = jobs[w].t
      BY <1>13 DEF ProofClaim, At, JobsInv, JobsOK
    <3>2. CASE captainId[t] = jobs[w].c /\ status[t] = "IN_PROGRESS"
      BY <1>13, <3>1, <3>2
      DEF ProofClaim, RowInv, RowOK, rowButStatus, HasCaptain, Statuses, TaskStates,
          DMC_HELD_STATES
    <3>3. CASE ~(captainId[t] = jobs[w].c /\ status[t] = "IN_PROGRESS")
      BY <1>13, <3>1, <3>3 DEF ProofClaim, RowInv, RowOK, rowButStatus, HasCaptain
    <3> QED
      BY <3>2, <3>3
  <2> QED
    BY <1>13, <2>1, <2>2, KeepRecords, KeepMoney, KeepHistory
    DEF ProofClaim, RowInv
<1>14. ASSUME NEW w \in Workers, ProofCreate(w)
      PROVE  TypeInv'
  <2>1. JobsInv'
    BY <1>14, GotoJob, FinishJob
    DEF ProofCreate, At, JobsInv, JobsOK, Job, Pcs, CaptainPcs, ClaimingPcs,
        DecidingPcs, SettlingPcs
  <2>2. RecordsOK'
    BY <1>14
    DEF ProofCreate, Begin, At, JobsInv, JobsOK, Job, CaptainPcs, ClaimingPcs,
        RecordsOK
  <2> QED
    BY <1>14, <2>1, <2>2, KeepRow, KeepMoney, KeepHistory
    DEF ProofCreate, RowInv
<1>15. ASSUME NEW w \in Workers, ProofQueue(w)
      PROVE  TypeInv'
  <2>1. JobsInv'
    BY <1>15, GotoJob, FinishJob
    DEF ProofQueue, At, JobsInv, JobsOK, Job, Pcs, CaptainPcs, ClaimingPcs,
        DecidingPcs, SettlingPcs
  <2>2. RowInv'
    BY <1>15
    DEF ProofQueue, Begin, At, JobsInv, JobsOK, Job, CaptainPcs, ClaimingPcs,
        RowInv, RowOK, rowButStatus, HasCaptain, Statuses, TaskStates,
        DMC_HELD_STATES, CLAIMABLE_STATES, CanTransition, TASK_TRANSITIONS
  <2> QED
    BY <1>15, <2>1, <2>2, KeepRecords, KeepMoney, KeepHistory
    DEF ProofQueue, RowInv
<1>16. ASSUME NEW w \in Workers, ProofAsk(w)
      PROVE  TypeInv'
  <2>1. JobsInv'
    BY <1>16, GotoJob, FinishJob
    DEF ProofAsk, At, JobsInv, JobsOK, Job, Pcs, CaptainPcs, ClaimingPcs,
        DecidingPcs, SettlingPcs
  <2>2. RowInv'
    <3>1. jobs[w].t \in Payouts /\ jobs[w].c \in Captains
      BY <1>16 DEF ProofAsk, At, JobsInv, JobsOK, CaptainPcs
    <3>2. RowOK'
      BY <1>16, <3>1 DEF ProofAsk, RowInv, RowOK
    <3>3. \A t \in Payouts : HasCaptain(t)'
      BY <1>16 DEF ProofAsk, RowInv, HasCaptain
    <3> QED
      BY <3>2, <3>3 DEF RowInv
  <2> QED
    BY <1>16, <2>1, <2>2, KeepRecords, KeepMoney, KeepHistory
    DEF ProofAsk, RowInv
<1>17. ASSUME NEW w \in Workers, NEW t \in Payouts, NEW next \in {"approve", "reject"}, ClearDeadline(w, t, next)
      PROVE  TypeInv'
  <2>1. Startable([Idle EXCEPT !.pc = next, !.t = t])
    BY <1>17, ReadJob
    DEF ClearDeadline, Startable, Idle, Job, Pcs, CaptainPcs, ClaimingPcs,
        DecidingPcs, SettlingPcs, Statuses, TaskStates, RowOK, HasCaptain,
        DMC_HELD_STATES, CanTransition, TASK_TRANSITIONS
  <2>2. JobsInv'
    BY <1>17, <2>1, BeginJob DEF ClearDeadline
  <2>3. RowInv'
    BY <1>17
    DEF ClearDeadline, Begin, At, JobsInv, JobsOK, Job, CaptainPcs,
        ClaimingPcs, RowInv, RowOK, rowButStatus, HasCaptain, Statuses,
        TaskStates, DMC_HELD_STATES, CLAIMABLE_STATES, CanTransition,
        TASK_TRANSITIONS
  <2> QED
    BY <1>17, <2>2, <2>3, KeepRecords, KeepMoney, KeepHistory
    DEF ClearDeadline, RowInv
<1>18. ASSUME NEW w \in Workers, ApproveAfterClear(w)
      PROVE  TypeInv'
  <2>1. PICK t \in Payouts : t = jobs[w].t
    BY <1>18 DEF ApproveAfterClear, At, JobsInv, JobsOK
  <2>2. JobsInv'
    <3>1. CASE status[t] = "AUDIT_PENDING"
      <4>1. Startable(Read(t, "complete"))
        BY <3>1, ReadJob
        DEF Startable, HasCaptain, DMC_HELD_STATES, Pcs, DecidingPcs
      <4> QED
        BY <1>18, <2>1, <3>1, <4>1, SetJob DEF ApproveAfterClear
    <3>2. CASE status[t] # "AUDIT_PENDING"
      BY <1>18, <2>1, <3>2, FinishJob DEF ApproveAfterClear
    <3> QED
      BY <3>1, <3>2
  <2> QED
    BY <1>18, <2>2
    DEF ApproveAfterClear, RowOK, rowVars, rowButStatus, RecordsOK, recordVars,
        MoneyOK, moneyVars, HistoryOK, historyVars, faultVars, HasCaptain
<1>19. ASSUME NEW t \in Payouts, RejectTask(t)
      PROVE  TypeInv'
  <2>1. JobsInv'
    BY <1>19, KeepJobs DEF RejectTask, MarkRejected
  <2>2. RowInv'
    BY <1>19
    DEF RejectTask, MarkRejected, Begin, At, RowInv, RowOK, rowButStatus,
        HasCaptain, Statuses, TaskStates, DMC_HELD_STATES, CLAIMABLE_STATES,
        CanTransition, TASK_TRANSITIONS
  <2> QED
    BY <1>19, <2>1, <2>2, KeepRecords, KeepMoney, KeepHistory
    DEF RejectTask, RowInv
<1>20. ASSUME NEW w \in Workers, RejectAfterClear(w)
      PROVE  TypeInv'
  <2>1. JobsInv'
    BY <1>20, FinishJob DEF RejectAfterClear
  <2>2. PICK t \in Payouts : t = jobs[w].t
    BY <1>20 DEF RejectAfterClear, At, JobsInv, JobsOK
  <2>3. RowOK' /\ \A u \in Payouts : HasCaptain(u)'
    <3>1. CASE MarkRejected(t)
      BY <1>20, <2>2, <3>1
      DEF RejectAfterClear, MarkRejected, RowOK, rowButStatus, HasCaptain,
          Statuses, TaskStates, DMC_HELD_STATES
    <3>2. CASE UNCHANGED status
      BY <1>20, <3>2 DEF RejectAfterClear, RowOK, rowButStatus, HasCaptain
    <3> QED
      BY <1>20, <2>2, <3>1, <3>2 DEF RejectAfterClear
  <2> QED
    BY <1>20, <2>1, <2>3
    DEF RejectAfterClear, RecordsOK, recordVars, MoneyOK, moneyVars, HistoryOK,
        historyVars, faultVars
<1>21. ASSUME NEW w \in Workers, NEW t \in Payouts, ApproveRead(w, t)
      PROVE  TypeInv'
  <2>1. Startable(Read(t, "complete"))
    BY <1>21, ReadJob
    DEF ApproveRead, Startable, Idle, Job, Pcs, CaptainPcs, ClaimingPcs,
        DecidingPcs, SettlingPcs, Statuses, TaskStates, RowOK, HasCaptain,
        DMC_HELD_STATES, CanTransition, TASK_TRANSITIONS
  <2>2. JobsInv'
    BY <1>21, <2>1, BeginJob DEF ApproveRead
  <2> QED
    BY <1>21, <2>2, KeepRow, KeepRecords, KeepMoney, KeepHistory
    DEF ApproveRead, RowInv
<1>22. ASSUME NEW w \in Workers, NEW t \in Payouts, OverruleRead(w, t)
      PROVE  TypeInv'
  <2>1. Startable(Read(t, "complete"))
    BY <1>22, ReadJob
    DEF OverruleRead, Startable, Idle, Job, Pcs, CaptainPcs, ClaimingPcs,
        DecidingPcs, SettlingPcs, Statuses, TaskStates, RowOK, HasCaptain,
        DMC_HELD_STATES, CanTransition, TASK_TRANSITIONS
  <2>2. JobsInv'
    BY <1>22, <2>1, BeginJob DEF OverruleRead
  <2> QED
    BY <1>22, <2>2, KeepRow, KeepRecords, KeepMoney, KeepHistory
    DEF OverruleRead, RowInv
<1>23. ASSUME NEW w \in Workers, CompleteInTransaction(w)
      PROVE  TypeInv'
  <2>1. JobsInv'
    BY <1>23, GotoJob, FinishJob
    DEF CompleteInTransaction, MarkCompleted, CreditCommission,
        ReimburseCaptain, AllocationOwners, At, JobsInv, JobsOK, Job, Pcs,
        CaptainPcs, ClaimingPcs, DecidingPcs, SettlingPcs
  <2>2. RowInv'
    BY <1>23
    DEF CompleteInTransaction, MarkCompleted, CreditCommission,
        ReimburseCaptain, AllocationOwners, Begin, At, JobsInv, JobsOK, Job,
        CaptainPcs, ClaimingPcs, RowInv, RowOK, rowButStatus, HasCaptain,
        Statuses, TaskStates, DMC_HELD_STATES, CLAIMABLE_STATES,
        CanTransition, TASK_TRANSITIONS
  <2>3. RecordsOK'
    BY <1>23
    DEF CompleteInTransaction, MarkCompleted, CreditCommission,
        ReimburseCaptain, AllocationOwners, Begin, At, JobsInv, JobsOK, Job,
        CaptainPcs, ClaimingPcs, RecordsOK
  <2>4. MoneyOK'
    BY <1>23
    DEF CompleteInTransaction, MarkCompleted, CreditCommission,
        ReimburseCaptain, AllocationOwners, Begin, At, JobsInv, JobsOK, Job,
        CaptainPcs, ClaimingPcs, MoneyOK
  <2>5. HistoryOK'
    BY <1>23
    DEF CompleteInTransaction, MarkCompleted, CreditCommission,
        ReimburseCaptain, AllocationOwners, Begin, At, JobsInv, JobsOK, Job,
        CaptainPcs, ClaimingPcs, HistoryOK, historyVars, faultVars
  <2> QED
    BY <1>23, <2>1, <2>2, <2>3, <2>4, <2>5 DEF CompleteInTransaction, RowInv
<1>24. ASSUME NEW w \in Workers, CompleteWrite(w)
      PROVE  TypeInv'
  <2>1. JobsInv'
    BY <1>24, GotoJob, FinishJob
    DEF CompleteWrite, MarkCompleted, At, JobsInv, JobsOK, Job, Pcs,
        CaptainPcs, ClaimingPcs, DecidingPcs, SettlingPcs
  <2>2. RowInv'
    BY <1>24
    DEF CompleteWrite, MarkCompleted, Begin, At, JobsInv, JobsOK, Job,
        CaptainPcs, ClaimingPcs, RowInv, RowOK, rowButStatus, HasCaptain,
        Statuses, TaskStates, DMC_HELD_STATES, CLAIMABLE_STATES,
        CanTransition, TASK_TRANSITIONS
  <2> QED
    BY <1>24, <2>1, <2>2, KeepRecords, KeepMoney, KeepHistory
    DEF CompleteWrite, RowInv
<1>25. ASSUME NEW w \in Workers, CompleteLost(w)
      PROVE  TypeInv'
  <2>1. JobsInv'
    BY <1>25, GotoJob, FinishJob
    DEF CompleteLost, At, JobsInv, JobsOK, Job, Pcs, CaptainPcs, ClaimingPcs,
        DecidingPcs, SettlingPcs
  <2> QED
    BY <1>25, <2>1, KeepRow, KeepRecords, KeepMoney, KeepHistory
    DEF CompleteLost, RowInv
<1>26. ASSUME NEW w \in Workers, CompleteCommission(w)
      PROVE  TypeInv'
  <2>1. JobsInv'
    BY <1>26, GotoJob, FinishJob
    DEF CompleteCommission, CreditCommission, At, JobsInv, JobsOK, Job, Pcs,
        CaptainPcs, ClaimingPcs, DecidingPcs, SettlingPcs
  <2>2. RecordsOK'
    BY <1>26
    DEF CompleteCommission, CreditCommission, Begin, At, JobsInv, JobsOK, Job,
        CaptainPcs, ClaimingPcs, RecordsOK
  <2> QED
    BY <1>26, <2>1, <2>2, KeepRow, KeepMoney, KeepHistory
    DEF CompleteCommission, RowInv
<1>27. ASSUME NEW w \in Workers, CompleteCollect(w)
      PROVE  TypeInv'
  <2>1. JobsInv'
    BY <1>27, GotoJob, FinishJob
    DEF CompleteCollect, At, JobsInv, JobsOK, Job, Pcs, CaptainPcs,
        ClaimingPcs, DecidingPcs, SettlingPcs
  <2>2. MoneyOK'
    BY <1>27
    DEF CompleteCollect, Begin, At, JobsInv, JobsOK, Job, CaptainPcs,
        ClaimingPcs, MoneyOK
  <2> QED
    BY <1>27, <2>1, <2>2, KeepRow, KeepRecords, KeepHistory
    DEF CompleteCollect, RowInv
<1>28. ASSUME NEW w \in Workers, CompleteReimburse(w)
      PROVE  TypeInv'
  <2>1. JobsInv'
    BY <1>28, GotoJob, FinishJob
    DEF CompleteReimburse, ReimburseCaptain, At, JobsInv, JobsOK, Job, Pcs,
        CaptainPcs, ClaimingPcs, DecidingPcs, SettlingPcs
  <2>2. MoneyOK'
    BY <1>28
    DEF CompleteReimburse, ReimburseCaptain, Begin, At, JobsInv, JobsOK, Job,
        CaptainPcs, ClaimingPcs, MoneyOK
  <2>3. HistoryOK'
    BY <1>28
    DEF CompleteReimburse, ReimburseCaptain, Begin, At, JobsInv, JobsOK, Job,
        CaptainPcs, ClaimingPcs, HistoryOK, historyVars, faultVars
  <2> QED
    BY <1>28, <2>1, <2>2, <2>3, KeepRow, KeepRecords
    DEF CompleteReimburse, RowInv
<1>29. ASSUME NEW w \in Workers, CompletePayShare(w)
      PROVE  TypeInv'
  <2>1. JobsInv'
    BY <1>29, GotoJob DEF CompletePayShare, At, Pcs, CaptainPcs, DecidingPcs, ClaimingPcs, SettlingPcs
  <2>2. jobs[w].c \in Captains /\ jobs[w].share \in Nat
    BY <1>29 DEF CompletePayShare, At, JobsInv, JobsOK, Job, CaptainPcs
  <2>3. MoneyOK'
    <3>1. CASE jobs[w].share <= pool
      BY <1>29, <2>2, <3>1 DEF CompletePayShare, MoneyOK
    <3>2. CASE ~(jobs[w].share <= pool)
      BY <1>29, <3>2 DEF CompletePayShare, MoneyOK
    <3> QED
      BY <3>1, <3>2
  <2> QED
    BY <1>29, <2>1, <2>3
    DEF CompletePayShare, RowOK, rowVars, rowButStatus, RecordsOK, recordVars,
        HistoryOK, historyVars, faultVars, HasCaptain
<1>30. ASSUME NEW w \in Workers, CompleteAllocateCaptain(w)
      PROVE  TypeInv'
  <2>1. JobsInv'
    BY <1>30, GotoJob, FinishJob
    DEF CompleteAllocateCaptain, At, JobsInv, JobsOK, Job, Pcs, CaptainPcs,
        ClaimingPcs, DecidingPcs, SettlingPcs
  <2>2. RecordsOK'
    BY <1>30
    DEF CompleteAllocateCaptain, Begin, At, JobsInv, JobsOK, Job, CaptainPcs,
        ClaimingPcs, RecordsOK
  <2> QED
    BY <1>30, <2>1, <2>2, KeepRow, KeepMoney, KeepHistory
    DEF CompleteAllocateCaptain, RowInv
<1>31. ASSUME NEW w \in Workers, CompleteAllocatePlatform(w)
      PROVE  TypeInv'
  <2>1. JobsInv'
    BY <1>31, GotoJob, FinishJob
    DEF CompleteAllocatePlatform, AllocationOwners, At, JobsInv, JobsOK, Job,
        Pcs, CaptainPcs, ClaimingPcs, DecidingPcs, SettlingPcs
  <2>2. RecordsOK'
    BY <1>31
    DEF CompleteAllocatePlatform, AllocationOwners, Begin, At, JobsInv,
        JobsOK, Job, CaptainPcs, ClaimingPcs, RecordsOK
  <2> QED
    BY <1>31, <2>1, <2>2, KeepRow, KeepMoney, KeepHistory
    DEF CompleteAllocatePlatform, RowInv
<1>32. ASSUME NEW w \in Workers, NEW t \in Payouts, ReassignRead(w, t)
      PROVE  TypeInv'
  <2>1. Startable(Read(t, "reassign"))
    BY <1>32, ReadJob
    DEF ReassignRead, Startable, Idle, Job, Pcs, CaptainPcs, ClaimingPcs,
        DecidingPcs, SettlingPcs, Statuses, TaskStates, RowOK, HasCaptain,
        DMC_HELD_STATES, CanTransition, TASK_TRANSITIONS
  <2>2. JobsInv'
    BY <1>32, <2>1, BeginJob DEF ReassignRead
  <2> QED
    BY <1>32, <2>2, KeepRow, KeepRecords, KeepMoney, KeepHistory
    DEF ReassignRead, RowInv
<1>33. ASSUME NEW w \in Workers, ReassignWrite(w)
      PROVE  TypeInv'
  <2>1. JobsInv'
    BY <1>33, GotoJob, FinishJob
    DEF ReassignWrite, ReturnToPool, At, JobsInv, JobsOK, Job, Pcs,
        CaptainPcs, ClaimingPcs, DecidingPcs, SettlingPcs
  <2>2. RowInv'
    BY <1>33
    DEF ReassignWrite, ReturnToPool, Begin, At, JobsInv, JobsOK, Job,
        CaptainPcs, ClaimingPcs, RowInv, RowOK, rowButStatus, HasCaptain,
        Statuses, TaskStates, DMC_HELD_STATES, CLAIMABLE_STATES,
        CanTransition, TASK_TRANSITIONS
  <2> QED
    BY <1>33, <2>1, <2>2, KeepRecords, KeepMoney, KeepHistory
    DEF ReassignWrite, RowInv
<1>34. ASSUME NEW w \in Workers, ReassignLost(w)
      PROVE  TypeInv'
  <2>1. JobsInv'
    BY <1>34, GotoJob, FinishJob
    DEF ReassignLost, At, JobsInv, JobsOK, Job, Pcs, CaptainPcs, ClaimingPcs,
        DecidingPcs, SettlingPcs
  <2> QED
    BY <1>34, <2>1, KeepRow, KeepRecords, KeepMoney, KeepHistory
    DEF ReassignLost, RowInv
<1>35. ASSUME NEW w \in Workers, ReassignSupersede(w)
      PROVE  TypeInv'
  <2>1. JobsInv'
    BY <1>35, GotoJob, FinishJob
    DEF ReassignSupersede, At, JobsInv, JobsOK, Job, Pcs, CaptainPcs,
        ClaimingPcs, DecidingPcs, SettlingPcs
  <2>2. RecordsOK'
    BY <1>35
    DEF ReassignSupersede, Begin, At, JobsInv, JobsOK, Job, CaptainPcs,
        ClaimingPcs, RecordsOK
  <2> QED
    BY <1>35, <2>1, <2>2, KeepRow, KeepMoney, KeepHistory
    DEF ReassignSupersede, RowInv
<1>36. ASSUME NEW w \in Workers, Release(w)
      PROVE  TypeInv'
  <2>1. JobsInv'
    BY <1>36, GotoJob, FinishJob
    DEF Release, ReleaseHold, At, JobsInv, JobsOK, Job, Pcs, CaptainPcs,
        ClaimingPcs, DecidingPcs, SettlingPcs
  <2>2. MoneyOK'
    BY <1>36
    DEF Release, ReleaseHold, Begin, At, JobsInv, JobsOK, Job, CaptainPcs,
        ClaimingPcs, MoneyOK
  <2>3. HistoryOK'
    BY <1>36
    DEF Release, ReleaseHold, Begin, At, JobsInv, JobsOK, Job, CaptainPcs,
        ClaimingPcs, HistoryOK, historyVars, faultVars
  <2> QED
    BY <1>36, <2>1, <2>2, <2>3, KeepRow, KeepRecords DEF Release, RowInv
<1>37. ASSUME NEW w \in Workers, NEW t \in Payouts, CancelUnclaimed(w, t)
      PROVE  TypeInv'
  <2>1. Startable(Read(t, "refund"))
    BY <1>37, ReadJob
    DEF CancelUnclaimed, Startable, Idle, Job, Pcs, CaptainPcs, ClaimingPcs,
        DecidingPcs, SettlingPcs, Statuses, TaskStates, RowOK, HasCaptain,
        DMC_HELD_STATES, CanTransition, TASK_TRANSITIONS
  <2>2. JobsInv'
    BY <1>37, <2>1, BeginJob DEF CancelUnclaimed
  <2>3. RowInv'
    BY <1>37
    DEF CancelUnclaimed, Begin, At, JobsInv, JobsOK, Job, CaptainPcs,
        ClaimingPcs, RowInv, RowOK, rowButStatus, HasCaptain, Statuses,
        TaskStates, DMC_HELD_STATES, CLAIMABLE_STATES, CanTransition,
        TASK_TRANSITIONS
  <2> QED
    BY <1>37, <2>2, <2>3, KeepRecords, KeepMoney, KeepHistory
    DEF CancelUnclaimed, RowInv
<1>38. ASSUME NEW t \in Payouts, RequestCancellation(t)
      PROVE  TypeInv'
  <2>1. JobsInv'
    BY <1>38, KeepJobs DEF RequestCancellation
  <2>2. RowInv'
    BY <1>38
    DEF RequestCancellation, Begin, At, RowInv, RowOK, rowButStatus,
        HasCaptain, Statuses, TaskStates, DMC_HELD_STATES, CLAIMABLE_STATES,
        CanTransition, TASK_TRANSITIONS
  <2> QED
    BY <1>38, <2>1, <2>2, KeepRecords, KeepMoney, KeepHistory
    DEF RequestCancellation, RowInv
<1>39. ASSUME NEW w \in Workers, NEW t \in Payouts, ApproveCancellation(w, t)
      PROVE  TypeInv'
  <2>1. Startable(Read(t, IF captainId[t] # None THEN "releaseCancelled" ELSE "refund"))
    BY <1>39, ReadJob
    DEF ApproveCancellation, Startable, Idle, Job, Pcs, CaptainPcs,
        ClaimingPcs, DecidingPcs, SettlingPcs, Statuses, TaskStates, RowOK,
        HasCaptain, DMC_HELD_STATES, CanTransition, TASK_TRANSITIONS
  <2>2. JobsInv'
    BY <1>39, <2>1, BeginJob DEF ApproveCancellation
  <2>3. RowInv'
    BY <1>39
    DEF ApproveCancellation, Begin, At, JobsInv, JobsOK, Job, CaptainPcs,
        ClaimingPcs, RowInv, RowOK, rowButStatus, HasCaptain, Statuses,
        TaskStates, DMC_HELD_STATES, CLAIMABLE_STATES, CanTransition,
        TASK_TRANSITIONS
  <2> QED
    BY <1>39, <2>2, <2>3, KeepRecords, KeepMoney, KeepHistory
    DEF ApproveCancellation, RowInv
<1>40. ASSUME NEW t \in Payouts, DisputeCancellation(t)
      PROVE  TypeInv'
  <2>1. JobsInv'
    BY <1>40, KeepJobs DEF DisputeCancellation
  <2>2. RowInv'
    BY <1>40
    DEF DisputeCancellation, Begin, At, RowInv, RowOK, rowButStatus,
        HasCaptain, Statuses, TaskStates, DMC_HELD_STATES, CLAIMABLE_STATES,
        CanTransition, TASK_TRANSITIONS
  <2> QED
    BY <1>40, <2>1, <2>2, KeepRecords, KeepMoney, KeepHistory
    DEF DisputeCancellation, RowInv
<1>41. ASSUME NEW w \in Workers, ReleaseCancelled(w)
      PROVE  TypeInv'
  <2>1. JobsInv'
    BY <1>41, GotoJob, FinishJob
    DEF ReleaseCancelled, ReleaseHold, At, JobsInv, JobsOK, Job, Pcs,
        CaptainPcs, ClaimingPcs, DecidingPcs, SettlingPcs
  <2>2. MoneyOK'
    BY <1>41
    DEF ReleaseCancelled, ReleaseHold, Begin, At, JobsInv, JobsOK, Job,
        CaptainPcs, ClaimingPcs, MoneyOK
  <2>3. HistoryOK'
    BY <1>41
    DEF ReleaseCancelled, ReleaseHold, Begin, At, JobsInv, JobsOK, Job,
        CaptainPcs, ClaimingPcs, HistoryOK, historyVars, faultVars
  <2> QED
    BY <1>41, <2>1, <2>2, <2>3, KeepRow, KeepRecords
    DEF ReleaseCancelled, RowInv
<1>42. ASSUME NEW w \in Workers, RefundParty(w)
      PROVE  TypeInv'
  <2>1. JobsInv'
    BY <1>42, GotoJob, FinishJob
    DEF RefundParty, At, JobsInv, JobsOK, Job, Pcs, CaptainPcs, ClaimingPcs,
        DecidingPcs, SettlingPcs
  <2>2. MoneyOK'
    BY <1>42
    DEF RefundParty, Begin, At, JobsInv, JobsOK, Job, CaptainPcs, ClaimingPcs,
        MoneyOK
  <2>3. HistoryOK'
    BY <1>42
    DEF RefundParty, Begin, At, JobsInv, JobsOK, Job, CaptainPcs, ClaimingPcs,
        HistoryOK, historyVars, faultVars
  <2> QED
    BY <1>42, <2>1, <2>2, <2>3, KeepRow, KeepRecords DEF RefundParty, RowInv
<1>43. ASSUME NEW t \in Payouts, RestoreDisputed(t)
      PROVE  TypeInv'
  <2>1. JobsInv'
    BY <1>43, KeepJobs DEF RestoreDisputed
  <2>2. RowInv'
    BY <1>43
    DEF RestoreDisputed, Begin, At, RowInv, RowOK, rowButStatus, HasCaptain,
        Statuses, TaskStates, DMC_HELD_STATES, CLAIMABLE_STATES,
        CanTransition, TASK_TRANSITIONS
  <2> QED
    BY <1>43, <2>1, <2>2, KeepRecords, KeepMoney, KeepHistory
    DEF RestoreDisputed, RowInv
<1>44. ASSUME NEW w \in Workers, NEW t \in Payouts, ExpireRead(w, t)
      PROVE  TypeInv'
  <2>1. Startable(Read(t, "expire"))
    BY <1>44, ReadJob
    DEF ExpireRead, Startable, Idle, Job, Pcs, CaptainPcs, ClaimingPcs,
        DecidingPcs, SettlingPcs, Statuses, TaskStates, RowOK, HasCaptain,
        DMC_HELD_STATES, CanTransition, TASK_TRANSITIONS
  <2>2. JobsInv'
    BY <1>44, <2>1, BeginJob DEF ExpireRead
  <2> QED
    BY <1>44, <2>2, KeepRow, KeepRecords, KeepMoney, KeepHistory
    DEF ExpireRead, RowInv
<1>45. ASSUME NEW w \in Workers, ExpireWrite(w)
      PROVE  TypeInv'
  <2>1. JobsInv'
    BY <1>45, GotoJob, FinishJob
    DEF ExpireWrite, At, JobsInv, JobsOK, Job, Pcs, CaptainPcs, ClaimingPcs,
        DecidingPcs, SettlingPcs
  <2>2. RowInv'
    BY <1>45
    DEF ExpireWrite, Begin, At, JobsInv, JobsOK, Job, CaptainPcs, ClaimingPcs,
        JobFromOK, RowInv, RowOK, rowButStatus, HasCaptain, Statuses,
        TaskStates, DMC_HELD_STATES, CLAIMABLE_STATES, CanTransition,
        TASK_TRANSITIONS
  <2> QED
    BY <1>45, <2>1, <2>2, KeepRecords, KeepMoney, KeepHistory
    DEF ExpireWrite, RowInv
<1>46. ASSUME NEW w \in Workers, ExpireLost(w)
      PROVE  TypeInv'
  <2>1. JobsInv'
    BY <1>46, GotoJob, FinishJob
    DEF ExpireLost, At, JobsInv, JobsOK, Job, Pcs, CaptainPcs, ClaimingPcs,
        DecidingPcs, SettlingPcs
  <2> QED
    BY <1>46, <2>1, KeepRow, KeepRecords, KeepMoney, KeepHistory
    DEF ExpireLost, RowInv
<1>47. ASSUME NEW w \in Workers, NEW t \in Payouts, ReturnRead(w, t)
      PROVE  TypeInv'
  <2>1. Startable(Read(t, "return"))
    BY <1>47, ReadJob
    DEF ReturnRead, Startable, Idle, Job, Pcs, CaptainPcs, ClaimingPcs,
        DecidingPcs, SettlingPcs, Statuses, TaskStates, RowOK, HasCaptain,
        DMC_HELD_STATES, CanTransition, TASK_TRANSITIONS
  <2>2. JobsInv'
    BY <1>47, <2>1, BeginJob DEF ReturnRead
  <2> QED
    BY <1>47, <2>2, KeepRow, KeepRecords, KeepMoney, KeepHistory
    DEF ReturnRead, RowInv
<1>48. ASSUME NEW w \in Workers, ReturnWrite(w)
      PROVE  TypeInv'
  <2>1. JobsInv'
    BY <1>48, GotoJob, FinishJob
    DEF ReturnWrite, ReturnToPool, At, JobsInv, JobsOK, Job, Pcs, CaptainPcs,
        ClaimingPcs, DecidingPcs, SettlingPcs
  <2>2. RowInv'
    BY <1>48
    DEF ReturnWrite, ReturnToPool, Begin, At, JobsInv, JobsOK, Job,
        CaptainPcs, ClaimingPcs, RowInv, RowOK, rowButStatus, HasCaptain,
        Statuses, TaskStates, DMC_HELD_STATES, CLAIMABLE_STATES,
        CanTransition, TASK_TRANSITIONS
  <2> QED
    BY <1>48, <2>1, <2>2, KeepRecords, KeepMoney, KeepHistory
    DEF ReturnWrite, RowInv
<1>49. ASSUME NEW w \in Workers, ReturnLost(w)
      PROVE  TypeInv'
  <2>1. JobsInv'
    BY <1>49, GotoJob, FinishJob
    DEF ReturnLost, At, JobsInv, JobsOK, Job, Pcs, CaptainPcs, ClaimingPcs,
        DecidingPcs, SettlingPcs
  <2> QED
    BY <1>49, <2>1, KeepRow, KeepRecords, KeepMoney, KeepHistory
    DEF ReturnLost, RowInv
<1>50. ASSUME NEW t \in Payouts, NEW k \in Clocks, ClockLapses(t, k)
      PROVE  TypeInv'
  <2>1. JobsInv'
    BY <1>50, KeepJobs DEF ClockLapses, Running
  <2>2. RowInv'
    BY <1>50
    DEF ClockLapses, Running, Begin, At, JobsInv, JobsOK, Job, CaptainPcs,
        ClaimingPcs, RowInv, RowOK, rowButStatus, HasCaptain, Statuses,
        TaskStates, DMC_HELD_STATES, CLAIMABLE_STATES, CanTransition,
        TASK_TRANSITIONS
  <2> QED
    BY <1>50, <2>1, <2>2, KeepRecords, KeepMoney, KeepHistory
    DEF ClockLapses, RowInv
<1>51. ASSUME Crash
      PROVE  TypeInv'
  <2>1. JobsInv'
    BY <1>51
    DEF Crash, JobsInv, JobsOK, JobFromOK, At, Idle, Job, Pcs, CaptainPcs,
        ClaimingPcs, Statuses
  <2>2. HistoryOK'
    BY <1>51 DEF Crash, Begin, At, HistoryOK, historyVars, faultVars
  <2> QED
    BY <1>51, <2>1, <2>2, KeepRow, KeepRecords, KeepMoney DEF Crash, RowInv
<1>52. ASSUME UNCHANGED vars
      PROVE  TypeInv'
  BY <1>52, KeepJobs
  DEF vars, RowOK, rowVars, rowButStatus, RecordsOK, recordVars, MoneyOK,
      moneyVars, HistoryOK, historyVars, faultVars, HasCaptain
<1> QED
  BY <1>1, <1>2, <1>3, <1>4, <1>5, <1>6, <1>7, <1>8, <1>9, <1>10, <1>11,
     <1>12, <1>13, <1>14, <1>15, <1>16, <1>17, <1>18, <1>19, <1>20, <1>21,
     <1>22, <1>23, <1>24, <1>25, <1>26, <1>27, <1>28, <1>29, <1>30, <1>31,
     <1>32, <1>33, <1>34, <1>35, <1>36, <1>37, <1>38, <1>39, <1>40, <1>41,
     <1>42, <1>43, <1>44, <1>45, <1>46, <1>47, <1>48, <1>49, <1>50, <1>51,
     <1>52
  DEF Next, Request, Decision, Sweep, JobStep, ConfirmReceived,
      ConfirmNotReceived, AutoApproveOnTimeout, CancelStale, RejectExpired,
      ReclaimExpired, Workers

LEMMA TypeInvariant == Spec => []TypeInv
<1>1. Init => TypeInv
  BY TypeInit
<1>2. TypeInv /\ [Next]_vars => TypeInv'
  BY TypeStep
<1> QED
  BY <1>1, <1>2, PTL DEF Spec

\* The rows, records, balances and jobs keep their types whatever handlers,
\* sweeps and crashes interleave; in particular a job that moves a captain's
\* money always names a captain.
THEOREM TypeCorrect == Spec => []TypeOK
<1>1. TypeInv => TypeOK
  BY DEF TypeInv, TypeOK, JobsInv
<1> QED
  BY <1>1, TypeInvariant, PTL
-----------------------------------------------------------------------------
(* Transitions *)

LEMMA LegalStep ==
  ASSUME TypeInv, [Next]_vars
  PROVE  \A u \in Payouts : LegalMove(u)
<1>1. ASSUME NEW w \in Workers, NEW t \in Payouts,
             CreateDebit(w, t)
      PROVE  \A u \in Payouts : LegalMove(u)
  BY <1>1
  DEF CreateDebit, At, Begin, TypeInv, RowOK, JobsInv, JobsOK, JobFromOK, Job,
      rowVars, rowButStatus, LegalMove, CanTransition, TASK_TRANSITIONS,
      TaskStates, CLAIMABLE_STATES
<1>2. ASSUME NEW w \in Workers,
             CreateInsert(w) \/ CreateDuplicate(w) \/
               CreateRefundDebit(w)
      PROVE  \A u \in Payouts : LegalMove(u)
  BY <1>2
  DEF CreateInsert, CreateDuplicate, CreateRefundDebit, At, Begin, TypeInv,
      RowOK, JobsInv, JobsOK, JobFromOK, Job, rowVars, rowButStatus,
      LegalMove, CanTransition, TASK_TRANSITIONS, TaskStates, CLAIMABLE_STATES
<1>3. ASSUME NEW w \in Workers, NEW t \in Payouts, NEW c \in Captains,
             ClaimRead(w, t, c) \/ ProofRead(w, t, c)
      PROVE  \A u \in Payouts : LegalMove(u)
  BY <1>3
  DEF ClaimRead, ProofRead, At, Begin, TypeInv, RowOK, JobsInv, JobsOK,
      JobFromOK, Job, rowVars, rowButStatus, LegalMove, CanTransition,
      TASK_TRANSITIONS, TaskStates, CLAIMABLE_STATES
<1>4. ASSUME NEW w \in Workers,
             ClaimHold(w) \/ ClaimLost(w) \/ ClaimRefused(w)
      PROVE  \A u \in Payouts : LegalMove(u)
  BY <1>4
  DEF ClaimHold, TakeHold, WithinCurrentLimit, ClaimLost, ClaimRefused, At,
      Begin, TypeInv, RowOK, JobsInv, JobsOK, JobFromOK, Job, rowVars,
      rowButStatus, LegalMove, CanTransition, TASK_TRANSITIONS, TaskStates,
      CLAIMABLE_STATES
<1>5. ASSUME NEW w \in Workers,
             ClaimInTransaction(w) \/ ClaimWrite(w)
      PROVE  \A u \in Payouts : LegalMove(u)
  BY <1>5
  DEF ClaimInTransaction, TakeHold, WithinCurrentLimit, AssignTo,
      RepricedShare, ClaimWrite, At, Begin, TypeInv, RowOK, JobsInv, JobsOK,
      JobFromOK, Job, rowVars, rowButStatus, LegalMove, CanTransition,
      TASK_TRANSITIONS, TaskStates, CLAIMABLE_STATES
<1>6. ASSUME NEW w \in Workers,
             ProofClaim(w) \/ ProofCreate(w) \/ ProofQueue(w) \/
               ProofAsk(w)
      PROVE  \A u \in Payouts : LegalMove(u)
  BY <1>6
  DEF ProofClaim, ProofCreate, ProofQueue, ProofAsk, At, Begin, TypeInv,
      RowOK, JobsInv, JobsOK, JobFromOK, Job, rowVars, rowButStatus,
      LegalMove, CanTransition, TASK_TRANSITIONS, TaskStates, CLAIMABLE_STATES
<1>7. ASSUME NEW w \in Workers, NEW t \in Payouts, NEW next \in {"approve", "reject"},
             ClearDeadline(w, t, next)
      PROVE  \A u \in Payouts : LegalMove(u)
  BY <1>7
  DEF ClearDeadline, At, Begin, TypeInv, RowOK, JobsInv, JobsOK, JobFromOK,
      Job, rowVars, rowButStatus, LegalMove, CanTransition, TASK_TRANSITIONS,
      TaskStates, CLAIMABLE_STATES
<1>8. ASSUME NEW w \in Workers,
             ApproveAfterClear(w) \/ RejectAfterClear(w)
      PROVE  \A u \in Payouts : LegalMove(u)
  BY <1>8
  DEF ApproveAfterClear, RejectAfterClear, MarkRejected, At, Begin, TypeInv,
      RowOK, JobsInv, JobsOK, JobFromOK, Job, rowVars, rowButStatus,
      LegalMove, CanTransition, TASK_TRANSITIONS, TaskStates, CLAIMABLE_STATES
<1>9. ASSUME NEW w \in Workers, NEW t \in Payouts,
             ApproveRead(w, t) \/ OverruleRead(w, t) \/ ReassignRead(w,
               t)
      PROVE  \A u \in Payouts : LegalMove(u)
  BY <1>9
  DEF ApproveRead, OverruleRead, ReassignRead, At, Begin, TypeInv, RowOK,
      JobsInv, JobsOK, JobFromOK, Job, rowVars, rowButStatus, LegalMove,
      CanTransition, TASK_TRANSITIONS, TaskStates, CLAIMABLE_STATES
<1>10. ASSUME NEW w \in Workers,
             CompleteInTransaction(w) \/ CompleteWrite(w) \/
               CompleteLost(w)
      PROVE  \A u \in Payouts : LegalMove(u)
  BY <1>10
  DEF CompleteInTransaction, MarkCompleted, CreditCommission,
      ReimburseCaptain, AllocationOwners, CompleteWrite, CompleteLost, At,
      Begin, TypeInv, RowOK, JobsInv, JobsOK, JobFromOK, Job, rowVars,
      rowButStatus, LegalMove, CanTransition, TASK_TRANSITIONS, TaskStates,
      CLAIMABLE_STATES
<1>11. ASSUME NEW w \in Workers,
             CompleteCommission(w) \/ CompleteCollect(w) \/
               CompleteReimburse(w)
      PROVE  \A u \in Payouts : LegalMove(u)
  BY <1>11
  DEF CompleteCommission, CreditCommission, CompleteCollect,
      CompleteReimburse, ReimburseCaptain, At, Begin, TypeInv, RowOK, JobsInv,
      JobsOK, JobFromOK, Job, rowVars, rowButStatus, LegalMove, CanTransition,
      TASK_TRANSITIONS, TaskStates, CLAIMABLE_STATES
<1>12. ASSUME NEW w \in Workers,
             CompletePayShare(w) \/ CompleteAllocateCaptain(w) \/
               CompleteAllocatePlatform(w)
      PROVE  \A u \in Payouts : LegalMove(u)
  BY <1>12
  DEF CompletePayShare, CompleteAllocateCaptain, CompleteAllocatePlatform,
      AllocationOwners, At, Begin, TypeInv, RowOK, JobsInv, JobsOK, JobFromOK,
      Job, rowVars, rowButStatus, LegalMove, CanTransition, TASK_TRANSITIONS,
      TaskStates, CLAIMABLE_STATES
<1>13. ASSUME NEW w \in Workers,
             ReassignWrite(w) \/ ReassignLost(w) \/ ReassignSupersede(w)
               \/ Release(w)
      PROVE  \A u \in Payouts : LegalMove(u)
  BY <1>13
  DEF ReassignWrite, ReturnToPool, ReassignLost, ReassignSupersede, Release,
      ReleaseHold, At, Begin, TypeInv, RowOK, JobsInv, JobsOK, JobFromOK, Job,
      rowVars, rowButStatus, LegalMove, CanTransition, TASK_TRANSITIONS,
      TaskStates, CLAIMABLE_STATES
<1>14. ASSUME NEW w \in Workers, NEW t \in Payouts,
             CancelUnclaimed(w, t) \/ ApproveCancellation(w, t)
      PROVE  \A u \in Payouts : LegalMove(u)
  BY <1>14
  DEF CancelUnclaimed, ApproveCancellation, At, Begin, TypeInv, RowOK,
      JobsInv, JobsOK, JobFromOK, Job, rowVars, rowButStatus, LegalMove,
      CanTransition, TASK_TRANSITIONS, TaskStates, CLAIMABLE_STATES
<1>15. ASSUME NEW w \in Workers,
             ReleaseCancelled(w) \/ RefundParty(w)
      PROVE  \A u \in Payouts : LegalMove(u)
  BY <1>15
  DEF ReleaseCancelled, ReleaseHold, RefundParty, At, Begin, TypeInv, RowOK,
      JobsInv, JobsOK, JobFromOK, Job, rowVars, rowButStatus, LegalMove,
      CanTransition, TASK_TRANSITIONS, TaskStates, CLAIMABLE_STATES
<1>16. ASSUME NEW w \in Workers, NEW t \in Payouts,
             ExpireRead(w, t) \/ ReturnRead(w, t)
      PROVE  \A u \in Payouts : LegalMove(u)
  BY <1>16
  DEF ExpireRead, ReturnRead, At, Begin, TypeInv, RowOK, JobsInv, JobsOK,
      JobFromOK, Job, rowVars, rowButStatus, LegalMove, CanTransition,
      TASK_TRANSITIONS, TaskStates, CLAIMABLE_STATES
<1>17. ASSUME NEW w \in Workers,
             ExpireWrite(w) \/ ExpireLost(w) \/ ReturnWrite(w) \/
               ReturnLost(w)
      PROVE  \A u \in Payouts : LegalMove(u)
  BY <1>17
  DEF ExpireWrite, ExpireLost, ReturnWrite, ReturnToPool, ReturnLost, At,
      Begin, TypeInv, RowOK, JobsInv, JobsOK, JobFromOK, Job, rowVars,
      rowButStatus, LegalMove, CanTransition, TASK_TRANSITIONS, TaskStates,
      CLAIMABLE_STATES
<1>18. ASSUME NEW t \in Payouts, NEW c \in Captains,
             StartTask(t, c)
      PROVE  \A u \in Payouts : LegalMove(u)
  BY <1>18
  DEF StartTask, At, Begin, TypeInv, RowOK, JobsInv, JobsOK, JobFromOK, Job,
      rowVars, rowButStatus, LegalMove, CanTransition, TASK_TRANSITIONS,
      TaskStates, CLAIMABLE_STATES
<1>19. ASSUME NEW t \in Payouts,
             RejectTask(t) \/ RequestCancellation(t) \/
               DisputeCancellation(t) \/ RestoreDisputed(t)
      PROVE  \A u \in Payouts : LegalMove(u)
  BY <1>19
  DEF RejectTask, MarkRejected, RequestCancellation, DisputeCancellation,
      RestoreDisputed, At, Begin, TypeInv, RowOK, JobsInv, JobsOK, JobFromOK,
      Job, rowVars, rowButStatus, LegalMove, CanTransition, TASK_TRANSITIONS,
      TaskStates, CLAIMABLE_STATES
<1>20. ASSUME NEW t \in Payouts, NEW k \in Clocks,
             ClockLapses(t, k)
      PROVE  \A u \in Payouts : LegalMove(u)
  BY <1>20
  DEF ClockLapses, Running, At, Begin, TypeInv, RowOK, JobsInv, JobsOK,
      JobFromOK, Job, rowVars, rowButStatus, LegalMove, CanTransition,
      TASK_TRANSITIONS, TaskStates, CLAIMABLE_STATES
<1>21. ASSUME Crash
      PROVE  \A u \in Payouts : LegalMove(u)
  BY <1>21
  DEF Crash, At, Begin, TypeInv, RowOK, JobsInv, JobsOK, JobFromOK, Job,
      rowVars, rowButStatus, LegalMove, CanTransition, TASK_TRANSITIONS,
      TaskStates, CLAIMABLE_STATES
<1>22. ASSUME UNCHANGED vars
      PROVE  \A u \in Payouts : LegalMove(u)
  BY <1>22 DEF vars, rowVars, LegalMove
<1> QED
  BY <1>1, <1>2, <1>3, <1>4, <1>5, <1>6, <1>7, <1>8, <1>9, <1>10, <1>11,
     <1>12, <1>13, <1>14, <1>15, <1>16, <1>17, <1>18, <1>19, <1>20, <1>21,
     <1>22
  DEF Next, Request, Decision, Sweep, JobStep, ConfirmReceived,
      ConfirmNotReceived, AutoApproveOnTimeout, CancelStale, RejectExpired,
      ReclaimExpired, Workers

\* The transition table is kept by every write, whatever the handlers and
\* sweeps read before it.
THEOREM TransitionsAreLegal == Spec => LegalTransitions
<1>1. TypeInv /\ [Next]_vars => [\A t \in Payouts : LegalMove(t)]_vars
  BY LegalStep
<1> QED
  BY <1>1, TypeInvariant, PTL DEF Spec, LegalTransitions

-----------------------------------------------------------------------------
(* A payout is settled once: the argument follows the job that has won the *)
(* write to COMPLETED or CANCELLED until it has paid.                      *)

Settling(w, t) == jobs[w].t = t /\ jobs[w].pc \in SettlingPcs

Unsettled(t) == refunded[t] = 0 /\ reimbursed[t] = 0

\* SettledOnce is not inductive: a job on its way to the refund or to the
\* reimbursement must be the only one, and find neither made.
SettleInv ==
  /\ SettledOnce
  /\ \A t \in Payouts, w \in Workers :
       Settling(w, t) =>
         /\ Unsettled(t)
         /\ status[t] = IF jobs[w].pc \in {"releaseCancelled", "refund"}
                        THEN "CANCELLED" ELSE "COMPLETED"
         /\ \A v \in Workers : Settling(v, t) => v = w

LEMMA SettleInit == Init => SettleInv
BY DEF Init, SettleInv, SettledOnce, Settling, SettlingPcs, Idle

\* An open payout is unsettled and nobody is settling it.
LEMMA OpenIsUnsettled ==
  ASSUME TypeInv, SettleInv, NEW t \in Payouts, status[t] \notin TERMINAL_STATES
  PROVE  Unsettled(t) /\ \A w \in Workers : ~Settling(w, t)
<1>1. refunded[t] # 1 /\ reimbursed[t] # 1 /\ refunded[t] + reimbursed[t] <= 1
  BY DEF SettleInv, SettledOnce, TERMINAL_STATES
<1>2. Unsettled(t)
  <2>1. refunded[t] \in Nat /\ reimbursed[t] \in Nat
    BY DEF TypeInv, HistoryOK
  <2> QED
    BY <1>1, <2>1 DEF Unsettled
<1>3. ASSUME NEW w \in Workers, Settling(w, t)
      PROVE  status[t] \in {"CANCELLED", "COMPLETED"}
  BY <1>3 DEF SettleInv
<1> QED
  BY <1>2, <1>3 DEF TERMINAL_STATES

\* A step that settles nothing, and lets no job begin to.
Quiet ==
  /\ UNCHANGED <<refunded, reimbursed>>
  /\ \A w \in Workers : jobs'[w] = jobs[w] \/ jobs'[w].pc \notin SettlingPcs

LEMMA QuietStep ==
  ASSUME TypeInv, SettleInv, Quiet, \A t \in Payouts : LegalMove(t)
  PROVE  SettleInv'
<1>1. ASSUME NEW t \in Payouts, status[t] \in TERMINAL_STATES
      PROVE  status'[t] = status[t]
  BY <1>1 DEF LegalMove, CanTransition, TASK_TRANSITIONS, TERMINAL_STATES, TaskStates
<1>2. ASSUME NEW t \in Payouts, NEW w \in Workers, Settling(w, t)'
      PROVE  Settling(w, t) /\ jobs'[w] = jobs[w]
  BY <1>2 DEF Quiet, Settling
<1>3. ASSUME NEW t \in Payouts, NEW w \in Workers, Settling(w, t)
      PROVE  status[t] \in TERMINAL_STATES
  BY <1>3 DEF SettleInv, TERMINAL_STATES
<1>4. SettledOnce'
  BY <1>1, OpenIsUnsettled DEF Quiet, SettleInv, SettledOnce, Unsettled, TERMINAL_STATES
<1>5. ASSUME NEW t \in Payouts, NEW w \in Workers, Settling(w, t)'
      PROVE  /\ Unsettled(t)'
             /\ status'[t] = IF jobs'[w].pc \in {"releaseCancelled", "refund"}
                             THEN "CANCELLED" ELSE "COMPLETED"
             /\ \A v \in Workers : Settling(v, t)' => v = w
  BY <1>1, <1>2, <1>3, <1>5 DEF Quiet, SettleInv, Unsettled
<1> QED
  BY <1>4, <1>5 DEF SettleInv

\* A step of a job that begins to settle t, or settles it there and then.
LEMMA SettlingBegins ==
  ASSUME TypeInv, SettleInv, NEW w \in Workers, NEW t \in Payouts, NEW job,
         status[t] \notin TERMINAL_STATES,
         jobs' = [jobs EXCEPT ![w] = job], UNCHANGED <<refunded, reimbursed>>,
         job.t = t, ~(jobs[w].pc \in SettlingPcs),
         \/ /\ status' = [status EXCEPT ![t] = "CANCELLED"]
            /\ job.pc \in {"releaseCancelled", "refund"}
         \/ /\ status' = [status EXCEPT ![t] = "COMPLETED"]
            /\ job.pc = "commission"
  PROVE  SettleInv'
<1>1. Unsettled(t) /\ \A v \in Workers : ~Settling(v, t)
  BY OpenIsUnsettled
<1>2. status \in [Payouts -> Statuses] /\ jobs \in [Workers -> Job]
  BY DEF TypeInv, RowOK, JobsInv, JobsOK
<1>3. SettledOnce'
  BY <1>1, <1>2 DEF SettleInv, SettledOnce, Unsettled
<1>4. ASSUME NEW u \in Payouts, NEW v \in Workers, Settling(v, u)'
      PROVE  \/ u = t /\ v = w
             \/ u # t /\ v # w /\ Settling(v, u)
  BY <1>1, <1>2, <1>4 DEF Settling
<1>5. ASSUME NEW u \in Payouts, NEW v \in Workers, Settling(v, u)'
      PROVE  /\ Unsettled(u)'
             /\ status'[u] = IF jobs'[v].pc \in {"releaseCancelled", "refund"}
                             THEN "CANCELLED" ELSE "COMPLETED"
  BY <1>1, <1>2, <1>4, <1>5 DEF SettleInv, Unsettled, Settling
<1>6. ASSUME NEW u \in Payouts, NEW v \in Workers, Settling(v, u)',
             NEW x \in Workers, Settling(x, u)'
      PROVE  x = v
  BY <1>4, <1>6 DEF SettleInv
<1> QED
  BY <1>3, <1>5, <1>6 DEF SettleInv

\* A job that is settling moves to the next of its writes.
LEMMA SettlingGoesOn ==
  ASSUME TypeInv, SettleInv, NEW w \in Workers, NEW p \in SettlingPcs, Goto(w, p),
         jobs[w].pc \in SettlingPcs, UNCHANGED <<status, refunded, reimbursed>>,
         p = "refund" <=> jobs[w].pc \in {"releaseCancelled", "refund"},
         p # "releaseCancelled"
  PROVE  SettleInv'
<1>1. jobs \in [Workers -> Job]
  BY DEF TypeInv, JobsInv, JobsOK
<1>2. ASSUME NEW u \in Payouts, NEW v \in Workers
      PROVE  Settling(v, u)' <=> Settling(v, u)
  BY <1>1 DEF Settling, Goto, Job
<1>3. ASSUME NEW v \in Workers
      PROVE  jobs'[v].pc \in {"releaseCancelled", "refund"}
               <=> jobs[v].pc \in {"releaseCancelled", "refund"}
  BY <1>1 DEF Goto, Job
<1> QED
  BY <1>2, <1>3 DEF SettleInv, SettledOnce, Unsettled

\* A job that is settling t, or may at once, settles it and is done with it.
LEMMA SettlingEnds ==
  ASSUME TypeInv, SettleInv, NEW w \in Workers, NEW t \in Payouts, Unsettled(t),
         \A v \in Workers : Settling(v, t) => v = w,
         jobs[w].pc \in SettlingPcs => jobs[w].t = t,
         jobs'[w].pc \notin SettlingPcs,
         \A v \in Workers \ {w} : jobs'[v] = jobs[v],
         \A u \in Payouts \ {t} : status'[u] = status[u],
         \/ /\ refunded' = [refunded EXCEPT ![t] = @ + 1]
            /\ reimbursed' = reimbursed /\ status'[t] = "CANCELLED"
         \/ /\ reimbursed' = [reimbursed EXCEPT ![t] = @ + 1]
            /\ refunded' = refunded /\ status'[t] = "COMPLETED"
  PROVE  SettleInv'
<1>1. refunded \in [Payouts -> Nat] /\ reimbursed \in [Payouts -> Nat]
  BY DEF TypeInv, HistoryOK
<1>2. SettledOnce'
  BY <1>1 DEF SettleInv, SettledOnce, Unsettled
<1>3. ASSUME NEW u \in Payouts, NEW v \in Workers, Settling(v, u)'
      PROVE  u # t /\ v # w /\ jobs'[v] = jobs[v] /\ Settling(v, u)
  BY <1>3 DEF Settling
<1>4. ASSUME NEW u \in Payouts, NEW v \in Workers, Settling(v, u)'
      PROVE  /\ Unsettled(u)'
             /\ status'[u] = IF jobs'[v].pc \in {"releaseCancelled", "refund"}
                             THEN "CANCELLED" ELSE "COMPLETED"
             /\ \A x \in Workers : Settling(x, u)' => x = v
  BY <1>1, <1>3, <1>4 DEF SettleInv, Unsettled
<1> QED
  BY <1>2, <1>4 DEF SettleInv

LEMMA SettleStep ==
  ASSUME TypeInv, SettleInv, [Next]_vars
  PROVE  SettleInv'
<1>0. \A t \in Payouts : LegalMove(t)
  BY LegalStep
<1>1. ASSUME NEW w \in Workers, NEW t \in Payouts,
             CreateDebit(w, t)
      PROVE  Quiet
  BY <1>1 DEF CreateDebit, Quiet, TypeInv, JobsInv, JobsOK, Job, At, Begin,
     Goto, Finish, Idle, Read, SettlingPcs, historyVars
<1>2. ASSUME NEW w \in Workers,
             CreateInsert(w) \/ CreateDuplicate(w) \/
               CreateRefundDebit(w)
      PROVE  Quiet
  BY <1>2 DEF CreateInsert, CreateDuplicate, CreateRefundDebit, Quiet,
     TypeInv, JobsInv, JobsOK, Job, At, Begin, Goto, Finish, Idle, Read,
     SettlingPcs, historyVars
<1>3. ASSUME NEW w \in Workers, NEW t \in Payouts, NEW c \in Captains,
             ClaimRead(w, t, c) \/ ProofRead(w, t, c)
      PROVE  Quiet
  BY <1>3 DEF ClaimRead, ProofRead, Quiet, TypeInv, JobsInv, JobsOK, Job, At,
     Begin, Goto, Finish, Idle, Read, SettlingPcs, historyVars
<1>4. ASSUME NEW w \in Workers,
             ClaimHold(w) \/ ClaimLost(w) \/ ClaimRefused(w)
      PROVE  Quiet
  BY <1>4 DEF ClaimHold, TakeHold, WithinCurrentLimit, ClaimLost,
     ClaimRefused, Quiet, TypeInv, JobsInv, JobsOK, Job, At, Begin, Goto,
     Finish, Idle, Read, SettlingPcs, historyVars
<1>5. ASSUME NEW w \in Workers,
             ClaimInTransaction(w) \/ ClaimWrite(w)
      PROVE  Quiet
  BY <1>5 DEF ClaimInTransaction, TakeHold, WithinCurrentLimit, AssignTo,
     RepricedShare, ClaimWrite, Quiet, TypeInv, JobsInv, JobsOK, Job, At,
     Begin, Goto, Finish, Idle, Read, SettlingPcs, historyVars
<1>6. ASSUME NEW w \in Workers,
             ProofClaim(w) \/ ProofCreate(w) \/ ProofQueue(w) \/
               ProofAsk(w)
      PROVE  Quiet
  BY <1>6 DEF ProofClaim, ProofCreate, ProofQueue, ProofAsk, Quiet, TypeInv,
     JobsInv, JobsOK, Job, At, Begin, Goto, Finish, Idle, Read, SettlingPcs,
     historyVars
<1>7. ASSUME NEW w \in Workers, NEW t \in Payouts, NEW next \in {"approve", "reject"},
             ClearDeadline(w, t, next)
      PROVE  Quiet
  BY <1>7 DEF ClearDeadline, Quiet, TypeInv, JobsInv, JobsOK, Job, At, Begin,
     Goto, Finish, Idle, Read, SettlingPcs, historyVars
<1>8. ASSUME NEW w \in Workers,
             ApproveAfterClear(w) \/ RejectAfterClear(w)
      PROVE  Quiet
  BY <1>8 DEF ApproveAfterClear, RejectAfterClear, MarkRejected, Quiet,
     TypeInv, JobsInv, JobsOK, Job, At, Begin, Goto, Finish, Idle, Read,
     SettlingPcs, historyVars
<1>9. ASSUME NEW w \in Workers, NEW t \in Payouts,
             ApproveRead(w, t) \/ OverruleRead(w, t) \/ ReassignRead(w,
               t)
      PROVE  Quiet
  BY <1>9 DEF ApproveRead, OverruleRead, ReassignRead, Quiet, TypeInv,
     JobsInv, JobsOK, Job, At, Begin, Goto, Finish, Idle, Read, SettlingPcs,
     historyVars
<1>10. ASSUME NEW w \in Workers,
             CompleteLost(w)
      PROVE  Quiet
  BY <1>10 DEF CompleteLost, Quiet, TypeInv, JobsInv, JobsOK, Job, At, Begin,
     Goto, Finish, Idle, Read, SettlingPcs, historyVars
<1>11. ASSUME NEW w \in Workers,
             CompletePayShare(w) \/ CompleteAllocateCaptain(w) \/
               CompleteAllocatePlatform(w)
      PROVE  Quiet
  BY <1>11 DEF CompletePayShare, CompleteAllocateCaptain,
     CompleteAllocatePlatform, AllocationOwners, Quiet, TypeInv, JobsInv,
     JobsOK, Job, At, Begin, Goto, Finish, Idle, Read, SettlingPcs,
     historyVars
<1>12. ASSUME NEW w \in Workers,
             ReassignWrite(w) \/ ReassignLost(w) \/ ReassignSupersede(w)
               \/ Release(w)
      PROVE  Quiet
  BY <1>12 DEF ReassignWrite, ReturnToPool, ReassignLost, ReassignSupersede,
     Release, ReleaseHold, Quiet, TypeInv, JobsInv, JobsOK, Job, At, Begin,
     Goto, Finish, Idle, Read, SettlingPcs, historyVars
<1>13. ASSUME NEW w \in Workers, NEW t \in Payouts,
             ExpireRead(w, t) \/ ReturnRead(w, t)
      PROVE  Quiet
  BY <1>13 DEF ExpireRead, ReturnRead, Quiet, TypeInv, JobsInv, JobsOK, Job,
     At, Begin, Goto, Finish, Idle, Read, SettlingPcs, historyVars
<1>14. ASSUME NEW w \in Workers,
             ExpireWrite(w) \/ ExpireLost(w) \/ ReturnWrite(w) \/
               ReturnLost(w)
      PROVE  Quiet
  BY <1>14 DEF ExpireWrite, ExpireLost, ReturnWrite, ReturnToPool, ReturnLost,
     Quiet, TypeInv, JobsInv, JobsOK, Job, At, Begin, Goto, Finish, Idle,
     Read, SettlingPcs, historyVars
<1>15. ASSUME NEW t \in Payouts, NEW c \in Captains,
             StartTask(t, c)
      PROVE  Quiet
  BY <1>15 DEF StartTask, Quiet, TypeInv, JobsInv, JobsOK, Job, At, Begin,
     Goto, Finish, Idle, Read, SettlingPcs, historyVars
<1>16. ASSUME NEW t \in Payouts,
             RejectTask(t) \/ RequestCancellation(t) \/
               DisputeCancellation(t) \/ RestoreDisputed(t)
      PROVE  Quiet
  BY <1>16 DEF RejectTask, MarkRejected, RequestCancellation,
     DisputeCancellation, RestoreDisputed, Quiet, TypeInv, JobsInv, JobsOK,
     Job, At, Begin, Goto, Finish, Idle, Read, SettlingPcs, historyVars
<1>17. ASSUME NEW t \in Payouts, NEW k \in Clocks,
             ClockLapses(t, k)
      PROVE  Quiet
  BY <1>17 DEF ClockLapses, Running, Quiet, TypeInv, JobsInv, JobsOK, Job, At,
     Begin, Goto, Finish, Idle, Read, SettlingPcs, historyVars
<1>18. ASSUME Crash
      PROVE  Quiet
  BY <1>18 DEF Crash, Quiet, TypeInv, JobsInv, JobsOK, Job, At, Begin, Goto,
     Finish, Idle, Read, SettlingPcs, historyVars
<1>19. ASSUME UNCHANGED vars
      PROVE  Quiet
  BY <1>19 DEF vars, historyVars, Quiet
<1>20. ASSUME NEW w \in Workers, NEW t \in Payouts, CancelUnclaimed(w, t)
      PROVE  SettleInv'
  <2>1. status[t] \notin TERMINAL_STATES
    BY <1>20 DEF CancelUnclaimed, CanTransition, TASK_TRANSITIONS, TERMINAL_STATES
  <2>2. Read(t, "refund").t = t /\ Read(t, "refund").pc = "refund"
    BY DEF Read
  <2> QED
    BY <1>20, <2>1, <2>2, SettlingBegins DEF CancelUnclaimed, Begin, At, historyVars, SettlingPcs
<1>21. ASSUME NEW w \in Workers, NEW t \in Payouts, ApproveCancellation(w, t)
      PROVE  SettleInv'
  <2> DEFINE job == Read(t, IF captainId[t] # None THEN "releaseCancelled" ELSE "refund")
  <2>1. status[t] \notin TERMINAL_STATES
    BY <1>21 DEF ApproveCancellation, TERMINAL_STATES
  <2>2. job.t = t /\ job.pc \in {"releaseCancelled", "refund"}
    BY DEF Read
  <2>3. jobs' = [jobs EXCEPT ![w] = job] /\ jobs[w].pc = "idle"
    BY <1>21 DEF ApproveCancellation, Begin, At
  <2> HIDE DEF job
  <2> QED
    BY <1>21, <2>1, <2>2, <2>3, SettlingBegins DEF ApproveCancellation, historyVars, SettlingPcs
<1>22. ASSUME NEW w \in Workers, CompleteWrite(w)
      PROVE  SettleInv'
  <2> DEFINE t == jobs[w].t
             job == [jobs[w] EXCEPT !.pc = "commission"]
  <2>1. jobs[w] \in Job /\ t \in Payouts /\ jobs[w].pc = "complete"
    BY <1>22 DEF CompleteWrite, MarkCompleted, At, TypeInv, JobsInv, JobsOK
  <2>2. status[t] \notin TERMINAL_STATES
    BY <1>22 DEF CompleteWrite, MarkCompleted, CanTransition, TASK_TRANSITIONS, TERMINAL_STATES
  <2>3. job.t = t /\ job.pc = "commission"
    BY <2>1 DEF Job
  <2>4. jobs' = [jobs EXCEPT ![w] = job]
    BY <1>22, <2>1 DEF CompleteWrite, Goto, Job, TypeInv, JobsInv, JobsOK
  <2>5. status' = [status EXCEPT ![t] = "COMPLETED"]
    BY <1>22 DEF CompleteWrite, MarkCompleted
  <2> HIDE DEF t, job
  <2> QED
    BY <1>22, <2>1, <2>2, <2>3, <2>4, <2>5, SettlingBegins
    DEF CompleteWrite, historyVars, SettlingPcs
<1>23. ASSUME NEW w \in Workers, CompleteCommission(w) \/ CompleteCollect(w) \/ ReleaseCancelled(w)
      PROVE  SettleInv'
  BY <1>23, SettlingGoesOn
  DEF CompleteCommission, CompleteCollect, ReleaseCancelled, At, SettlingPcs,
      rowVars, historyVars
<1>24. ASSUME NEW w \in Workers, CompleteReimburse(w) \/ RefundParty(w)
      PROVE  SettleInv'
  <2> DEFINE t == jobs[w].t
  <2>1. t \in Payouts /\ Settling(w, t) /\ jobs \in [Workers -> Job]
    BY <1>24 DEF CompleteReimburse, RefundParty, At, Settling, SettlingPcs, TypeInv, JobsInv, JobsOK
  <2>2. /\ Unsettled(t)
        /\ \A v \in Workers : Settling(v, t) => v = w
        /\ RefundParty(w) => status[t] = "CANCELLED"
        /\ CompleteReimburse(w) => status[t] = "COMPLETED"
    BY <2>1 DEF SettleInv, RefundParty, CompleteReimburse, At
  <2>3. jobs'[w].pc \notin SettlingPcs /\ \A v \in Workers \ {w} : jobs'[v] = jobs[v]
    BY <1>24, <2>1 DEF CompleteReimburse, RefundParty, Goto, Finish, Idle, Job, SettlingPcs
  <2>4. /\ RefundParty(w) => refunded' = [refunded EXCEPT ![t] = @ + 1] /\ reimbursed' = reimbursed
        /\ CompleteReimburse(w) => reimbursed' = [reimbursed EXCEPT ![t] = @ + 1] /\ refunded' = refunded
        /\ status' = status
    BY <1>24 DEF RefundParty, CompleteReimburse, ReimburseCaptain, rowVars
  <2> HIDE DEF t
  <2> QED
    BY <1>24, <2>1, <2>2, <2>3, <2>4, SettlingEnds DEF Settling
<1>25. ASSUME NEW w \in Workers, CompleteInTransaction(w)
      PROVE  SettleInv'
  <2> DEFINE t == jobs[w].t
  <2>1. t \in Payouts /\ jobs \in [Workers -> Job] /\ status \in [Payouts -> Statuses]
    BY <1>25 DEF CompleteInTransaction, MarkCompleted, At, TypeInv, RowOK, JobsInv, JobsOK
  <2>2. status[t] \notin TERMINAL_STATES
    BY <1>25 DEF CompleteInTransaction, MarkCompleted, CanTransition, TASK_TRANSITIONS, TERMINAL_STATES
  <2>3. Unsettled(t) /\ \A v \in Workers : ~Settling(v, t)
    BY <2>1, <2>2, OpenIsUnsettled
  <2>4. /\ jobs'[w].pc \notin SettlingPcs /\ \A v \in Workers \ {w} : jobs'[v] = jobs[v]
        /\ jobs[w].pc \notin SettlingPcs
    BY <1>25, <2>1 DEF CompleteInTransaction, MarkCompleted, At, Finish, Idle, SettlingPcs
  <2>5. /\ reimbursed' = [reimbursed EXCEPT ![t] = @ + 1] /\ refunded' = refunded
        /\ status' = [status EXCEPT ![t] = "COMPLETED"]
    BY <1>25 DEF CompleteInTransaction, MarkCompleted, ReimburseCaptain
  <2> HIDE DEF t
  <2> QED
    BY <2>1, <2>3, <2>4, <2>5, SettlingEnds
<1> QED
  BY <1>0, QuietStep, <1>1, <1>2, <1>3, <1>4, <1>5, <1>6, <1>7, <1>8, <1>9,
     <1>10, <1>11, <1>12, <1>13, <1>14, <1>15, <1>16, <1>17, <1>18, <1>19,
     <1>20, <1>21, <1>22, <1>23, <1>24, <1>25 DEF Next, Request, Decision,
     Sweep, JobStep, ConfirmReceived, ConfirmNotReceived,
     AutoApproveOnTimeout, CancelStale, RejectExpired, ReclaimExpired, Workers

\* However requests, sweeps and crashes interleave, and whether or not MongoDB
\* gives transactions, a payout refunds its party or reimburses a captain, at
\* most once, and only in the state that says so.
THEOREM PayoutSettledOnce == Spec => []SettledOnce
<1>1. TypeInv /\ SettleInv /\ [Next]_vars => SettleInv'
  BY SettleStep
<1>2. SettleInv => SettledOnce
  BY DEF SettleInv
<1> QED
  BY <1>1, <1>2, SettleInit, TypeInvariant, PTL DEF Spec

-----------------------------------------------------------------------------
(* Copies *)

HIDE ConstantsAssumption

\* An open payout is still billed what it was charged, however often its
\* captain's share was fixed anew; a review can only have interrupted a
\* payout that was not started.
RowAgrees(t) ==
  /\ status[t] \notin TERMINAL_STATES \cup {"ABSENT"} =>
       commissionPaise[t] + adminCommissionPaise[t] = Charge[t]
  /\ preCancelStatus[t] \in {None, "ASSIGNED"}

\* A job that settles a payout splits what was charged, and one that takes a
\* payout from its captain knows who that is.
JobAgrees(w) ==
  /\ jobs[w].pc \in {"complete", "releaseCancelled", "refund", "commission", "collect"} =>
       jobs[w].share + jobs[w].platform = Charge[jobs[w].t]
  /\ jobs[w].pc \in {"expire", "reassign", "supersede"} => jobs[w].c \in Captains

CopiesAgree ==
  /\ \A t \in Payouts : RowAgrees(t)
  /\ \A w \in Workers : JobAgrees(w)

LEMMA FinishAgrees ==
  ASSUME JobsInv, NEW w \in Workers, Finish(w), \A v \in Workers : JobAgrees(v)
  PROVE  \A v \in Workers : JobAgrees(v)'
BY DEF JobsInv, JobsOK, Finish, Idle, JobAgrees

LEMMA CopiesAgreeStep ==
  ASSUME TypeInv, CopiesAgree, [Next]_vars
  PROVE  CopiesAgree'
<1>1. ASSUME NEW w \in Workers, NEW t \in Payouts,
             CreateDebit(w, t)
      PROVE  CopiesAgree'
  BY <1>1
  DEF CreateDebit, TypeInv, JobsInv, JobsOK, JobFromOK, Job, RowOK, At, Begin,
      Goto, Finish, Idle, Read, rowVars, rowButStatus, HasCaptain,
      CopiesAgree, RowAgrees, JobAgrees, Statuses, TaskStates,
      TERMINAL_STATES, CLAIMABLE_STATES, DMC_HELD_STATES, CanTransition,
      TASK_TRANSITIONS
<1>2. ASSUME NEW w \in Workers,
             CreateDuplicate(w)
      PROVE  CopiesAgree'
  BY <1>2
  DEF CreateDuplicate, TypeInv, JobsInv, JobsOK, JobFromOK, Job, RowOK, At,
      Begin, Goto, Finish, Idle, Read, rowVars, rowButStatus, HasCaptain,
      CopiesAgree, RowAgrees, JobAgrees, Statuses, TaskStates,
      TERMINAL_STATES, CLAIMABLE_STATES, DMC_HELD_STATES, CanTransition,
      TASK_TRANSITIONS
<1>3. ASSUME NEW w \in Workers,
             CreateRefundDebit(w)
      PROVE  CopiesAgree'
  BY <1>3
  DEF CreateRefundDebit, TypeInv, JobsInv, JobsOK, JobFromOK, Job, RowOK, At,
      Begin, Goto, Finish, Idle, Read, rowVars, rowButStatus, HasCaptain,
      CopiesAgree, RowAgrees, JobAgrees, Statuses, TaskStates,
      TERMINAL_STATES, CLAIMABLE_STATES, DMC_HELD_STATES, CanTransition,
      TASK_TRANSITIONS
<1>4. ASSUME NEW w \in Workers, NEW t \in Payouts, NEW c \in Captains,
             ClaimRead(w, t, c)
      PROVE  CopiesAgree'
  BY <1>4
  DEF ClaimRead, TypeInv, JobsInv, JobsOK, JobFromOK, Job, RowOK, At, Begin,
      Goto, Finish, Idle, Read, rowVars, rowButStatus, HasCaptain,
      CopiesAgree, RowAgrees, JobAgrees, Statuses, TaskStates,
      TERMINAL_STATES, CLAIMABLE_STATES, DMC_HELD_STATES, CanTransition,
      TASK_TRANSITIONS
<1>5. ASSUME NEW w \in Workers, NEW t \in Payouts, NEW c \in Captains,
             ProofRead(w, t, c)
      PROVE  CopiesAgree'
  BY <1>5
  DEF ProofRead, TypeInv, JobsInv, JobsOK, JobFromOK, Job, RowOK, At, Begin,
      Goto, Finish, Idle, Read, rowVars, rowButStatus, HasCaptain,
      CopiesAgree, RowAgrees, JobAgrees, Statuses, TaskStates,
      TERMINAL_STATES, CLAIMABLE_STATES, DMC_HELD_STATES, CanTransition,
      TASK_TRANSITIONS
<1>6. ASSUME NEW w \in Workers,
             ClaimHold(w)
      PROVE  CopiesAgree'
  BY <1>6
  DEF ClaimHold, TakeHold, WithinCurrentLimit, TypeInv, JobsInv, JobsOK,
      JobFromOK, Job, RowOK, At, Begin, Goto, Finish, Idle, Read, rowVars,
      rowButStatus, HasCaptain, CopiesAgree, RowAgrees, JobAgrees, Statuses,
      TaskStates, TERMINAL_STATES, CLAIMABLE_STATES, DMC_HELD_STATES,
      CanTransition, TASK_TRANSITIONS
<1>7. ASSUME NEW w \in Workers,
             ClaimLost(w)
      PROVE  CopiesAgree'
  BY <1>7
  DEF ClaimLost, TypeInv, JobsInv, JobsOK, JobFromOK, Job, RowOK, At, Begin,
      Goto, Finish, Idle, Read, rowVars, rowButStatus, HasCaptain,
      CopiesAgree, RowAgrees, JobAgrees, Statuses, TaskStates,
      TERMINAL_STATES, CLAIMABLE_STATES, DMC_HELD_STATES, CanTransition,
      TASK_TRANSITIONS
<1>8. ASSUME NEW w \in Workers,
             ClaimRefused(w)
      PROVE  CopiesAgree'
  BY <1>8
  DEF ClaimRefused, TypeInv, JobsInv, JobsOK, JobFromOK, Job, RowOK, At,
      Begin, Goto, Finish, Idle, Read, rowVars, rowButStatus, HasCaptain,
      CopiesAgree, RowAgrees, JobAgrees, Statuses, TaskStates,
      TERMINAL_STATES, CLAIMABLE_STATES, DMC_HELD_STATES, CanTransition,
      TASK_TRANSITIONS
<1>9. ASSUME NEW w \in Workers,
             ProofAsk(w)
      PROVE  CopiesAgree'
  BY <1>9
  DEF ProofAsk, TypeInv, JobsInv, JobsOK, JobFromOK, Job, RowOK, At, Begin,
      Goto, Finish, Idle, Read, rowVars, rowButStatus, HasCaptain,
      CopiesAgree, RowAgrees, JobAgrees, Statuses, TaskStates,
      TERMINAL_STATES, CLAIMABLE_STATES, DMC_HELD_STATES, CanTransition,
      TASK_TRANSITIONS
<1>10. ASSUME NEW w \in Workers, NEW t \in Payouts, NEW next \in {"approve", "reject"},
             ClearDeadline(w, t, next)
      PROVE  CopiesAgree'
  BY <1>10
  DEF ClearDeadline, TypeInv, JobsInv, JobsOK, JobFromOK, Job, RowOK, At,
      Begin, Goto, Finish, Idle, Read, rowVars, rowButStatus, HasCaptain,
      CopiesAgree, RowAgrees, JobAgrees, Statuses, TaskStates,
      TERMINAL_STATES, CLAIMABLE_STATES, DMC_HELD_STATES, CanTransition,
      TASK_TRANSITIONS
<1>11. ASSUME NEW w \in Workers,
             ApproveAfterClear(w)
      PROVE  CopiesAgree'
  BY <1>11
  DEF ApproveAfterClear, TypeInv, JobsInv, JobsOK, JobFromOK, Job, RowOK, At,
      Begin, Goto, Finish, Idle, Read, rowVars, rowButStatus, HasCaptain,
      CopiesAgree, RowAgrees, JobAgrees, Statuses, TaskStates,
      TERMINAL_STATES, CLAIMABLE_STATES, DMC_HELD_STATES, CanTransition,
      TASK_TRANSITIONS
<1>12. ASSUME NEW w \in Workers,
             RejectAfterClear(w)
      PROVE  CopiesAgree'
  BY <1>12
  DEF RejectAfterClear, MarkRejected, TypeInv, JobsInv, JobsOK, JobFromOK,
      Job, RowOK, At, Begin, Goto, Finish, Idle, Read, rowVars, rowButStatus,
      HasCaptain, CopiesAgree, RowAgrees, JobAgrees, Statuses, TaskStates,
      TERMINAL_STATES, CLAIMABLE_STATES, DMC_HELD_STATES, CanTransition,
      TASK_TRANSITIONS
<1>13. ASSUME NEW w \in Workers, NEW t \in Payouts,
             ApproveRead(w, t)
      PROVE  CopiesAgree'
  BY <1>13
  DEF ApproveRead, TypeInv, JobsInv, JobsOK, JobFromOK, Job, RowOK, At, Begin,
      Goto, Finish, Idle, Read, rowVars, rowButStatus, HasCaptain,
      CopiesAgree, RowAgrees, JobAgrees, Statuses, TaskStates,
      TERMINAL_STATES, CLAIMABLE_STATES, DMC_HELD_STATES, CanTransition,
      TASK_TRANSITIONS
<1>14. ASSUME NEW w \in Workers, NEW t \in Payouts,
             OverruleRead(w, t)
      PROVE  CopiesAgree'
  BY <1>14
  DEF OverruleRead, TypeInv, JobsInv, JobsOK, JobFromOK, Job, RowOK, At,
      Begin, Goto, Finish, Idle, Read, rowVars, rowButStatus, HasCaptain,
      CopiesAgree, RowAgrees, JobAgrees, Statuses, TaskStates,
      TERMINAL_STATES, CLAIMABLE_STATES, DMC_HELD_STATES, CanTransition,
      TASK_TRANSITIONS
<1>15. ASSUME NEW w \in Workers, NEW t \in Payouts,
             ReassignRead(w, t)
      PROVE  CopiesAgree'
  BY <1>15
  DEF ReassignRead, TypeInv, JobsInv, JobsOK, JobFromOK, Job, RowOK, At,
      Begin, Goto, Finish, Idle, Read, rowVars, rowButStatus, HasCaptain,
      CopiesAgree, RowAgrees, JobAgrees, Statuses, TaskStates,
      TERMINAL_STATES, CLAIMABLE_STATES, DMC_HELD_STATES, CanTransition,
      TASK_TRANSITIONS
<1>16. ASSUME NEW w \in Workers,
             CompleteInTransaction(w)
      PROVE  CopiesAgree'
  BY <1>16
  DEF CompleteInTransaction, MarkCompleted, CreditCommission,
      ReimburseCaptain, AllocationOwners, TypeInv, JobsInv, JobsOK, JobFromOK,
      Job, RowOK, At, Begin, Goto, Finish, Idle, Read, rowVars, rowButStatus,
      HasCaptain, CopiesAgree, RowAgrees, JobAgrees, Statuses, TaskStates,
      TERMINAL_STATES, CLAIMABLE_STATES, DMC_HELD_STATES, CanTransition,
      TASK_TRANSITIONS
<1>17. ASSUME NEW w \in Workers,
             CompleteWrite(w)
      PROVE  CopiesAgree'
  BY <1>17
  DEF CompleteWrite, MarkCompleted, TypeInv, JobsInv, JobsOK, JobFromOK, Job,
      RowOK, At, Begin, Goto, Finish, Idle, Read, rowVars, rowButStatus,
      HasCaptain, CopiesAgree, RowAgrees, JobAgrees, Statuses, TaskStates,
      TERMINAL_STATES, CLAIMABLE_STATES, DMC_HELD_STATES, CanTransition,
      TASK_TRANSITIONS
<1>18. ASSUME NEW w \in Workers,
             CompleteLost(w)
      PROVE  CopiesAgree'
  BY <1>18
  DEF CompleteLost, TypeInv, JobsInv, JobsOK, JobFromOK, Job, RowOK, At,
      Begin, Goto, Finish, Idle, Read, rowVars, rowButStatus, HasCaptain,
      CopiesAgree, RowAgrees, JobAgrees, Statuses, TaskStates,
      TERMINAL_STATES, CLAIMABLE_STATES, DMC_HELD_STATES, CanTransition,
      TASK_TRANSITIONS
<1>19. ASSUME NEW w \in Workers,
             CompleteCommission(w)
      PROVE  CopiesAgree'
  BY <1>19
  DEF CompleteCommission, CreditCommission, TypeInv, JobsInv, JobsOK,
      JobFromOK, Job, RowOK, At, Begin, Goto, Finish, Idle, Read, rowVars,
      rowButStatus, HasCaptain, CopiesAgree, RowAgrees, JobAgrees, Statuses,
      TaskStates, TERMINAL_STATES, CLAIMABLE_STATES, DMC_HELD_STATES,
      CanTransition, TASK_TRANSITIONS
<1>20. ASSUME NEW w \in Workers,
             CompleteCollect(w)
      PROVE  CopiesAgree'
  BY <1>20
  DEF CompleteCollect, TypeInv, JobsInv, JobsOK, JobFromOK, Job, RowOK, At,
      Begin, Goto, Finish, Idle, Read, rowVars, rowButStatus, HasCaptain,
      CopiesAgree, RowAgrees, JobAgrees, Statuses, TaskStates,
      TERMINAL_STATES, CLAIMABLE_STATES, DMC_HELD_STATES, CanTransition,
      TASK_TRANSITIONS
<1>21. ASSUME NEW w \in Workers,
             CompleteReimburse(w)
      PROVE  CopiesAgree'
  BY <1>21
  DEF CompleteReimburse, ReimburseCaptain, TypeInv, JobsInv, JobsOK,
      JobFromOK, Job, RowOK, At, Begin, Goto, Finish, Idle, Read, rowVars,
      rowButStatus, HasCaptain, CopiesAgree, RowAgrees, JobAgrees, Statuses,
      TaskStates, TERMINAL_STATES, CLAIMABLE_STATES, DMC_HELD_STATES,
      CanTransition, TASK_TRANSITIONS
<1>22. ASSUME NEW w \in Workers,
             CompletePayShare(w)
      PROVE  CopiesAgree'
  BY <1>22
  DEF CompletePayShare, TypeInv, JobsInv, JobsOK, JobFromOK, Job, RowOK, At,
      Begin, Goto, Finish, Idle, Read, rowVars, rowButStatus, HasCaptain,
      CopiesAgree, RowAgrees, JobAgrees, Statuses, TaskStates,
      TERMINAL_STATES, CLAIMABLE_STATES, DMC_HELD_STATES, CanTransition,
      TASK_TRANSITIONS
<1>23. ASSUME NEW w \in Workers,
             CompleteAllocateCaptain(w)
      PROVE  CopiesAgree'
  BY <1>23
  DEF CompleteAllocateCaptain, TypeInv, JobsInv, JobsOK, JobFromOK, Job,
      RowOK, At, Begin, Goto, Finish, Idle, Read, rowVars, rowButStatus,
      HasCaptain, CopiesAgree, RowAgrees, JobAgrees, Statuses, TaskStates,
      TERMINAL_STATES, CLAIMABLE_STATES, DMC_HELD_STATES, CanTransition,
      TASK_TRANSITIONS
<1>24. ASSUME NEW w \in Workers,
             CompleteAllocatePlatform(w)
      PROVE  CopiesAgree'
  BY <1>24
  DEF CompleteAllocatePlatform, AllocationOwners, TypeInv, JobsInv, JobsOK,
      JobFromOK, Job, RowOK, At, Begin, Goto, Finish, Idle, Read, rowVars,
      rowButStatus, HasCaptain, CopiesAgree, RowAgrees, JobAgrees, Statuses,
      TaskStates, TERMINAL_STATES, CLAIMABLE_STATES, DMC_HELD_STATES,
      CanTransition, TASK_TRANSITIONS
<1>25. ASSUME NEW w \in Workers,
             ReassignWrite(w)
      PROVE  CopiesAgree'
  BY <1>25
  DEF ReassignWrite, ReturnToPool, TypeInv, JobsInv, JobsOK, JobFromOK, Job,
      RowOK, At, Begin, Goto, Finish, Idle, Read, rowVars, rowButStatus,
      HasCaptain, CopiesAgree, RowAgrees, JobAgrees, Statuses, TaskStates,
      TERMINAL_STATES, CLAIMABLE_STATES, DMC_HELD_STATES, CanTransition,
      TASK_TRANSITIONS
<1>26. ASSUME NEW w \in Workers,
             ReassignLost(w)
      PROVE  CopiesAgree'
  BY <1>26
  DEF ReassignLost, TypeInv, JobsInv, JobsOK, JobFromOK, Job, RowOK, At,
      Begin, Goto, Finish, Idle, Read, rowVars, rowButStatus, HasCaptain,
      CopiesAgree, RowAgrees, JobAgrees, Statuses, TaskStates,
      TERMINAL_STATES, CLAIMABLE_STATES, DMC_HELD_STATES, CanTransition,
      TASK_TRANSITIONS
<1>27. ASSUME NEW w \in Workers,
             ReassignSupersede(w)
      PROVE  CopiesAgree'
  BY <1>27
  DEF ReassignSupersede, TypeInv, JobsInv, JobsOK, JobFromOK, Job, RowOK, At,
      Begin, Goto, Finish, Idle, Read, rowVars, rowButStatus, HasCaptain,
      CopiesAgree, RowAgrees, JobAgrees, Statuses, TaskStates,
      TERMINAL_STATES, CLAIMABLE_STATES, DMC_HELD_STATES, CanTransition,
      TASK_TRANSITIONS
<1>28. ASSUME NEW w \in Workers,
             Release(w)
      PROVE  CopiesAgree'
  BY <1>28
  DEF Release, ReleaseHold, TypeInv, JobsInv, JobsOK, JobFromOK, Job, RowOK,
      At, Begin, Goto, Finish, Idle, Read, rowVars, rowButStatus, HasCaptain,
      CopiesAgree, RowAgrees, JobAgrees, Statuses, TaskStates,
      TERMINAL_STATES, CLAIMABLE_STATES, DMC_HELD_STATES, CanTransition,
      TASK_TRANSITIONS
<1>29. ASSUME NEW w \in Workers, NEW t \in Payouts,
             CancelUnclaimed(w, t)
      PROVE  CopiesAgree'
  BY <1>29
  DEF CancelUnclaimed, TypeInv, JobsInv, JobsOK, JobFromOK, Job, RowOK, At,
      Begin, Goto, Finish, Idle, Read, rowVars, rowButStatus, HasCaptain,
      CopiesAgree, RowAgrees, JobAgrees, Statuses, TaskStates,
      TERMINAL_STATES, CLAIMABLE_STATES, DMC_HELD_STATES, CanTransition,
      TASK_TRANSITIONS
<1>30. ASSUME NEW w \in Workers, NEW t \in Payouts,
             ApproveCancellation(w, t)
      PROVE  CopiesAgree'
  BY <1>30
  DEF ApproveCancellation, TypeInv, JobsInv, JobsOK, JobFromOK, Job, RowOK,
      At, Begin, Goto, Finish, Idle, Read, rowVars, rowButStatus, HasCaptain,
      CopiesAgree, RowAgrees, JobAgrees, Statuses, TaskStates,
      TERMINAL_STATES, CLAIMABLE_STATES, DMC_HELD_STATES, CanTransition,
      TASK_TRANSITIONS
<1>31. ASSUME NEW w \in Workers,
             ReleaseCancelled(w)
      PROVE  CopiesAgree'
  BY <1>31
  DEF ReleaseCancelled, ReleaseHold, TypeInv, JobsInv, JobsOK, JobFromOK, Job,
      RowOK, At, Begin, Goto, Finish, Idle, Read, rowVars, rowButStatus,
      HasCaptain, CopiesAgree, RowAgrees, JobAgrees, Statuses, TaskStates,
      TERMINAL_STATES, CLAIMABLE_STATES, DMC_HELD_STATES, CanTransition,
      TASK_TRANSITIONS
<1>32. ASSUME NEW w \in Workers,
             RefundParty(w)
      PROVE  CopiesAgree'
  BY <1>32
  DEF RefundParty, TypeInv, JobsInv, JobsOK, JobFromOK, Job, RowOK, At, Begin,
      Goto, Finish, Idle, Read, rowVars, rowButStatus, HasCaptain,
      CopiesAgree, RowAgrees, JobAgrees, Statuses, TaskStates,
      TERMINAL_STATES, CLAIMABLE_STATES, DMC_HELD_STATES, CanTransition,
      TASK_TRANSITIONS
<1>33. ASSUME NEW w \in Workers, NEW t \in Payouts,
             ExpireRead(w, t)
      PROVE  CopiesAgree'
  BY <1>33
  DEF ExpireRead, TypeInv, JobsInv, JobsOK, JobFromOK, Job, RowOK, At, Begin,
      Goto, Finish, Idle, Read, rowVars, rowButStatus, HasCaptain,
      CopiesAgree, RowAgrees, JobAgrees, Statuses, TaskStates,
      TERMINAL_STATES, CLAIMABLE_STATES, DMC_HELD_STATES, CanTransition,
      TASK_TRANSITIONS
<1>34. ASSUME NEW w \in Workers, NEW t \in Payouts,
             ReturnRead(w, t)
      PROVE  CopiesAgree'
  BY <1>34
  DEF ReturnRead, TypeInv, JobsInv, JobsOK, JobFromOK, Job, RowOK, At, Begin,
      Goto, Finish, Idle, Read, rowVars, rowButStatus, HasCaptain,
      CopiesAgree, RowAgrees, JobAgrees, Statuses, TaskStates,
      TERMINAL_STATES, CLAIMABLE_STATES, DMC_HELD_STATES, CanTransition,
      TASK_TRANSITIONS
<1>35. ASSUME NEW w \in Workers,
             ExpireWrite(w)
      PROVE  CopiesAgree'
  BY <1>35
  DEF ExpireWrite, TypeInv, JobsInv, JobsOK, JobFromOK, Job, RowOK, At, Begin,
      Goto, Finish, Idle, Read, rowVars, rowButStatus, HasCaptain,
      CopiesAgree, RowAgrees, JobAgrees, Statuses, TaskStates,
      TERMINAL_STATES, CLAIMABLE_STATES, DMC_HELD_STATES, CanTransition,
      TASK_TRANSITIONS
<1>36. ASSUME NEW w \in Workers,
             ExpireLost(w)
      PROVE  CopiesAgree'
  BY <1>36
  DEF ExpireLost, TypeInv, JobsInv, JobsOK, JobFromOK, Job, RowOK, At, Begin,
      Goto, Finish, Idle, Read, rowVars, rowButStatus, HasCaptain,
      CopiesAgree, RowAgrees, JobAgrees, Statuses, TaskStates,
      TERMINAL_STATES, CLAIMABLE_STATES, DMC_HELD_STATES, CanTransition,
      TASK_TRANSITIONS
<1>37. ASSUME NEW w \in Workers,
             ReturnWrite(w)
      PROVE  CopiesAgree'
  BY <1>37
  DEF ReturnWrite, ReturnToPool, TypeInv, JobsInv, JobsOK, JobFromOK, Job,
      RowOK, At, Begin, Goto, Finish, Idle, Read, rowVars, rowButStatus,
      HasCaptain, CopiesAgree, RowAgrees, JobAgrees, Statuses, TaskStates,
      TERMINAL_STATES, CLAIMABLE_STATES, DMC_HELD_STATES, CanTransition,
      TASK_TRANSITIONS
<1>38. ASSUME NEW w \in Workers,
             ReturnLost(w)
      PROVE  CopiesAgree'
  BY <1>38
  DEF ReturnLost, TypeInv, JobsInv, JobsOK, JobFromOK, Job, RowOK, At, Begin,
      Goto, Finish, Idle, Read, rowVars, rowButStatus, HasCaptain,
      CopiesAgree, RowAgrees, JobAgrees, Statuses, TaskStates,
      TERMINAL_STATES, CLAIMABLE_STATES, DMC_HELD_STATES, CanTransition,
      TASK_TRANSITIONS
<1>39. ASSUME NEW t \in Payouts, NEW c \in Captains,
             StartTask(t, c)
      PROVE  CopiesAgree'
  BY <1>39
  DEF StartTask, TypeInv, JobsInv, JobsOK, JobFromOK, Job, RowOK, At, Begin,
      Goto, Finish, Idle, Read, rowVars, rowButStatus, HasCaptain,
      CopiesAgree, RowAgrees, JobAgrees, Statuses, TaskStates,
      TERMINAL_STATES, CLAIMABLE_STATES, DMC_HELD_STATES, CanTransition,
      TASK_TRANSITIONS
<1>40. ASSUME NEW t \in Payouts,
             RejectTask(t)
      PROVE  CopiesAgree'
  BY <1>40
  DEF RejectTask, MarkRejected, TypeInv, JobsInv, JobsOK, JobFromOK, Job,
      RowOK, At, Begin, Goto, Finish, Idle, Read, rowVars, rowButStatus,
      HasCaptain, CopiesAgree, RowAgrees, JobAgrees, Statuses, TaskStates,
      TERMINAL_STATES, CLAIMABLE_STATES, DMC_HELD_STATES, CanTransition,
      TASK_TRANSITIONS
<1>41. ASSUME NEW t \in Payouts,
             RequestCancellation(t)
      PROVE  CopiesAgree'
  BY <1>41
  DEF RequestCancellation, TypeInv, JobsInv, JobsOK, JobFromOK, Job, RowOK,
      At, Begin, Goto, Finish, Idle, Read, rowVars, rowButStatus, HasCaptain,
      CopiesAgree, RowAgrees, JobAgrees, Statuses, TaskStates,
      TERMINAL_STATES, CLAIMABLE_STATES, DMC_HELD_STATES, CanTransition,
      TASK_TRANSITIONS
<1>42. ASSUME NEW t \in Payouts,
             DisputeCancellation(t)
      PROVE  CopiesAgree'
  BY <1>42
  DEF DisputeCancellation, TypeInv, JobsInv, JobsOK, JobFromOK, Job, RowOK,
      At, Begin, Goto, Finish, Idle, Read, rowVars, rowButStatus, HasCaptain,
      CopiesAgree, RowAgrees, JobAgrees, Statuses, TaskStates,
      TERMINAL_STATES, CLAIMABLE_STATES, DMC_HELD_STATES, CanTransition,
      TASK_TRANSITIONS
<1>43. ASSUME NEW t \in Payouts,
             RestoreDisputed(t)
      PROVE  CopiesAgree'
  BY <1>43
  DEF RestoreDisputed, TypeInv, JobsInv, JobsOK, JobFromOK, Job, RowOK, At,
      Begin, Goto, Finish, Idle, Read, rowVars, rowButStatus, HasCaptain,
      CopiesAgree, RowAgrees, JobAgrees, Statuses, TaskStates,
      TERMINAL_STATES, CLAIMABLE_STATES, DMC_HELD_STATES, CanTransition,
      TASK_TRANSITIONS
<1>44. ASSUME NEW t \in Payouts, NEW k \in Clocks,
             ClockLapses(t, k)
      PROVE  CopiesAgree'
  BY <1>44
  DEF ClockLapses, Running, TypeInv, JobsInv, JobsOK, JobFromOK, Job, RowOK,
      At, Begin, Goto, Finish, Idle, Read, rowVars, rowButStatus, HasCaptain,
      CopiesAgree, RowAgrees, JobAgrees, Statuses, TaskStates,
      TERMINAL_STATES, CLAIMABLE_STATES, DMC_HELD_STATES, CanTransition,
      TASK_TRANSITIONS
<1>45. ASSUME Crash
      PROVE  CopiesAgree'
  BY <1>45
  DEF Crash, TypeInv, JobsInv, JobsOK, JobFromOK, Job, RowOK, At, Begin, Goto,
      Finish, Idle, Read, rowVars, rowButStatus, HasCaptain, CopiesAgree,
      RowAgrees, JobAgrees, Statuses, TaskStates, TERMINAL_STATES,
      CLAIMABLE_STATES, DMC_HELD_STATES, CanTransition, TASK_TRANSITIONS
<1>46. ASSUME UNCHANGED vars
      PROVE  CopiesAgree'
  BY <1>46
  DEF vars, TypeInv, JobsInv, JobsOK, JobFromOK, Job, RowOK, At, Begin, Goto,
      Finish, Idle, Read, rowVars, rowButStatus, HasCaptain, CopiesAgree,
      RowAgrees, JobAgrees, Statuses, TaskStates, TERMINAL_STATES,
      CLAIMABLE_STATES, DMC_HELD_STATES, CanTransition, TASK_TRANSITIONS
<1>47. ASSUME NEW w \in Workers, CreateInsert(w)
      PROVE  CopiesAgree'
  <2>1. PICK t \in Payouts : t = jobs[w].t /\ Charge[t] \in Nat /\ DefaultShare[t] \in Nat
    BY <1>47, ConstantsAssumption DEF CreateInsert, At, TypeInv, JobsInv, JobsOK
  <2>2. /\ commissionPaise'[t] = DefaultShare[t]
        /\ adminCommissionPaise'[t] = Charge[t] - DefaultShare[t]
    BY <1>47, <2>1 DEF CreateInsert, TypeInv, RowOK
  <2>3. RowAgrees(t)'
    BY <1>47, <2>1, <2>2 DEF CreateInsert, CopiesAgree, RowAgrees, TypeInv, RowOK
  <2>4. \A u \in Payouts \ {t} : RowAgrees(u)'
    BY <1>47, <2>1 DEF CreateInsert, CopiesAgree, RowAgrees, TypeInv, RowOK
  <2>5. \A v \in Workers : JobAgrees(v)'
    BY <1>47, FinishAgrees DEF CreateInsert, CopiesAgree, TypeInv, JobAgrees
  <2> QED
    BY <2>3, <2>4, <2>5 DEF CopiesAgree
<1>48. ASSUME NEW w \in Workers, ClaimInTransaction(w) \/ ClaimWrite(w)
      PROVE  CopiesAgree'
  <2>1. PICK t \in Payouts, c \in Captains : t = jobs[w].t /\ c = jobs[w].c
    BY <1>48
    DEF ClaimInTransaction, ClaimWrite, At, TypeInv, JobsInv, JobsOK, CaptainPcs,
        ClaimingPcs
  <2>2. AssignTo(w, t, c) /\ Finish(w)
    BY <1>48, <2>1 DEF ClaimInTransaction, ClaimWrite
  <2>3. commissionPaise[t] \in Nat /\ adminCommissionPaise[t] \in Nat
    BY <2>1 DEF TypeInv, RowOK
  <2>4. RepricedShare(t, c) \in Nat
    BY <2>1, <2>3, ConstantsAssumption DEF RepricedShare
  <2>5. commissionPaise'[t] + adminCommissionPaise'[t]
          = commissionPaise[t] + adminCommissionPaise[t]
    <3>1. /\ commissionPaise'[t] = RepricedShare(t, c)
          /\ adminCommissionPaise'[t]
               = commissionPaise[t] + adminCommissionPaise[t] - RepricedShare(t, c)
      BY <2>1, <2>2 DEF AssignTo, TypeInv, RowOK
    <3> QED
      BY <2>3, <2>4, <3>1
  <2>6. RowAgrees(t)'
    BY <2>1, <2>2, <2>5
    DEF AssignTo, CopiesAgree, RowAgrees, CLAIMABLE_STATES, TERMINAL_STATES
  <2>7. \A u \in Payouts \ {t} : RowAgrees(u)'
    BY <2>2 DEF AssignTo, CopiesAgree, RowAgrees, TypeInv, RowOK
  <2>8. \A v \in Workers : JobAgrees(v)'
    BY <2>2, FinishAgrees DEF CopiesAgree, TypeInv, JobAgrees
  <2> QED
    BY <2>6, <2>7, <2>8 DEF CopiesAgree
<1>49. ASSUME NEW w \in Workers, ProofClaim(w)
      PROVE  CopiesAgree'
  <2>1. \A t \in Payouts : RowAgrees(t)'
    BY <1>49 DEF ProofClaim, rowVars, rowButStatus, CopiesAgree, RowAgrees, TypeInv, RowOK, TERMINAL_STATES
  <2>2. \A v \in Workers : JobAgrees(v)'
    BY <1>49
    DEF ProofClaim, Goto, Finish, Idle, CopiesAgree, JobAgrees, TypeInv, JobsInv, JobsOK, Job
  <2> QED
    BY <2>1, <2>2 DEF CopiesAgree
<1>50. ASSUME NEW w \in Workers, ProofCreate(w)
      PROVE  CopiesAgree'
  <2>1. \A t \in Payouts : RowAgrees(t)'
    BY <1>50 DEF ProofCreate, rowVars, rowButStatus, CopiesAgree, RowAgrees, TypeInv, RowOK, TERMINAL_STATES
  <2>2. \A v \in Workers : JobAgrees(v)'
    BY <1>50
    DEF ProofCreate, Goto, Finish, Idle, CopiesAgree, JobAgrees, TypeInv, JobsInv, JobsOK, Job
  <2> QED
    BY <2>1, <2>2 DEF CopiesAgree
<1>51. ASSUME NEW w \in Workers, ProofQueue(w)
      PROVE  CopiesAgree'
  <2>1. \A t \in Payouts : RowAgrees(t)'
    BY <1>51 DEF ProofQueue, rowVars, rowButStatus, CopiesAgree, RowAgrees, TypeInv, RowOK, TERMINAL_STATES
  <2>2. \A v \in Workers : JobAgrees(v)'
    BY <1>51
    DEF ProofQueue, Goto, Finish, Idle, CopiesAgree, JobAgrees, TypeInv, JobsInv, JobsOK, Job
  <2> QED
    BY <2>1, <2>2 DEF CopiesAgree
<1> QED
  BY <1>1, <1>2, <1>3, <1>4, <1>5, <1>6, <1>7, <1>8, <1>9, <1>10, <1>11,
     <1>12, <1>13, <1>14, <1>15, <1>16, <1>17, <1>18, <1>19, <1>20, <1>21,
     <1>22, <1>23, <1>24, <1>25, <1>26, <1>27, <1>28, <1>29, <1>30, <1>31,
     <1>32, <1>33, <1>34, <1>35, <1>36, <1>37, <1>38, <1>39, <1>40, <1>41,
     <1>42, <1>43, <1>44, <1>45, <1>46, <1>47, <1>48, <1>49, <1>50, <1>51
  DEF Next, Request, Decision, Sweep, JobStep, ConfirmReceived,
      ConfirmNotReceived, AutoApproveOnTimeout, CancelStale, RejectExpired,
      ReclaimExpired, Workers

-----------------------------------------------------------------------------
(* The sum of the books *)

\* What the books hold for t when its row says s.
Worth(t, s) ==
  (IF s \notin TERMINAL_STATES \cup {"ABSENT"} THEN Amount[t] + Charge[t] ELSE 0)
  + (IF s \in DMC_HELD_STATES THEN Amount[t] ELSE 0)

\* What a job whose next write is p has in hand for t.
InHand(t, p) ==
  CASE p \in {"insert", "refundDebit", "refund"} -> Amount[t] + Charge[t]
    [] p \in {"claim", "release", "supersede"}   -> Amount[t]
    [] p \in {"releaseCancelled", "commission", "collect"} -> 2 * Amount[t] + Charge[t]
    [] p = "reimburse"                           -> 2 * Amount[t]
    [] OTHER                                     -> 0

WorthOf == [t \in Payouts |-> Worth(t, status[t])]
InHandOf == [w \in Workers |-> InHand(jobs[w].t, jobs[w].pc)]

Balances == Total(dmc, Captains)
Rows     == Total(WorthOf, Payouts)
Hands    == Total(InHandOf, Workers)

LEMMA WorthIsInt ==
  ASSUME NEW t \in Payouts, NEW s
  PROVE  Worth(t, s) \in Nat
BY ConstantsAssumption DEF Worth

LEMMA InHandIsInt ==
  ASSUME NEW t \in Payouts \cup {None}, NEW p, p # "idle" => t \in Payouts
  PROVE  InHand(t, p) \in Nat
<1>1. CASE t \in Payouts
  <2>1. Amount[t] \in Nat /\ Charge[t] \in Nat
    BY <1>1, ConstantsAssumption
  <2> QED
    BY <2>1 DEF InHand
<1>2. CASE t \notin Payouts
  BY <1>2 DEF InHand
<1> QED
  BY <1>1, <1>2

BooksAreInts ==
  /\ Balances \in Int /\ Rows \in Int /\ Hands \in Int
  /\ partyDmc \in Int /\ pool \in Int

LEMMA BooksType == TypeInv => BooksAreInts
<1> SUFFICES ASSUME TypeInv PROVE BooksAreInts
  OBVIOUS
<1>1. ASSUME NEW t \in Payouts
      PROVE  WorthOf[t] \in Int
  <2>1. Worth(t, status[t]) \in Nat
    BY WorthIsInt
  <2> QED
    BY <2>1 DEF WorthOf
<1>2. \A w \in Workers : InHandOf[w] \in Int
  BY InHandIsInt DEF InHandOf, TypeInv, JobsInv, JobsOK, Job
<1>3. \A c \in Captains : dmc[c] \in Int
  BY DEF TypeInv, MoneyOK
<1>4. partyDmc \in Int /\ pool \in Int
  BY DEF TypeInv, MoneyOK
<1> QED
  BY <1>1, <1>2, <1>3, <1>4, FiniteAssumption, TotalInt
  DEF BooksAreInts, Balances, Rows, Hands

\* While copies and rows agree on the charge, the ledger is decided by what
\* rows and jobs say of their state.
LEMMA LedgerIs ==
  TypeInv /\ CopiesAgree => Ledger = partyDmc + pool + Balances + Rows + Hands
<1> SUFFICES ASSUME TypeInv, CopiesAgree
             PROVE  Ledger = partyDmc + pool + Balances + Rows + Hands
  OBVIOUS
<1>1. ASSUME NEW t \in Payouts
      PROVE  Escrow(t) + Held(t) = Worth(t, status[t])
  <2>1. /\ Amount[t] \in Nat /\ Charge[t] \in Nat
        /\ commissionPaise[t] \in Nat /\ adminCommissionPaise[t] \in Nat
    BY ConstantsAssumption DEF TypeInv, RowOK
  <2>2. RowAgrees(t)
    BY DEF CopiesAgree
  <2> QED
    BY <2>1, <2>2 DEF RowAgrees, Escrow, Held, Billed, Worth
<1>2. ASSUME NEW w \in Workers
      PROVE  InFlight(w) = InHand(jobs[w].t, jobs[w].pc)
  <2>1. CASE jobs[w].pc = "idle"
    BY <2>1 DEF InFlight, InHand
  <2>2. CASE jobs[w].pc # "idle"
    <3> DEFINE a == Amount[jobs[w].t]
               k == Charge[jobs[w].t]
               x == jobs[w].share
               y == jobs[w].platform
    <3>1. a \in Nat /\ k \in Nat /\ x \in Nat /\ y \in Nat
      BY <2>2, ConstantsAssumption DEF TypeInv, JobsInv, JobsOK, Job
    <3>2. jobs[w].pc \in {"releaseCancelled", "refund", "commission", "collect"} => x + y = k
      BY DEF CopiesAgree, JobAgrees
    <3>3. jobs[w].pc = "supersede" => jobs[w].c # None
      BY ConstantsAssumption DEF CopiesAgree, JobAgrees
    <3> QED
      BY <3>1, <3>2, <3>3 DEF InFlight, InHand
  <2> QED
    BY <2>1, <2>2
<1>3. /\ [t \in Payouts |-> Escrow(t) + Held(t)] = WorthOf
      /\ [w \in Workers |-> InFlight(w)] = InHandOf
  BY <1>1, <1>2 DEF WorthOf, InHandOf
<1>4. Ledger = partyDmc + pool + Total(dmc, Captains) + Total(WorthOf, Payouts)
                 + Total(InHandOf, Workers)
  BY <1>3 DEF Ledger
<1> QED
  BY <1>4 DEF Balances, Rows, Hands

LEMMA LedgerKept ==
  ASSUME TypeInv, TypeInv', CopiesAgree, CopiesAgree'
  PROVE  /\ Ledger = partyDmc + pool + Balances + Rows + Hands
         /\ Ledger' = partyDmc' + pool' + Balances' + Rows' + Hands'
         /\ BooksAreInts /\ BooksAreInts'
<1>1. (TypeInv /\ CopiesAgree => Ledger = partyDmc + pool + Balances + Rows + Hands)'
  BY LedgerIs, PTL
<1>2. (TypeInv => BooksAreInts)'
  BY BooksType, PTL
<1> QED
  BY <1>1, <1>2, LedgerIs, BooksType

-----------------------------------------------------------------------------
(* Steps *)

LEMMA OneBalanceMoves ==
  ASSUME TypeInv, NEW c \in Captains, NEW d \in Int, dmc' = [dmc EXCEPT ![c] = @ + d]
  PROVE  Balances' = Balances + d
<1>1. dmc \in [Captains -> Int]
  BY DEF TypeInv, MoneyOK
<1>2. Total([dmc EXCEPT ![c] = @ + d], Captains) = Total(dmc, Captains) + d
  BY <1>1, FiniteAssumption, TotalPaidIn
<1> QED
  BY <1>2 DEF Balances

\* A step changes the row of t and the job of w, and nothing else that counts.
Changes(w, t) ==
  /\ \A v \in Workers \ {w} : jobs'[v] = jobs[v]
  /\ \A u \in Payouts \ {t} : status'[u] = status[u]

LEMMA RowsMove ==
  ASSUME NEW w \in Workers, NEW t \in Payouts, Changes(w, t)
  PROVE  Rows' = Rows + Worth(t, status'[t]) - Worth(t, status[t])
<1> DEFINE f == WorthOf
           g == [u \in Payouts |-> Worth(u, status'[u])]
<1>1. g = WorthOf'
  BY DEF WorthOf
<1>2. \A u \in Payouts \ {t} : g[u] = f[u]
  BY DEF Changes, WorthOf
<1>3. \A u \in Payouts : f[u] \in Int /\ g[u] \in Int
  BY WorthIsInt DEF WorthOf
<1>4. Total(g, Payouts) = Total(f, Payouts) + g[t] - f[t]
  BY <1>2, <1>3, FiniteAssumption, TotalOneChanges
<1>5. g[t] = Worth(t, status'[t]) /\ f[t] = Worth(t, status[t])
  BY DEF WorthOf
<1>6. Total(g, Payouts) = Rows' /\ Total(f, Payouts) = Rows
  BY <1>1 DEF Rows
<1> HIDE DEF f, g
<1> QED
  BY <1>4, <1>5, <1>6

LEMMA HandsMove ==
  ASSUME TypeInv, TypeInv', NEW w \in Workers, NEW t \in Payouts, Changes(w, t)
  PROVE  Hands' = Hands + InHand(jobs'[w].t, jobs'[w].pc) - InHand(jobs[w].t, jobs[w].pc)
<1> DEFINE f == InHandOf
           g == [v \in Workers |-> InHand(jobs'[v].t, jobs'[v].pc)]
<1>1. g = InHandOf'
  BY DEF InHandOf
<1>2. \A v \in Workers \ {w} : g[v] = f[v]
  BY DEF Changes, InHandOf
<1>3. ASSUME NEW v \in Workers
      PROVE  f[v] \in Int /\ g[v] \in Int
  <2>1. InHand(jobs[v].t, jobs[v].pc) \in Nat
    BY InHandIsInt DEF TypeInv, JobsInv, JobsOK, Job
  <2>2. InHand(jobs'[v].t, jobs'[v].pc) \in Nat
    BY InHandIsInt DEF TypeInv, JobsInv, JobsOK, Job
  <2> QED
    BY <2>1, <2>2 DEF InHandOf
<1>4. Total(g, Workers) = Total(f, Workers) + g[w] - f[w]
  BY <1>2, <1>3, FiniteAssumption, TotalOneChanges
<1>5. g[w] = InHand(jobs'[w].t, jobs'[w].pc) /\ f[w] = InHand(jobs[w].t, jobs[w].pc)
  BY DEF InHandOf
<1>6. Total(g, Workers) = Hands' /\ Total(f, Workers) = Hands
  BY <1>1 DEF Hands
<1> HIDE DEF f, g
<1> QED
  BY <1>4, <1>5, <1>6

\* Such a step keeps the ledger if it keeps the sum of what it changes.
Local(w, t) ==
  partyDmc + pool + Balances + Worth(t, status[t]) + InHand(jobs[w].t, jobs[w].pc)

LEMMA Balanced ==
  ASSUME TypeInv, TypeInv', CopiesAgree, CopiesAgree',
         NEW w \in Workers, NEW t \in Payouts, Changes(w, t), Local(w, t)' = Local(w, t)
  PROVE  Ledger' = Ledger
<1>1. PICK x \in Int, z \in Int : x = Worth(t, status[t]) /\ z = Worth(t, status'[t])
  BY WorthIsInt
<1>2. PICK i \in Int, k \in Int :
         i = InHand(jobs[w].t, jobs[w].pc) /\ k = InHand(jobs'[w].t, jobs'[w].pc)
  BY InHandIsInt DEF TypeInv, JobsInv, JobsOK, Job
<1>3. BooksAreInts /\ BooksAreInts'
  BY LedgerKept
<1>4. PICK r \in Int, h \in Int : r = Rows /\ h = Hands
  BY <1>3 DEF BooksAreInts
<1>5. PICK b \in Int, c \in Int : /\ b = partyDmc + pool + Balances
                                  /\ c = partyDmc' + pool' + Balances'
  <2>1. partyDmc + pool + Balances \in Int
    BY <1>3 DEF BooksAreInts
  <2>2. partyDmc' + pool' + Balances' \in Int
    BY <1>3 DEF BooksAreInts
  <2> QED
    BY <2>1, <2>2
<1>6. Rows' = r + z - x /\ Hands' = h + k - i
  BY <1>1, <1>2, <1>4, RowsMove, HandsMove
<1>7. c + z + k = b + x + i
  BY <1>1, <1>2, <1>5 DEF Local
<1>8. Ledger = b + r + h /\ Ledger' = c + (r + z - x) + (h + k - i)
  BY <1>4, <1>5, <1>6, LedgerKept
<1>9. c + (r + z - x) + (h + k - i) = b + r + h
  BY <1>7
<1> QED
  BY <1>8, <1>9

\* A step that moves nothing.
Still ==
  /\ UNCHANGED moneyVars
  /\ \A t \in Payouts : Worth(t, status'[t]) = Worth(t, status[t])
  /\ \A w \in Workers : InHand(jobs'[w].t, jobs'[w].pc) = InHand(jobs[w].t, jobs[w].pc)

LEMMA StillBalanced ==
  ASSUME TypeInv, TypeInv', CopiesAgree, CopiesAgree', Still
  PROVE  Ledger' = Ledger
<1>1. WorthOf' = WorthOf /\ InHandOf' = InHandOf /\ UNCHANGED <<dmc, partyDmc, pool>>
  BY DEF Still, WorthOf, InHandOf, moneyVars
<1>2. Rows' = Rows /\ Hands' = Hands /\ Balances' = Balances
  BY <1>1 DEF Rows, Hands, Balances
<1> QED
  BY <1>1, <1>2, LedgerKept

LEMMA Prices ==
  ASSUME NEW t \in Payouts
  PROVE  \E a \in Int, k \in Int : a = Amount[t] /\ k = Charge[t]
BY ConstantsAssumption

\* Jobs that have nothing in hand.
EmptyPcs ==
  {"idle", "hold", "complete", "reassign", "expire", "return", "proofClaim", "proofCreate",
   "proofQueue", "proofAsk", "approve", "reject", "payShare", "allocateCaptain",
   "allocatePlatform"}

\* Rows in either state are worth the same.
Alike(s, z) ==
  /\ s \in TERMINAL_STATES \cup {"ABSENT"} <=> z \in TERMINAL_STATES \cup {"ABSENT"}
  /\ s \in DMC_HELD_STATES <=> z \in DMC_HELD_STATES

EmptyMove(w) ==
  /\ \A v \in Workers \ {w} : jobs'[v] = jobs[v]
  /\ jobs[w].pc \in EmptyPcs /\ jobs'[w].pc \in EmptyPcs
  /\ \A t \in Payouts : Alike(status[t], status'[t])
  /\ UNCHANGED moneyVars

LEMMA EmptyMoveIsStill ==
  ASSUME NEW w \in Workers, EmptyMove(w)
  PROVE  Still
<1>1. ASSUME NEW t \in Payouts
      PROVE  Worth(t, status'[t]) = Worth(t, status[t])
  BY DEF EmptyMove, Alike, Worth
<1>2. ASSUME NEW v \in Workers
      PROVE  InHand(jobs'[v].t, jobs'[v].pc) = InHand(jobs[v].t, jobs[v].pc)
  <2>1. CASE v = w
    BY <2>1 DEF EmptyMove, EmptyPcs, InHand
  <2>2. CASE v # w
    BY <2>2 DEF EmptyMove
  <2> QED
    BY <2>1, <2>2
<1> QED
  BY <1>1, <1>2 DEF Still, EmptyMove

LEMMA BalancesPicked ==
  ASSUME TypeInv
  PROVE  \E p \in Int, o \in Int, b \in Int : p = partyDmc /\ o = pool /\ b = Balances
BY BooksType DEF BooksAreInts

\* Every step but a crash keeps the ledger: the writes that move money move
\* as much out of one place as into another.
LEMMA LedgerStep ==
  ASSUME TypeInv, TypeInv', CopiesAgree, CopiesAgree', [Next]_vars, ~Crash
  PROVE  Ledger' = Ledger
<1>1. ASSUME NEW w \in Workers, NEW t \in Payouts, NEW c \in Captains,
             ClaimRead(w, t, c)
      PROVE  EmptyMove(w)
  BY <1>1
  DEF ClaimRead, EmptyMove, EmptyPcs, TypeInv, JobsInv, JobsOK, Job, RowOK,
      At, Begin, Goto, Finish, Idle, Read, rowVars, rowButStatus, Alike,
      TERMINAL_STATES, DMC_HELD_STATES
<1>2. ASSUME NEW w \in Workers, NEW t \in Payouts, NEW c \in Captains,
             ProofRead(w, t, c)
      PROVE  EmptyMove(w)
  BY <1>2
  DEF ProofRead, EmptyMove, EmptyPcs, TypeInv, JobsInv, JobsOK, Job, RowOK,
      At, Begin, Goto, Finish, Idle, Read, rowVars, rowButStatus, Alike,
      TERMINAL_STATES, DMC_HELD_STATES
<1>3. ASSUME NEW w \in Workers,
             ClaimRefused(w)
      PROVE  EmptyMove(w)
  BY <1>3
  DEF ClaimRefused, EmptyMove, EmptyPcs, TypeInv, JobsInv, JobsOK, Job, RowOK,
      At, Begin, Goto, Finish, Idle, Read, rowVars, rowButStatus, Alike,
      TERMINAL_STATES, DMC_HELD_STATES
<1>4. ASSUME NEW w \in Workers,
             ProofClaim(w)
      PROVE  EmptyMove(w)
  BY <1>4
  DEF ProofClaim, EmptyMove, EmptyPcs, TypeInv, JobsInv, JobsOK, Job, RowOK,
      At, Begin, Goto, Finish, Idle, Read, rowVars, rowButStatus, Alike,
      TERMINAL_STATES, DMC_HELD_STATES
<1>5. ASSUME NEW w \in Workers,
             ProofCreate(w)
      PROVE  EmptyMove(w)
  BY <1>5
  DEF ProofCreate, EmptyMove, EmptyPcs, TypeInv, JobsInv, JobsOK, Job, RowOK,
      At, Begin, Goto, Finish, Idle, Read, rowVars, rowButStatus, Alike,
      TERMINAL_STATES, DMC_HELD_STATES
<1>6. ASSUME NEW w \in Workers,
             ProofQueue(w)
      PROVE  EmptyMove(w)
  BY <1>6
  DEF ProofQueue, EmptyMove, EmptyPcs, TypeInv, JobsInv, JobsOK, Job, RowOK,
      At, Begin, Goto, Finish, Idle, Read, rowVars, rowButStatus, Alike,
      TERMINAL_STATES, DMC_HELD_STATES
<1>7. ASSUME NEW w \in Workers,
             ProofAsk(w)
      PROVE  EmptyMove(w)
  BY <1>7
  DEF ProofAsk, EmptyMove, EmptyPcs, TypeInv, JobsInv, JobsOK, Job, RowOK, At,
      Begin, Goto, Finish, Idle, Read, rowVars, rowButStatus, Alike,
      TERMINAL_STATES, DMC_HELD_STATES
<1>8. ASSUME NEW w \in Workers, NEW t \in Payouts, NEW next \in {"approve", "reject"},
             ClearDeadline(w, t, next)
      PROVE  EmptyMove(w)
  BY <1>8
  DEF ClearDeadline, EmptyMove, EmptyPcs, TypeInv, JobsInv, JobsOK, Job,
      RowOK, At, Begin, Goto, Finish, Idle, Read, rowVars, rowButStatus,
      Alike, TERMINAL_STATES, DMC_HELD_STATES
<1>9. ASSUME NEW w \in Workers,
             ApproveAfterClear(w)
      PROVE  EmptyMove(w)
  BY <1>9
  DEF ApproveAfterClear, EmptyMove, EmptyPcs, TypeInv, JobsInv, JobsOK, Job,
      RowOK, At, Begin, Goto, Finish, Idle, Read, rowVars, rowButStatus,
      Alike, TERMINAL_STATES, DMC_HELD_STATES
<1>10. ASSUME NEW w \in Workers,
             RejectAfterClear(w)
      PROVE  EmptyMove(w)
  BY <1>10
  DEF RejectAfterClear, MarkRejected, EmptyMove, EmptyPcs, TypeInv, JobsInv,
      JobsOK, Job, RowOK, At, Begin, Goto, Finish, Idle, Read, rowVars,
      rowButStatus, Alike, TERMINAL_STATES, DMC_HELD_STATES
<1>11. ASSUME NEW w \in Workers, NEW t \in Payouts,
             ApproveRead(w, t)
      PROVE  EmptyMove(w)
  BY <1>11
  DEF ApproveRead, EmptyMove, EmptyPcs, TypeInv, JobsInv, JobsOK, Job, RowOK,
      At, Begin, Goto, Finish, Idle, Read, rowVars, rowButStatus, Alike,
      TERMINAL_STATES, DMC_HELD_STATES
<1>12. ASSUME NEW w \in Workers, NEW t \in Payouts,
             OverruleRead(w, t)
      PROVE  EmptyMove(w)
  BY <1>12
  DEF OverruleRead, EmptyMove, EmptyPcs, TypeInv, JobsInv, JobsOK, Job, RowOK,
      At, Begin, Goto, Finish, Idle, Read, rowVars, rowButStatus, Alike,
      TERMINAL_STATES, DMC_HELD_STATES
<1>13. ASSUME NEW w \in Workers, NEW t \in Payouts,
             ReassignRead(w, t)
      PROVE  EmptyMove(w)
  BY <1>13
  DEF ReassignRead, EmptyMove, EmptyPcs, TypeInv, JobsInv, JobsOK, Job, RowOK,
      At, Begin, Goto, Finish, Idle, Read, rowVars, rowButStatus, Alike,
      TERMINAL_STATES, DMC_HELD_STATES
<1>14. ASSUME NEW w \in Workers,
             CompleteLost(w)
      PROVE  EmptyMove(w)
  BY <1>14
  DEF CompleteLost, EmptyMove, EmptyPcs, TypeInv, JobsInv, JobsOK, Job, RowOK,
      At, Begin, Goto, Finish, Idle, Read, rowVars, rowButStatus, Alike,
      TERMINAL_STATES, DMC_HELD_STATES
<1>15. ASSUME NEW w \in Workers,
             CompleteAllocateCaptain(w)
      PROVE  EmptyMove(w)
  BY <1>15
  DEF CompleteAllocateCaptain, EmptyMove, EmptyPcs, TypeInv, JobsInv, JobsOK,
      Job, RowOK, At, Begin, Goto, Finish, Idle, Read, rowVars, rowButStatus,
      Alike, TERMINAL_STATES, DMC_HELD_STATES
<1>16. ASSUME NEW w \in Workers,
             CompleteAllocatePlatform(w)
      PROVE  EmptyMove(w)
  BY <1>16
  DEF CompleteAllocatePlatform, AllocationOwners, EmptyMove, EmptyPcs,
      TypeInv, JobsInv, JobsOK, Job, RowOK, At, Begin, Goto, Finish, Idle,
      Read, rowVars, rowButStatus, Alike, TERMINAL_STATES, DMC_HELD_STATES
<1>17. ASSUME NEW w \in Workers,
             ReassignLost(w)
      PROVE  EmptyMove(w)
  BY <1>17
  DEF ReassignLost, EmptyMove, EmptyPcs, TypeInv, JobsInv, JobsOK, Job, RowOK,
      At, Begin, Goto, Finish, Idle, Read, rowVars, rowButStatus, Alike,
      TERMINAL_STATES, DMC_HELD_STATES
<1>18. ASSUME NEW w \in Workers, NEW t \in Payouts,
             ExpireRead(w, t)
      PROVE  EmptyMove(w)
  BY <1>18
  DEF ExpireRead, EmptyMove, EmptyPcs, TypeInv, JobsInv, JobsOK, Job, RowOK,
      At, Begin, Goto, Finish, Idle, Read, rowVars, rowButStatus, Alike,
      TERMINAL_STATES, DMC_HELD_STATES
<1>19. ASSUME NEW w \in Workers, NEW t \in Payouts,
             ReturnRead(w, t)
      PROVE  EmptyMove(w)
  BY <1>19
  DEF ReturnRead, EmptyMove, EmptyPcs, TypeInv, JobsInv, JobsOK, Job, RowOK,
      At, Begin, Goto, Finish, Idle, Read, rowVars, rowButStatus, Alike,
      TERMINAL_STATES, DMC_HELD_STATES
<1>20. ASSUME NEW w \in Workers,
             ExpireLost(w)
      PROVE  EmptyMove(w)
  BY <1>20
  DEF ExpireLost, EmptyMove, EmptyPcs, TypeInv, JobsInv, JobsOK, Job, RowOK,
      At, Begin, Goto, Finish, Idle, Read, rowVars, rowButStatus, Alike,
      TERMINAL_STATES, DMC_HELD_STATES
<1>21. ASSUME NEW w \in Workers,
             ReturnWrite(w)
      PROVE  EmptyMove(w)
  BY <1>21
  DEF ReturnWrite, ReturnToPool, EmptyMove, EmptyPcs, TypeInv, JobsInv,
      JobsOK, Job, RowOK, At, Begin, Goto, Finish, Idle, Read, rowVars,
      rowButStatus, Alike, TERMINAL_STATES, DMC_HELD_STATES
<1>22. ASSUME NEW w \in Workers,
             ReturnLost(w)
      PROVE  EmptyMove(w)
  BY <1>22
  DEF ReturnLost, EmptyMove, EmptyPcs, TypeInv, JobsInv, JobsOK, Job, RowOK,
      At, Begin, Goto, Finish, Idle, Read, rowVars, rowButStatus, Alike,
      TERMINAL_STATES, DMC_HELD_STATES
<1>23. ASSUME NEW t \in Payouts, NEW c \in Captains,
             StartTask(t, c)
      PROVE  Still
  BY <1>23
  DEF StartTask, Still, Worth, moneyVars, TypeInv, RowOK, rowVars,
      rowButStatus, TERMINAL_STATES, DMC_HELD_STATES, CanTransition,
      TASK_TRANSITIONS, TaskStates, CopiesAgree, RowAgrees
<1>24. ASSUME NEW t \in Payouts,
             RejectTask(t)
      PROVE  Still
  BY <1>24
  DEF RejectTask, MarkRejected, Still, Worth, moneyVars, TypeInv, RowOK,
      rowVars, rowButStatus, TERMINAL_STATES, DMC_HELD_STATES, CanTransition,
      TASK_TRANSITIONS, TaskStates, CopiesAgree, RowAgrees
<1>25. ASSUME NEW t \in Payouts,
             RequestCancellation(t)
      PROVE  Still
  BY <1>25
  DEF RequestCancellation, Still, Worth, moneyVars, TypeInv, RowOK, rowVars,
      rowButStatus, TERMINAL_STATES, DMC_HELD_STATES, CanTransition,
      TASK_TRANSITIONS, TaskStates, CopiesAgree, RowAgrees
<1>26. ASSUME NEW t \in Payouts,
             DisputeCancellation(t)
      PROVE  Still
  BY <1>26
  DEF DisputeCancellation, Still, Worth, moneyVars, TypeInv, RowOK, rowVars,
      rowButStatus, TERMINAL_STATES, DMC_HELD_STATES, CanTransition,
      TASK_TRANSITIONS, TaskStates, CopiesAgree, RowAgrees
<1>27. ASSUME NEW t \in Payouts,
             RestoreDisputed(t)
      PROVE  Still
  BY <1>27
  DEF RestoreDisputed, Still, Worth, moneyVars, TypeInv, RowOK, rowVars,
      rowButStatus, TERMINAL_STATES, DMC_HELD_STATES, CanTransition,
      TASK_TRANSITIONS, TaskStates, CopiesAgree, RowAgrees
<1>28. ASSUME NEW t \in Payouts, NEW k \in Clocks,
             ClockLapses(t, k)
      PROVE  Still
  BY <1>28
  DEF ClockLapses, Running, Still, Worth, moneyVars, TypeInv, RowOK, rowVars,
      rowButStatus, TERMINAL_STATES, DMC_HELD_STATES, CanTransition,
      TASK_TRANSITIONS, TaskStates, CopiesAgree, RowAgrees
<1>29. ASSUME NEW w \in Workers,
             CreateDuplicate(w)
      PROVE  Still
  BY <1>29
  DEF CreateDuplicate, Still, InHand, Goto, Finish, Idle, At, rowVars,
      TypeInv, JobsInv, JobsOK, Job
<1>30. ASSUME NEW w \in Workers,
             ClaimLost(w)
      PROVE  Still
  BY <1>30
  DEF ClaimLost, Still, InHand, Goto, Finish, Idle, At, rowVars, TypeInv,
      JobsInv, JobsOK, Job
<1>31. ASSUME NEW w \in Workers,
             CompleteCommission(w)
      PROVE  Still
  BY <1>31
  DEF CompleteCommission, CreditCommission, Still, InHand, Goto, Finish, Idle,
      At, rowVars, TypeInv, JobsInv, JobsOK, Job
<1>32. ASSUME NEW w \in Workers, ReassignSupersede(w)
      PROVE  Still
  <2>1. jobs[w].c # None
    BY <1>32, ConstantsAssumption DEF ReassignSupersede, At, CopiesAgree, JobAgrees
  <2>2. Goto(w, "release") /\ At(w, "supersede")
    BY <1>32, <2>1 DEF ReassignSupersede
  <2>3. \A v \in Workers : InHand(jobs'[v].t, jobs'[v].pc) = InHand(jobs[v].t, jobs[v].pc)
    BY <2>2 DEF Goto, At, InHand, TypeInv, JobsInv, JobsOK, Job
  <2> QED
    BY <1>32, <2>3 DEF ReassignSupersede, Still, rowVars
<1>33. ASSUME UNCHANGED vars
      PROVE  Still
  BY <1>33 DEF vars, rowVars, Still
<1>34. ASSUME NEW w \in Workers, NEW t \in Payouts, CreateDebit(w, t)
      PROVE  Ledger' = Ledger
  <2>1. PICK a \in Int, k \in Int : a = Amount[t] /\ k = Charge[t]
    BY Prices
  <2>2. Changes(w, t)
    BY <1>34
    DEF CreateDebit, Begin, Goto, Finish, Changes, TypeInv, JobsInv, JobsOK,
        RowOK, rowVars, rowButStatus
  <2>3. PICK x \in Int : x = Worth(t, status[t]) /\ x = Worth(t, status'[t])
    BY <1>34, WorthIsInt DEF CreateDebit, rowVars
  <2>4. InHand(jobs[w].t, jobs[w].pc) = 0 /\ InHand(jobs'[w].t, jobs'[w].pc) = a + k
    BY <1>34, <2>1, ConstantsAssumption
    DEF CreateDebit, Begin, Goto, Finish, Idle, Read, InHand, At, TypeInv,
        JobsInv, JobsOK, Job
  <2>5. PICK p \in Int, o \in Int, b \in Int : p = partyDmc /\ o = pool /\ b = Balances
    BY BalancesPicked
  <2>6. partyDmc' = p - (a + k) /\ pool' = o
    BY <1>34, <2>1, <2>5 DEF CreateDebit, moneyVars
  <2>7. Balances' = b
    BY <1>34, <2>5 DEF CreateDebit, Balances, moneyVars
  <2>8. Local(w, t)' = Local(w, t)
    BY <2>3, <2>4, <2>5, <2>6, <2>7 DEF Local
  <2> QED
    BY <2>2, <2>8, Balanced
<1>35. ASSUME NEW w \in Workers, CreateRefundDebit(w)
      PROVE  Ledger' = Ledger
  <2>1. PICK t \in Payouts : t = jobs[w].t
    BY <1>35 DEF CreateRefundDebit, At, TypeInv, JobsInv, JobsOK, Job
  <2>2. PICK a \in Int, k \in Int : a = Amount[t] /\ k = Charge[t]
    BY Prices
  <2>3. Changes(w, t)
    BY <1>35, <2>1
    DEF CreateRefundDebit, Begin, Goto, Finish, Changes, TypeInv, JobsInv,
        JobsOK, RowOK, rowVars, rowButStatus
  <2>4. PICK x \in Int : x = Worth(t, status[t]) /\ x = Worth(t, status'[t])
    BY <1>35, <2>1, WorthIsInt DEF CreateRefundDebit, rowVars
  <2>5. InHand(jobs[w].t, jobs[w].pc) = a + k /\ InHand(jobs'[w].t, jobs'[w].pc) = 0
    BY <1>35, <2>1, <2>2, ConstantsAssumption
    DEF CreateRefundDebit, Begin, Goto, Finish, Idle, Read, InHand, At,
        TypeInv, JobsInv, JobsOK, Job
  <2>6. PICK p \in Int, o \in Int, b \in Int : p = partyDmc /\ o = pool /\ b = Balances
    BY BalancesPicked
  <2>7. partyDmc' = p + a + k /\ pool' = o
    BY <1>35, <2>1, <2>2, <2>6 DEF CreateRefundDebit, moneyVars
  <2>8. Balances' = b
    BY <1>35, <2>6 DEF CreateRefundDebit, Balances, moneyVars
  <2>9. Local(w, t)' = Local(w, t)
    BY <2>4, <2>5, <2>6, <2>7, <2>8 DEF Local
  <2> QED
    BY <2>3, <2>9, Balanced
<1>36. ASSUME NEW w \in Workers, RefundParty(w)
      PROVE  Ledger' = Ledger
  <2>1. PICK t \in Payouts : t = jobs[w].t
    BY <1>36 DEF RefundParty, At, TypeInv, JobsInv, JobsOK, Job
  <2>2. PICK a \in Int, k \in Int : a = Amount[t] /\ k = Charge[t]
    BY Prices
  <2>3. jobs[w].share + jobs[w].platform = k /\ jobs[w].share \in Int /\ jobs[w].platform \in Int
    BY <1>36, <2>1, <2>2
    DEF RefundParty, At, TypeInv, JobsInv, JobsOK, Job, CopiesAgree, JobAgrees
  <2>4. Changes(w, t)
    BY <1>36, <2>1
    DEF RefundParty, Begin, Goto, Finish, Changes, TypeInv, JobsInv, JobsOK,
        RowOK, rowVars, rowButStatus
  <2>5. PICK x \in Int : x = Worth(t, status[t]) /\ x = Worth(t, status'[t])
    BY <1>36, <2>1, WorthIsInt DEF RefundParty, rowVars
  <2>6. InHand(jobs[w].t, jobs[w].pc) = a + k /\ InHand(jobs'[w].t, jobs'[w].pc) = 0
    BY <1>36, <2>1, <2>2, ConstantsAssumption
    DEF RefundParty, Begin, Goto, Finish, Idle, Read, InHand, At, TypeInv,
        JobsInv, JobsOK, Job
  <2>7. PICK p \in Int, o \in Int, b \in Int : p = partyDmc /\ o = pool /\ b = Balances
    BY BalancesPicked
  <2>8. partyDmc' = p + a + k /\ pool' = o
    BY <1>36, <2>1, <2>2, <2>3, <2>7 DEF RefundParty, moneyVars
  <2>9. Balances' = b
    BY <1>36, <2>7 DEF RefundParty, Balances, moneyVars
  <2>10. Local(w, t)' = Local(w, t)
    BY <2>3, <2>5, <2>6, <2>7, <2>8, <2>9 DEF Local
  <2> QED
    BY <2>4, <2>10, Balanced
<1>37. ASSUME NEW w \in Workers, CompleteCollect(w)
      PROVE  Ledger' = Ledger
  <2>1. PICK t \in Payouts : t = jobs[w].t
    BY <1>37 DEF CompleteCollect, At, TypeInv, JobsInv, JobsOK, Job
  <2>2. PICK a \in Int, k \in Int : a = Amount[t] /\ k = Charge[t]
    BY Prices
  <2>3. jobs[w].share + jobs[w].platform = k /\ jobs[w].share \in Int /\ jobs[w].platform \in Int
    BY <1>37, <2>1, <2>2
    DEF CompleteCollect, At, TypeInv, JobsInv, JobsOK, Job, CopiesAgree,
        JobAgrees
  <2>4. Changes(w, t)
    BY <1>37, <2>1
    DEF CompleteCollect, Begin, Goto, Finish, Changes, TypeInv, JobsInv,
        JobsOK, RowOK, rowVars, rowButStatus
  <2>5. PICK x \in Int : x = Worth(t, status[t]) /\ x = Worth(t, status'[t])
    BY <1>37, <2>1, WorthIsInt DEF CompleteCollect, rowVars
  <2>6. InHand(jobs[w].t, jobs[w].pc) = 2 * a + k /\ InHand(jobs'[w].t, jobs'[w].pc) = 2 * a
    BY <1>37, <2>1, <2>2, ConstantsAssumption
    DEF CompleteCollect, Begin, Goto, Finish, Idle, Read, InHand, At, TypeInv,
        JobsInv, JobsOK, Job
  <2>7. PICK p \in Int, o \in Int, b \in Int : p = partyDmc /\ o = pool /\ b = Balances
    BY BalancesPicked
  <2>8. partyDmc' = p /\ pool' = o + k
    BY <1>37, <2>1, <2>2, <2>3, <2>7 DEF CompleteCollect, moneyVars
  <2>9. Balances' = b
    BY <1>37, <2>7 DEF CompleteCollect, Balances, moneyVars
  <2>10. Local(w, t)' = Local(w, t)
    BY <2>3, <2>5, <2>6, <2>7, <2>8, <2>9 DEF Local
  <2> QED
    BY <2>4, <2>10, Balanced
<1>38. ASSUME NEW w \in Workers, ClaimHold(w)
      PROVE  Ledger' = Ledger
  <2>1. PICK t \in Payouts, c \in Captains : t = jobs[w].t /\ c = jobs[w].c
    BY <1>38
    DEF ClaimHold, TakeHold, At, TypeInv, JobsInv, JobsOK, Job, CaptainPcs,
        ClaimingPcs
  <2>2. PICK a \in Int, k \in Int : a = Amount[t] /\ k = Charge[t]
    BY Prices
  <2>3. Changes(w, t)
    BY <1>38, <2>1
    DEF ClaimHold, TakeHold, Begin, Goto, Finish, Changes, TypeInv, JobsInv,
        JobsOK, RowOK, rowVars, rowButStatus
  <2>4. PICK x \in Int : x = Worth(t, status[t]) /\ x = Worth(t, status'[t])
    BY <1>38, <2>1, WorthIsInt DEF ClaimHold, TakeHold, rowVars
  <2>5. InHand(jobs[w].t, jobs[w].pc) = 0 /\ InHand(jobs'[w].t, jobs'[w].pc) = a
    BY <1>38, <2>1, <2>2, ConstantsAssumption
    DEF ClaimHold, TakeHold, Begin, Goto, Finish, Idle, Read, InHand, At,
        TypeInv, JobsInv, JobsOK, Job
  <2>6. PICK p \in Int, o \in Int, b \in Int : p = partyDmc /\ o = pool /\ b = Balances
    BY BalancesPicked
  <2>7. partyDmc' = p /\ pool' = o
    BY <1>38, <2>1, <2>2, <2>6 DEF ClaimHold, TakeHold, moneyVars
  <2>8. PICK d \in Int : d = (-a)
    OBVIOUS
  <2>9. dmc' = [dmc EXCEPT ![c] = @ + d]
    BY <1>38, <2>1, <2>2, <2>8 DEF ClaimHold, TakeHold, TypeInv, MoneyOK
  <2>10. Balances' = b + d
    BY <2>1, <2>6, <2>9, OneBalanceMoves
  <2>11. Local(w, t)' = Local(w, t)
    BY <2>4, <2>5, <2>6, <2>7, <2>8, <2>10 DEF Local
  <2> QED
    BY <2>3, <2>11, Balanced
<1>39. ASSUME NEW w \in Workers, Release(w)
      PROVE  Ledger' = Ledger
  <2>1. PICK t \in Payouts, c \in Captains : t = jobs[w].t /\ c = jobs[w].c
    BY <1>39
    DEF Release, ReleaseHold, At, TypeInv, JobsInv, JobsOK, Job, CaptainPcs,
        ClaimingPcs
  <2>2. PICK a \in Int, k \in Int : a = Amount[t] /\ k = Charge[t]
    BY Prices
  <2>3. Changes(w, t)
    BY <1>39, <2>1
    DEF Release, ReleaseHold, Begin, Goto, Finish, Changes, TypeInv, JobsInv,
        JobsOK, RowOK, rowVars, rowButStatus
  <2>4. PICK x \in Int : x = Worth(t, status[t]) /\ x = Worth(t, status'[t])
    BY <1>39, <2>1, WorthIsInt DEF Release, ReleaseHold, rowVars
  <2>5. InHand(jobs[w].t, jobs[w].pc) = a /\ InHand(jobs'[w].t, jobs'[w].pc) = 0
    BY <1>39, <2>1, <2>2, ConstantsAssumption
    DEF Release, ReleaseHold, Begin, Goto, Finish, Idle, Read, InHand, At,
        TypeInv, JobsInv, JobsOK, Job
  <2>6. PICK p \in Int, o \in Int, b \in Int : p = partyDmc /\ o = pool /\ b = Balances
    BY BalancesPicked
  <2>7. partyDmc' = p /\ pool' = o
    BY <1>39, <2>1, <2>2, <2>6 DEF Release, ReleaseHold, moneyVars
  <2>8. PICK d \in Int : d = a
    OBVIOUS
  <2>9. dmc' = [dmc EXCEPT ![c] = @ + d]
    BY <1>39, <2>1, <2>2, <2>8 DEF Release, ReleaseHold, TypeInv, MoneyOK
  <2>10. Balances' = b + d
    BY <2>1, <2>6, <2>9, OneBalanceMoves
  <2>11. Local(w, t)' = Local(w, t)
    BY <2>4, <2>5, <2>6, <2>7, <2>8, <2>10 DEF Local
  <2> QED
    BY <2>3, <2>11, Balanced
<1>40. ASSUME NEW w \in Workers, ReleaseCancelled(w)
      PROVE  Ledger' = Ledger
  <2>1. PICK t \in Payouts, c \in Captains : t = jobs[w].t /\ c = jobs[w].c
    BY <1>40
    DEF ReleaseCancelled, ReleaseHold, At, TypeInv, JobsInv, JobsOK, Job,
        CaptainPcs, ClaimingPcs
  <2>2. PICK a \in Int, k \in Int : a = Amount[t] /\ k = Charge[t]
    BY Prices
  <2>3. Changes(w, t)
    BY <1>40, <2>1
    DEF ReleaseCancelled, ReleaseHold, Begin, Goto, Finish, Changes, TypeInv,
        JobsInv, JobsOK, RowOK, rowVars, rowButStatus
  <2>4. PICK x \in Int : x = Worth(t, status[t]) /\ x = Worth(t, status'[t])
    BY <1>40, <2>1, WorthIsInt DEF ReleaseCancelled, ReleaseHold, rowVars
  <2>5. InHand(jobs[w].t, jobs[w].pc) = 2 * a + k /\ InHand(jobs'[w].t, jobs'[w].pc) = a + k
    BY <1>40, <2>1, <2>2, ConstantsAssumption
    DEF ReleaseCancelled, ReleaseHold, Begin, Goto, Finish, Idle, Read,
        InHand, At, TypeInv, JobsInv, JobsOK, Job
  <2>6. PICK p \in Int, o \in Int, b \in Int : p = partyDmc /\ o = pool /\ b = Balances
    BY BalancesPicked
  <2>7. partyDmc' = p /\ pool' = o
    BY <1>40, <2>1, <2>2, <2>6 DEF ReleaseCancelled, ReleaseHold, moneyVars
  <2>8. PICK d \in Int : d = a
    OBVIOUS
  <2>9. dmc' = [dmc EXCEPT ![c] = @ + d]
    BY <1>40, <2>1, <2>2, <2>8
    DEF ReleaseCancelled, ReleaseHold, TypeInv, MoneyOK
  <2>10. Balances' = b + d
    BY <2>1, <2>6, <2>9, OneBalanceMoves
  <2>11. Local(w, t)' = Local(w, t)
    BY <2>4, <2>5, <2>6, <2>7, <2>8, <2>10 DEF Local
  <2> QED
    BY <2>3, <2>11, Balanced
<1>41. ASSUME NEW w \in Workers, CompleteReimburse(w)
      PROVE  Ledger' = Ledger
  <2>1. PICK t \in Payouts, c \in Captains : t = jobs[w].t /\ c = jobs[w].c
    BY <1>41
    DEF CompleteReimburse, At, TypeInv, JobsInv, JobsOK, Job, CaptainPcs,
        ClaimingPcs
  <2>2. PICK a \in Int, k \in Int : a = Amount[t] /\ k = Charge[t]
    BY Prices
  <2>3. Changes(w, t)
    BY <1>41, <2>1
    DEF CompleteReimburse, Begin, Goto, Finish, Changes, TypeInv, JobsInv,
        JobsOK, RowOK, rowVars, rowButStatus
  <2>4. PICK x \in Int : x = Worth(t, status[t]) /\ x = Worth(t, status'[t])
    BY <1>41, <2>1, WorthIsInt DEF CompleteReimburse, rowVars
  <2>5. InHand(jobs[w].t, jobs[w].pc) = 2 * a /\ InHand(jobs'[w].t, jobs'[w].pc) = 0
    BY <1>41, <2>1, <2>2, ConstantsAssumption
    DEF CompleteReimburse, Begin, Goto, Finish, Idle, Read, InHand, At,
        TypeInv, JobsInv, JobsOK, Job
  <2>6. PICK p \in Int, o \in Int, b \in Int : p = partyDmc /\ o = pool /\ b = Balances
    BY BalancesPicked
  <2>7. partyDmc' = p /\ pool' = o
    BY <1>41, <2>1, <2>2, <2>6 DEF CompleteReimburse, moneyVars
  <2>8. PICK d \in Int : d = 2 * a
    OBVIOUS
  <2>9. dmc' = [dmc EXCEPT ![c] = @ + d]
    BY <1>41, <2>1, <2>2, <2>8 DEF CompleteReimburse, TypeInv, MoneyOK
  <2>10. Balances' = b + d
    BY <2>1, <2>6, <2>9, OneBalanceMoves
  <2>11. Local(w, t)' = Local(w, t)
    BY <2>4, <2>5, <2>6, <2>7, <2>8, <2>10 DEF Local
  <2> QED
    BY <2>3, <2>11, Balanced
<1>42. ASSUME NEW w \in Workers, CreateInsert(w)
      PROVE  Ledger' = Ledger
  <2>1. PICK t \in Payouts : t = jobs[w].t
    BY <1>42 DEF CreateInsert, At, TypeInv, JobsInv, JobsOK, Job
  <2>2. PICK a \in Int, k \in Int : a = Amount[t] /\ k = Charge[t]
    BY Prices
  <2>3. Changes(w, t)
    BY <1>42, <2>1
    DEF CreateInsert, Begin, Goto, Finish, Changes, TypeInv, JobsInv, JobsOK,
        RowOK, rowVars, rowButStatus
  <2>4. Worth(t, status[t]) = 0 /\ Worth(t, status'[t]) = a + k
    BY <1>42, <2>1, <2>2, ConstantsAssumption
    DEF CreateInsert, Worth, TERMINAL_STATES, DMC_HELD_STATES,
        CLAIMABLE_STATES, CanTransition, TASK_TRANSITIONS, TaskStates,
        TypeInv, RowOK, HasCaptain, JobsInv, JobFromOK, At
  <2>5. InHand(jobs[w].t, jobs[w].pc) = a + k /\ InHand(jobs'[w].t, jobs'[w].pc) = 0
    BY <1>42, <2>1, <2>2, ConstantsAssumption
    DEF CreateInsert, Begin, Goto, Finish, Idle, Read, InHand, At, TypeInv,
        JobsInv, JobsOK, Job
  <2>6. PICK p \in Int, o \in Int, b \in Int : p = partyDmc /\ o = pool /\ b = Balances
    BY BalancesPicked
  <2>7. partyDmc' = p /\ pool' = o
    BY <1>42, <2>1, <2>2, <2>6 DEF CreateInsert, moneyVars
  <2>8. Balances' = b
    BY <1>42, <2>6 DEF CreateInsert, Balances, moneyVars
  <2>9. Local(w, t)' = Local(w, t)
    BY <2>4, <2>5, <2>6, <2>7, <2>8 DEF Local
  <2> QED
    BY <2>3, <2>9, Balanced
<1>43. ASSUME NEW w \in Workers, ClaimWrite(w)
      PROVE  Ledger' = Ledger
  <2>1. PICK t \in Payouts, c \in Captains : t = jobs[w].t /\ c = jobs[w].c
    BY <1>43
    DEF ClaimWrite, AssignTo, At, TypeInv, JobsInv, JobsOK, Job, CaptainPcs,
        ClaimingPcs
  <2>2. PICK a \in Int, k \in Int : a = Amount[t] /\ k = Charge[t]
    BY Prices
  <2>3. Changes(w, t)
    BY <1>43, <2>1
    DEF ClaimWrite, AssignTo, Begin, Goto, Finish, Changes, TypeInv, JobsInv,
        JobsOK, RowOK, rowVars, rowButStatus
  <2>4. status[t] \in CLAIMABLE_STATES /\ status'[t] = "ASSIGNED"
    BY <1>43, <2>1 DEF ClaimWrite, AssignTo, TypeInv, RowOK
  <2>5. Worth(t, status[t]) = a + k /\ Worth(t, status'[t]) = 2 * a + k
    BY <2>2, <2>4
    DEF Worth, TERMINAL_STATES, DMC_HELD_STATES, CLAIMABLE_STATES
  <2>6. InHand(jobs[w].t, jobs[w].pc) = a /\ InHand(jobs'[w].t, jobs'[w].pc) = 0
    BY <1>43, <2>1, <2>2, ConstantsAssumption
    DEF ClaimWrite, AssignTo, Begin, Goto, Finish, Idle, Read, InHand, At,
        TypeInv, JobsInv, JobsOK, Job
  <2>7. PICK p \in Int, o \in Int, b \in Int : p = partyDmc /\ o = pool /\ b = Balances
    BY BalancesPicked
  <2>8. partyDmc' = p /\ pool' = o
    BY <1>43, <2>1, <2>2, <2>7 DEF ClaimWrite, AssignTo, moneyVars
  <2>9. Balances' = b
    BY <1>43, <2>7 DEF ClaimWrite, AssignTo, Balances, moneyVars
  <2>10. Local(w, t)' = Local(w, t)
    BY <2>5, <2>6, <2>7, <2>8, <2>9 DEF Local
  <2> QED
    BY <2>3, <2>10, Balanced
<1>44. ASSUME NEW w \in Workers, ClaimInTransaction(w)
      PROVE  Ledger' = Ledger
  <2>1. PICK t \in Payouts, c \in Captains : t = jobs[w].t /\ c = jobs[w].c
    BY <1>44
    DEF ClaimInTransaction, TakeHold, AssignTo, At, TypeInv, JobsInv, JobsOK,
        Job, CaptainPcs, ClaimingPcs
  <2>2. PICK a \in Int, k \in Int : a = Amount[t] /\ k = Charge[t]
    BY Prices
  <2>3. Changes(w, t)
    BY <1>44, <2>1
    DEF ClaimInTransaction, TakeHold, AssignTo, Begin, Goto, Finish, Changes,
        TypeInv, JobsInv, JobsOK, RowOK, rowVars, rowButStatus
  <2>4. status[t] \in CLAIMABLE_STATES /\ status'[t] = "ASSIGNED"
    BY <1>44, <2>1 DEF ClaimInTransaction, TakeHold, AssignTo, TypeInv, RowOK
  <2>5. Worth(t, status[t]) = a + k /\ Worth(t, status'[t]) = 2 * a + k
    BY <2>2, <2>4
    DEF Worth, TERMINAL_STATES, DMC_HELD_STATES, CLAIMABLE_STATES
  <2>6. InHand(jobs[w].t, jobs[w].pc) = 0 /\ InHand(jobs'[w].t, jobs'[w].pc) = 0
    BY <1>44, <2>1, <2>2, ConstantsAssumption
    DEF ClaimInTransaction, TakeHold, AssignTo, Begin, Goto, Finish, Idle,
        Read, InHand, At, TypeInv, JobsInv, JobsOK, Job
  <2>7. PICK p \in Int, o \in Int, b \in Int : p = partyDmc /\ o = pool /\ b = Balances
    BY BalancesPicked
  <2>8. partyDmc' = p /\ pool' = o
    BY <1>44, <2>1, <2>2, <2>7
    DEF ClaimInTransaction, TakeHold, AssignTo, moneyVars
  <2>9. PICK d \in Int : d = (-a)
    OBVIOUS
  <2>10. dmc' = [dmc EXCEPT ![c] = @ + d]
    BY <1>44, <2>1, <2>2, <2>9
    DEF ClaimInTransaction, TakeHold, AssignTo, TypeInv, MoneyOK
  <2>11. Balances' = b + d
    BY <2>1, <2>7, <2>10, OneBalanceMoves
  <2>12. Local(w, t)' = Local(w, t)
    BY <2>5, <2>6, <2>7, <2>8, <2>9, <2>11 DEF Local
  <2> QED
    BY <2>3, <2>12, Balanced
<1>45. ASSUME NEW w \in Workers, CompleteWrite(w)
      PROVE  Ledger' = Ledger
  <2>1. PICK t \in Payouts : t = jobs[w].t
    BY <1>45
    DEF CompleteWrite, MarkCompleted, At, TypeInv, JobsInv, JobsOK, Job
  <2>2. PICK a \in Int, k \in Int : a = Amount[t] /\ k = Charge[t]
    BY Prices
  <2>3. Changes(w, t)
    BY <1>45, <2>1
    DEF CompleteWrite, MarkCompleted, Begin, Goto, Finish, Changes, TypeInv,
        JobsInv, JobsOK, RowOK, rowVars, rowButStatus
  <2>4. Worth(t, status[t]) = 2 * a + k /\ Worth(t, status'[t]) = 0
    BY <1>45, <2>1, <2>2, ConstantsAssumption
    DEF CompleteWrite, MarkCompleted, Worth, TERMINAL_STATES, DMC_HELD_STATES,
        CLAIMABLE_STATES, CanTransition, TASK_TRANSITIONS, TaskStates,
        TypeInv, RowOK, HasCaptain, JobsInv, JobFromOK, At
  <2>5. InHand(jobs[w].t, jobs[w].pc) = 0 /\ InHand(jobs'[w].t, jobs'[w].pc) = 2 * a + k
    BY <1>45, <2>1, <2>2, ConstantsAssumption
    DEF CompleteWrite, MarkCompleted, Begin, Goto, Finish, Idle, Read, InHand,
        At, TypeInv, JobsInv, JobsOK, Job
  <2>6. PICK p \in Int, o \in Int, b \in Int : p = partyDmc /\ o = pool /\ b = Balances
    BY BalancesPicked
  <2>7. partyDmc' = p /\ pool' = o
    BY <1>45, <2>1, <2>2, <2>6 DEF CompleteWrite, MarkCompleted, moneyVars
  <2>8. Balances' = b
    BY <1>45, <2>6 DEF CompleteWrite, MarkCompleted, Balances, moneyVars
  <2>9. Local(w, t)' = Local(w, t)
    BY <2>4, <2>5, <2>6, <2>7, <2>8 DEF Local
  <2> QED
    BY <2>3, <2>9, Balanced
<1>46. ASSUME NEW w \in Workers, ReassignWrite(w)
      PROVE  Ledger' = Ledger
  <2>1. PICK t \in Payouts : t = jobs[w].t
    BY <1>46
    DEF ReassignWrite, ReturnToPool, At, TypeInv, JobsInv, JobsOK, Job
  <2>2. PICK a \in Int, k \in Int : a = Amount[t] /\ k = Charge[t]
    BY Prices
  <2>3. Changes(w, t)
    BY <1>46, <2>1
    DEF ReassignWrite, ReturnToPool, Begin, Goto, Finish, Changes, TypeInv,
        JobsInv, JobsOK, RowOK, rowVars, rowButStatus
  <2>4. Worth(t, status[t]) = 2 * a + k /\ Worth(t, status'[t]) = a + k
    BY <1>46, <2>1, <2>2, ConstantsAssumption
    DEF ReassignWrite, ReturnToPool, Worth, TERMINAL_STATES, DMC_HELD_STATES,
        CLAIMABLE_STATES, CanTransition, TASK_TRANSITIONS, TaskStates,
        TypeInv, RowOK, HasCaptain, JobsInv, JobFromOK, At
  <2>5. InHand(jobs[w].t, jobs[w].pc) = 0 /\ InHand(jobs'[w].t, jobs'[w].pc) = a
    BY <1>46, <2>1, <2>2, ConstantsAssumption
    DEF ReassignWrite, ReturnToPool, Begin, Goto, Finish, Idle, Read, InHand,
        At, TypeInv, JobsInv, JobsOK, Job
  <2>6. PICK p \in Int, o \in Int, b \in Int : p = partyDmc /\ o = pool /\ b = Balances
    BY BalancesPicked
  <2>7. partyDmc' = p /\ pool' = o
    BY <1>46, <2>1, <2>2, <2>6 DEF ReassignWrite, ReturnToPool, moneyVars
  <2>8. Balances' = b
    BY <1>46, <2>6 DEF ReassignWrite, ReturnToPool, Balances, moneyVars
  <2>9. Local(w, t)' = Local(w, t)
    BY <2>4, <2>5, <2>6, <2>7, <2>8 DEF Local
  <2> QED
    BY <2>3, <2>9, Balanced
<1>47. ASSUME NEW w \in Workers, ExpireWrite(w)
      PROVE  Ledger' = Ledger
  <2>1. PICK t \in Payouts : t = jobs[w].t
    BY <1>47 DEF ExpireWrite, At, TypeInv, JobsInv, JobsOK, Job
  <2>2. PICK a \in Int, k \in Int : a = Amount[t] /\ k = Charge[t]
    BY Prices
  <2>3. Changes(w, t)
    BY <1>47, <2>1
    DEF ExpireWrite, Begin, Goto, Finish, Changes, TypeInv, JobsInv, JobsOK,
        RowOK, rowVars, rowButStatus
  <2>4. Worth(t, status[t]) = 2 * a + k /\ Worth(t, status'[t]) = a + k
    BY <1>47, <2>1, <2>2, ConstantsAssumption
    DEF ExpireWrite, Worth, TERMINAL_STATES, DMC_HELD_STATES,
        CLAIMABLE_STATES, CanTransition, TASK_TRANSITIONS, TaskStates,
        TypeInv, RowOK, HasCaptain, JobsInv, JobFromOK, At, CopiesAgree,
        JobAgrees
  <2>5. InHand(jobs[w].t, jobs[w].pc) = 0 /\ InHand(jobs'[w].t, jobs'[w].pc) = a
    BY <1>47, <2>1, <2>2, ConstantsAssumption
    DEF ExpireWrite, Begin, Goto, Finish, Idle, Read, InHand, At, TypeInv,
        JobsInv, JobsOK, Job, CopiesAgree, JobAgrees
  <2>6. PICK p \in Int, o \in Int, b \in Int : p = partyDmc /\ o = pool /\ b = Balances
    BY BalancesPicked
  <2>7. partyDmc' = p /\ pool' = o
    BY <1>47, <2>1, <2>2, <2>6 DEF ExpireWrite, moneyVars
  <2>8. Balances' = b
    BY <1>47, <2>6 DEF ExpireWrite, Balances, moneyVars
  <2>9. Local(w, t)' = Local(w, t)
    BY <2>4, <2>5, <2>6, <2>7, <2>8 DEF Local
  <2> QED
    BY <2>3, <2>9, Balanced
<1>48. ASSUME NEW w \in Workers, NEW t \in Payouts, CancelUnclaimed(w, t)
      PROVE  Ledger' = Ledger
  <2>1. PICK a \in Int, k \in Int : a = Amount[t] /\ k = Charge[t]
    BY Prices
  <2>2. Changes(w, t)
    BY <1>48
    DEF CancelUnclaimed, Begin, Goto, Finish, Changes, TypeInv, JobsInv,
        JobsOK, RowOK, rowVars, rowButStatus
  <2>3. Worth(t, status[t]) = a + k /\ Worth(t, status'[t]) = 0
    BY <1>48, <2>1, ConstantsAssumption
    DEF CancelUnclaimed, Worth, TERMINAL_STATES, DMC_HELD_STATES,
        CLAIMABLE_STATES, CanTransition, TASK_TRANSITIONS, TaskStates,
        TypeInv, RowOK, HasCaptain, JobsInv, JobFromOK, At
  <2>4. InHand(jobs[w].t, jobs[w].pc) = 0 /\ InHand(jobs'[w].t, jobs'[w].pc) = a + k
    BY <1>48, <2>1, ConstantsAssumption
    DEF CancelUnclaimed, Begin, Goto, Finish, Idle, Read, InHand, At, TypeInv,
        JobsInv, JobsOK, Job
  <2>5. PICK p \in Int, o \in Int, b \in Int : p = partyDmc /\ o = pool /\ b = Balances
    BY BalancesPicked
  <2>6. partyDmc' = p /\ pool' = o
    BY <1>48, <2>1, <2>5 DEF CancelUnclaimed, moneyVars
  <2>7. Balances' = b
    BY <1>48, <2>5 DEF CancelUnclaimed, Balances, moneyVars
  <2>8. Local(w, t)' = Local(w, t)
    BY <2>3, <2>4, <2>5, <2>6, <2>7 DEF Local
  <2> QED
    BY <2>2, <2>8, Balanced
<1>49. ASSUME NEW w \in Workers, NEW t \in Payouts, ApproveCancellation(w, t)
      PROVE  Ledger' = Ledger
  <2>1. PICK a \in Int, k \in Int : a = Amount[t] /\ k = Charge[t]
    BY Prices
  <2>2. Changes(w, t)
    BY <1>49
    DEF ApproveCancellation, Begin, Goto, Finish, Changes, TypeInv, JobsInv,
        JobsOK, RowOK, rowVars, rowButStatus
  <2>3. Worth(t, status[t]) = 2 * a + k /\ Worth(t, status'[t]) = 0
    BY <1>49, <2>1, ConstantsAssumption
    DEF ApproveCancellation, Worth, TERMINAL_STATES, DMC_HELD_STATES,
        CLAIMABLE_STATES, CanTransition, TASK_TRANSITIONS, TaskStates,
        TypeInv, RowOK, HasCaptain, JobsInv, JobFromOK, At, TypeInv,
        HasCaptain, DMC_HELD_STATES
  <2>4. InHand(jobs[w].t, jobs[w].pc) = 0 /\ InHand(jobs'[w].t, jobs'[w].pc) = 2 * a + k
    BY <1>49, <2>1, ConstantsAssumption
    DEF ApproveCancellation, Begin, Goto, Finish, Idle, Read, InHand, At,
        TypeInv, JobsInv, JobsOK, Job, TypeInv, HasCaptain, DMC_HELD_STATES
  <2>5. PICK p \in Int, o \in Int, b \in Int : p = partyDmc /\ o = pool /\ b = Balances
    BY BalancesPicked
  <2>6. partyDmc' = p /\ pool' = o
    BY <1>49, <2>1, <2>5 DEF ApproveCancellation, moneyVars
  <2>7. Balances' = b
    BY <1>49, <2>5 DEF ApproveCancellation, Balances, moneyVars
  <2>8. Local(w, t)' = Local(w, t)
    BY <2>3, <2>4, <2>5, <2>6, <2>7 DEF Local
  <2> QED
    BY <2>2, <2>8, Balanced
<1>50. ASSUME NEW w \in Workers, CompleteInTransaction(w)
      PROVE  Ledger' = Ledger
  <2>1. PICK t \in Payouts, c \in Captains : t = jobs[w].t /\ c = jobs[w].c
    BY <1>50 DEF CompleteInTransaction, MarkCompleted, At, TypeInv, JobsInv, JobsOK, CaptainPcs
  <2>2. PICK a \in Int, k \in Int : a = Amount[t] /\ k = Charge[t]
    BY Prices
  <2>3. PICK x \in Int, y \in Int : x = jobs[w].share /\ y = jobs[w].platform /\ x + y = k
    BY <1>50, <2>1, <2>2
    DEF CompleteInTransaction, MarkCompleted, At, TypeInv, JobsInv, JobsOK, Job,
        CopiesAgree, JobAgrees
  <2>4. Changes(w, t)
    BY <1>50, <2>1
    DEF CompleteInTransaction, MarkCompleted, Finish, Changes, TypeInv, JobsInv, JobsOK, RowOK
  <2>5. Worth(t, status[t]) = 2 * a + k /\ Worth(t, status'[t]) = 0
    BY <1>50, <2>1, <2>2
    DEF CompleteInTransaction, MarkCompleted, Worth, TERMINAL_STATES, DMC_HELD_STATES, At,
        TypeInv, RowOK, JobsInv, JobFromOK
  <2>6. InHand(jobs[w].t, jobs[w].pc) = 0 /\ InHand(jobs'[w].t, jobs'[w].pc) = 0
    BY <1>50
    DEF CompleteInTransaction, MarkCompleted, Finish, Idle, InHand, At, TypeInv, JobsInv, JobsOK
  <2>7. PICK p \in Int, o \in Int, b \in Int : p = partyDmc /\ o = pool /\ b = Balances
    BY BalancesPicked
  <2>8. partyDmc' = p /\ pool' = o + y
    BY <1>50, <2>3, <2>7 DEF CompleteInTransaction
  <2>9. PICK d \in Int : d = 2 * a + x /\ Balances' = b + d
    <3>0. PICK d \in Int : d = 2 * a + x
      OBVIOUS
    <3>1. dmc' = [dmc EXCEPT ![c] = @ + 2 * a + x] /\ dmc \in [Captains -> Int]
      BY <1>50, <2>1, <2>2, <2>3 DEF CompleteInTransaction, TypeInv, MoneyOK
    <3>2. PICK e \in Int : e = dmc[c]
      BY <3>1
    <3>3. dmc[c] + 2 * a + x = dmc[c] + d
      BY <3>0, <3>2
    <3>4. dmc' = [dmc EXCEPT ![c] = @ + d]
      BY <3>1, <3>3
    <3> QED
      BY <2>7, <3>0, <3>4, OneBalanceMoves
  <2>10. Local(w, t)' = Local(w, t)
    BY <2>3, <2>5, <2>6, <2>7, <2>8, <2>9 DEF Local
  <2> QED
    BY <2>4, <2>10, Balanced
<1>51. ASSUME NEW w \in Workers, CompletePayShare(w)
      PROVE  Ledger' = Ledger
  <2>1. PICK t \in Payouts, c \in Captains : t = jobs[w].t /\ c = jobs[w].c
    BY <1>51 DEF CompletePayShare, At, TypeInv, JobsInv, JobsOK, CaptainPcs
  <2>2. PICK x \in Int : x = jobs[w].share
    BY <1>51 DEF CompletePayShare, At, TypeInv, JobsInv, JobsOK, Job
  <2>3. Changes(w, t)
    BY <1>51, <2>1
    DEF CompletePayShare, Goto, Changes, TypeInv, JobsInv, JobsOK, RowOK, rowVars
  <2>4. PICK y \in Int : y = Worth(t, status[t]) /\ y = Worth(t, status'[t])
    BY <1>51, WorthIsInt DEF CompletePayShare, rowVars
  <2>5. InHand(jobs[w].t, jobs[w].pc) = 0 /\ InHand(jobs'[w].t, jobs'[w].pc) = 0
    BY <1>51 DEF CompletePayShare, Goto, InHand, At, TypeInv, JobsInv, JobsOK, Job
  <2>6. PICK p \in Int, o \in Int, b \in Int : p = partyDmc /\ o = pool /\ b = Balances
    BY BalancesPicked
  <2>7. CASE x <= pool
    <3>1. partyDmc' = p /\ pool' = o - x /\ dmc' = [dmc EXCEPT ![c] = @ + x]
      BY <1>51, <2>1, <2>2, <2>6, <2>7 DEF CompletePayShare
    <3>2. Balances' = b + x
      BY <2>6, <3>1, OneBalanceMoves
    <3>3. Local(w, t)' = Local(w, t)
      BY <2>4, <2>5, <2>6, <3>1, <3>2 DEF Local
    <3> QED
      BY <2>3, <3>3, Balanced
  <2>8. CASE ~(x <= pool)
    <3>1. partyDmc' = partyDmc /\ pool' = pool /\ dmc' = dmc
      BY <1>51, <2>1, <2>2, <2>8 DEF CompletePayShare
    <3>2. Balances' = Balances
      BY <3>1 DEF Balances
    <3>3. Local(w, t)' = Local(w, t)
      BY <2>4, <2>5, <3>1, <3>2 DEF Local
    <3> QED
      BY <2>3, <3>3, Balanced
  <2> QED
    BY <2>7, <2>8
<1> QED
  BY <1>1, <1>2, <1>3, <1>4, <1>5, <1>6, <1>7, <1>8, <1>9, <1>10, <1>11,
     <1>12, <1>13, <1>14, <1>15, <1>16, <1>17, <1>18, <1>19, <1>20, <1>21,
     <1>22, <1>23, <1>24, <1>25, <1>26, <1>27, <1>28, <1>29, <1>30, <1>31,
     <1>32, <1>33, <1>34, <1>35, <1>36, <1>37, <1>38, <1>39, <1>40, <1>41,
     <1>42, <1>43, <1>44, <1>45, <1>46, <1>47, <1>48, <1>49, <1>50, <1>51,
     StillBalanced, EmptyMoveIsStill
  DEF Next, Request, Decision, Sweep, JobStep, ConfirmReceived,
      ConfirmNotReceived, AutoApproveOnTimeout, CancelStale, RejectExpired,
      ReclaimExpired, Workers

-----------------------------------------------------------------------------
(* Money is conserved *)

LEMMA CopiesAgreeInit ==
  ASSUME Init
  PROVE  CopiesAgree
BY DEF Init, CopiesAgree, RowAgrees, JobAgrees, Idle, TERMINAL_STATES

LEMMA LedgerInit ==
  ASSUME Init, TypeInv, CopiesAgree
  PROVE  Ledger = OpeningTotal
<1>1. ASSUME NEW t \in Payouts
      PROVE  WorthOf[t] = 0
  <2>1. status[t] = "ABSENT"
    BY DEF Init
  <2>2. Worth(t, "ABSENT") = 0
    BY DEF Worth, DMC_HELD_STATES
  <2> QED
    BY <2>1, <2>2 DEF WorthOf
<1>2. \A w \in Workers : InHandOf[w] = 0
  BY DEF Init, InHandOf, InHand, Idle
<1>3. Rows = 0 /\ Hands = 0
  BY <1>1, <1>2, FiniteAssumption, TotalZero DEF Rows, Hands
<1>4. Balances \in Int /\ partyDmc \in Int
  BY BooksType DEF BooksAreInts
<1>5. Ledger = partyDmc + 0 + Balances + 0 + 0
  BY <1>3, LedgerIs DEF Init
<1>6. Ledger = partyDmc + Balances
  BY <1>4, <1>5
<1> QED
  BY <1>6 DEF Init, Balances, OpeningTotal

\* What running jobs have in hand is lost when the process stops, and is
\* never less than nothing.
LEMMA CrashLoses ==
  ASSUME TypeInv, TypeInv', CopiesAgree, CopiesAgree', Crash
  PROVE  Ledger' <= Ledger
<1>1. /\ Rows' = Rows /\ Balances' = Balances
      /\ partyDmc' = partyDmc /\ pool' = pool
  BY DEF Crash, rowVars, moneyVars, Rows, WorthOf, Balances
<1>2. Hands' = 0
  <2> DEFINE g == [w \in Workers |-> InHand(jobs'[w].t, jobs'[w].pc)]
  <2>1. \A w \in Workers : g[w] = 0
    BY DEF Crash, InHand, Idle
  <2>2. Total(g, Workers) = 0
    BY <2>1, FiniteAssumption, TotalZero
  <2> QED
    BY <2>2 DEF Hands, InHandOf
<1>3. Hands \in Nat
  <2>1. \A w \in Workers : InHandOf[w] \in Nat
    BY InHandIsInt DEF InHandOf, TypeInv, JobsInv, JobsOK, Job
  <2> QED
    BY <2>1, FiniteAssumption, TotalNat DEF Hands
<1>4. PICK h \in Int : h = Hands
  BY <1>3
<1>5. PICK b \in Int : b = partyDmc + pool + Balances + Rows
  BY BooksType DEF BooksAreInts
<1>6. Ledger = b + h /\ Ledger' = b + 0 /\ 0 <= h
  BY <1>1, <1>2, <1>3, <1>4, <1>5, LedgerKept
<1> QED
  BY <1>6

LEMMA OnlyCrashCounts ==
  ASSUME [Next]_vars, ~Crash
  PROVE  UNCHANGED faultVars
<1>1. ASSUME NEW w \in Workers, NEW t \in Payouts, Request(w, t) \/ Sweep(w, t)
      PROVE  UNCHANGED faultVars
  BY <1>1
  DEF Request, Sweep, ConfirmReceived, ConfirmNotReceived,
      AutoApproveOnTimeout, CancelStale, RejectExpired, ReclaimExpired,
      CreateDebit, ClaimRead, ProofRead, ClearDeadline, ApproveRead,
      OverruleRead, ReassignRead, CancelUnclaimed, ApproveCancellation,
      ReturnRead, ExpireRead
<1>2. ASSUME NEW t \in Payouts, Decision(t)
      PROVE  UNCHANGED faultVars
  BY <1>2
  DEF Decision, StartTask, RejectTask, RequestCancellation,
      DisputeCancellation, RestoreDisputed
<1>3. ASSUME NEW w \in Workers, JobStep(w)
      PROVE  UNCHANGED faultVars
  BY <1>3
  DEF JobStep, CreateInsert, CreateDuplicate, CreateRefundDebit,
      ClaimInTransaction, ClaimHold, ClaimWrite, ClaimLost, ClaimRefused,
      ProofClaim, ProofCreate, ProofQueue, ProofAsk, ApproveAfterClear,
      RejectAfterClear, CompleteInTransaction, CompleteWrite, CompleteLost,
      CompleteCommission, CompleteCollect, CompleteReimburse,
      CompletePayShare, CompleteAllocateCaptain, CompleteAllocatePlatform,
      ReassignWrite, ReassignLost, ReassignSupersede, Release,
      ReleaseCancelled, RefundParty, ExpireWrite, ExpireLost, ReturnWrite,
      ReturnLost
<1> QED
  BY <1>1, <1>2, <1>3 DEF Next, ClockLapses, Workers, vars

\* A step either counts a crash and may lose money, or keeps every paise.
LEMMA ConservedStep ==
  ASSUME TypeInv, TypeInv', CopiesAgree, CopiesAgree', MoneyConserved, [Next]_vars
  PROVE  MoneyConserved'
<1>1. PICK l \in Int, z \in Int, o \in Int : l = Ledger /\ z = Ledger' /\ o = OpeningTotal
  <2>1. Ledger \in Int /\ Ledger' \in Int
    BY LedgerKept DEF BooksAreInts
  <2>2. OpeningTotal \in Int
    BY ConstantsAssumption, FiniteAssumption, TotalInt DEF OpeningTotal
  <2> QED
    BY <2>1, <2>2
<1>2. PICK n \in Nat : n = crashes
  BY DEF TypeInv, HistoryOK
<1>3. CASE Crash
  <2>1. crashes' = n + 1
    BY <1>2, <1>3 DEF Crash
  <2>2. crashes' # 0
    BY <2>1
  <2>3. z <= l
    BY <1>1, <1>3, CrashLoses
  <2>4. l <= o
    BY <1>1 DEF MoneyConserved
  <2>5. z <= o
    BY <2>3, <2>4
  <2>6. OpeningTotal' = OpeningTotal
    BY DEF OpeningTotal
  <2> QED
    BY <1>1, <2>2, <2>5, <2>6 DEF MoneyConserved
<1>4. CASE ~Crash
  <2>1. crashes' = crashes
    BY <1>4, OnlyCrashCounts DEF faultVars
  <2>2. Ledger' = Ledger
    BY <1>4, LedgerStep
  <2> QED
    BY <2>1, <2>2 DEF MoneyConserved, OpeningTotal
<1> QED
  BY <1>3, <1>4

\* The paise of the balances, of the open payouts and of the running requests
\* always add up to what parties and captains began with, less what a stopped
\* process took with it.
THEOREM MoneyIsConserved == Spec => []MoneyConserved
<1>1. Init => TypeInv /\ CopiesAgree /\ MoneyConserved
  BY TypeInit, CopiesAgreeInit, LedgerInit DEF Init, MoneyConserved
<1>2. TypeInv /\ TypeInv' /\ CopiesAgree /\ MoneyConserved /\ [Next]_vars
        => CopiesAgree' /\ MoneyConserved'
  BY CopiesAgreeStep, ConservedStep
<1>3. Spec => []TypeInv
  BY TypeInvariant
<1> QED
  BY <1>1, <1>2, <1>3, PTL DEF Spec

-----------------------------------------------------------------------------
(* Balances *)

\* Only five writes take from a balance; the rest leave it or add to it.
LEMMA NoOverdraftStep ==
  ASSUME TypeInv, NoOverdraft, [Next]_vars
  PROVE  NoOverdraft'
<1>1. ASSUME NEW w \in Workers,
             CreateInsert(w) \/ CreateDuplicate(w)
      PROVE  NoOverdraft'
  BY <1>1 DEF CreateInsert, CreateDuplicate, NoOverdraft, moneyVars
<1>2. ASSUME NEW w \in Workers, NEW t \in Payouts, NEW c \in Captains,
             ClaimRead(w, t, c) \/ ProofRead(w, t, c)
      PROVE  NoOverdraft'
  BY <1>2 DEF ClaimRead, ProofRead, NoOverdraft, moneyVars
<1>3. ASSUME NEW w \in Workers,
             ClaimLost(w) \/ ClaimRefused(w)
      PROVE  NoOverdraft'
  BY <1>3 DEF ClaimLost, ClaimRefused, NoOverdraft, moneyVars
<1>4. ASSUME NEW w \in Workers,
             ClaimWrite(w)
      PROVE  NoOverdraft'
  BY <1>4 DEF ClaimWrite, AssignTo, RepricedShare, NoOverdraft, moneyVars
<1>5. ASSUME NEW w \in Workers,
             ProofClaim(w) \/ ProofCreate(w) \/ ProofQueue(w) \/
               ProofAsk(w)
      PROVE  NoOverdraft'
  BY <1>5 DEF ProofClaim, ProofCreate, ProofQueue, ProofAsk, NoOverdraft,
     moneyVars
<1>6. ASSUME NEW w \in Workers, NEW t \in Payouts, NEW next \in {"approve", "reject"},
             ClearDeadline(w, t, next)
      PROVE  NoOverdraft'
  BY <1>6 DEF ClearDeadline, NoOverdraft, moneyVars
<1>7. ASSUME NEW w \in Workers,
             ApproveAfterClear(w) \/ RejectAfterClear(w)
      PROVE  NoOverdraft'
  BY <1>7 DEF ApproveAfterClear, RejectAfterClear, MarkRejected, NoOverdraft,
     moneyVars
<1>8. ASSUME NEW w \in Workers, NEW t \in Payouts,
             ApproveRead(w, t) \/ OverruleRead(w, t) \/ ReassignRead(w,
               t)
      PROVE  NoOverdraft'
  BY <1>8 DEF ApproveRead, OverruleRead, ReassignRead, NoOverdraft, moneyVars
<1>9. ASSUME NEW w \in Workers,
             CompleteWrite(w) \/ CompleteLost(w)
      PROVE  NoOverdraft'
  BY <1>9 DEF CompleteWrite, MarkCompleted, CompleteLost, NoOverdraft,
     moneyVars
<1>10. ASSUME NEW w \in Workers,
             CompleteCommission(w)
      PROVE  NoOverdraft'
  BY <1>10 DEF CompleteCommission, CreditCommission, NoOverdraft, moneyVars
<1>11. ASSUME NEW w \in Workers,
             CompleteAllocateCaptain(w) \/ CompleteAllocatePlatform(w)
      PROVE  NoOverdraft'
  BY <1>11 DEF CompleteAllocateCaptain, CompleteAllocatePlatform,
     AllocationOwners, NoOverdraft, moneyVars
<1>12. ASSUME NEW w \in Workers,
             ReassignWrite(w) \/ ReassignLost(w) \/ ReassignSupersede(w)
      PROVE  NoOverdraft'
  BY <1>12 DEF ReassignWrite, ReturnToPool, ReassignLost, ReassignSupersede,
     NoOverdraft, moneyVars
<1>13. ASSUME NEW w \in Workers, NEW t \in Payouts,
             CancelUnclaimed(w, t) \/ ApproveCancellation(w, t)
      PROVE  NoOverdraft'
  BY <1>13 DEF CancelUnclaimed, ApproveCancellation, NoOverdraft, moneyVars
<1>14. ASSUME NEW w \in Workers, NEW t \in Payouts,
             ExpireRead(w, t) \/ ReturnRead(w, t)
      PROVE  NoOverdraft'
  BY <1>14 DEF ExpireRead, ReturnRead, NoOverdraft, moneyVars
<1>15. ASSUME NEW w \in Workers,
             ExpireWrite(w) \/ ExpireLost(w) \/ ReturnWrite(w) \/
               ReturnLost(w)
      PROVE  NoOverdraft'
  BY <1>15 DEF ExpireWrite, ExpireLost, ReturnWrite, ReturnToPool, ReturnLost,
     NoOverdraft, moneyVars
<1>16. ASSUME NEW t \in Payouts, NEW c \in Captains,
             StartTask(t, c)
      PROVE  NoOverdraft'
  BY <1>16 DEF StartTask, NoOverdraft, moneyVars
<1>17. ASSUME NEW t \in Payouts,
             RejectTask(t) \/ RequestCancellation(t) \/
               DisputeCancellation(t) \/ RestoreDisputed(t)
      PROVE  NoOverdraft'
  BY <1>17 DEF RejectTask, MarkRejected, RequestCancellation,
     DisputeCancellation, RestoreDisputed, NoOverdraft, moneyVars
<1>18. ASSUME NEW t \in Payouts, NEW k \in Clocks,
             ClockLapses(t, k)
      PROVE  NoOverdraft'
  BY <1>18 DEF ClockLapses, Running, NoOverdraft, moneyVars
<1>19. ASSUME Crash
      PROVE  NoOverdraft'
  BY <1>19 DEF Crash, NoOverdraft, moneyVars
<1>20. ASSUME UNCHANGED vars
      PROVE  NoOverdraft'
  BY <1>20 DEF vars, moneyVars, NoOverdraft
<1>21. ASSUME NEW w \in Workers, NEW t \in Payouts, CreateDebit(w, t)
      PROVE  NoOverdraft'
  <2>1. Amount[t] \in Nat /\ Charge[t] \in Nat
    BY ConstantsAssumption
  <2> QED
    BY <1>21, <2>1 DEF CreateDebit, NoOverdraft, TypeInv, MoneyOK
<1>22. ASSUME NEW w \in Workers, CreateRefundDebit(w) \/ RefundParty(w)
      PROVE  NoOverdraft'
  <2>1. jobs[w].t \in Payouts /\ jobs[w].share \in Nat /\ jobs[w].platform \in Nat
    BY <1>22 DEF CreateRefundDebit, RefundParty, At, TypeInv, JobsInv, JobsOK, Job
  <2>2. Amount[jobs[w].t] \in Nat /\ Charge[jobs[w].t] \in Nat
    BY <2>1, ConstantsAssumption
  <2> QED
    BY <1>22, <2>1, <2>2 DEF CreateRefundDebit, RefundParty, NoOverdraft, TypeInv, MoneyOK
<1>23. ASSUME NEW w \in Workers,
             ClaimInTransaction(w) \/ ClaimHold(w) \/ Release(w) \/ ReleaseCancelled(w)
      PROVE  NoOverdraft'
  <2> DEFINE t == jobs[w].t
             c == jobs[w].c
  <2>1. t \in Payouts /\ c \in Captains
    BY <1>23
    DEF ClaimInTransaction, ClaimHold, Release, ReleaseCancelled, At, TypeInv,
        JobsInv, JobsOK, CaptainPcs, ClaimingPcs
  <2>2. Amount[t] \in Nat
    BY <2>1, ConstantsAssumption
  <2>3. UNCHANGED <<earned, partyDmc, pool>>
    BY <1>23 DEF ClaimInTransaction, ClaimHold, Release, ReleaseCancelled
  <2>4. CASE TakeHold(t, c)
    BY <2>1, <2>2, <2>3, <2>4
    DEF TakeHold, WithinCurrentLimit, NoOverdraft, TypeInv, MoneyOK
  <2>5. CASE ReleaseHold(t, c)
    BY <2>1, <2>2, <2>3, <2>5 DEF ReleaseHold, NoOverdraft, TypeInv, MoneyOK
  <2> QED
    BY <1>23, <2>4, <2>5 DEF ClaimInTransaction, ClaimHold, Release, ReleaseCancelled
<1>24. ASSUME NEW w \in Workers,
             CompleteInTransaction(w) \/ CompleteCollect(w) \/ CompleteReimburse(w) \/ CompletePayShare(w)
      PROVE  NoOverdraft'
  <2> DEFINE t == jobs[w].t
             c == jobs[w].c
             share == jobs[w].share
             platform == jobs[w].platform
  <2>1. t \in Payouts /\ share \in Nat /\ platform \in Nat
    BY <1>24
    DEF CompleteInTransaction, MarkCompleted, CompleteCollect, CompleteReimburse,
        CompletePayShare, At, TypeInv, JobsInv, JobsOK, Job
  <2>2. Amount[t] \in Nat
    BY <2>1, ConstantsAssumption
  <2>3. CASE CompleteCollect(w)
    BY <2>1, <2>3 DEF CompleteCollect, NoOverdraft, TypeInv, MoneyOK
  <2>4. CASE ~CompleteCollect(w)
    <3>1. c \in Captains
      BY <1>24, <2>4
      DEF CompleteInTransaction, MarkCompleted, CompleteReimburse, CompletePayShare,
          At, TypeInv, JobsInv, JobsOK, CaptainPcs
    <3>2. CASE CompleteInTransaction(w)
      BY <2>1, <2>2, <3>1, <3>2 DEF CompleteInTransaction, NoOverdraft, TypeInv, MoneyOK
    <3>3. CASE CompleteReimburse(w)
      BY <2>1, <2>2, <3>1, <3>3 DEF CompleteReimburse, NoOverdraft, TypeInv, MoneyOK
    <3>4. CASE CompletePayShare(w)
      BY <2>1, <3>1, <3>4 DEF CompletePayShare, NoOverdraft, TypeInv, MoneyOK
    <3> QED
      BY <1>24, <2>4, <3>2, <3>3, <3>4
  <2> QED
    BY <2>3, <2>4
<1> QED
  BY <1>1, <1>2, <1>3, <1>4, <1>5, <1>6, <1>7, <1>8, <1>9, <1>10, <1>11,
     <1>12, <1>13, <1>14, <1>15, <1>16, <1>17, <1>18, <1>19, <1>20, <1>21,
     <1>22, <1>23, <1>24 DEF Next, Request, Decision, Sweep, JobStep,
     ConfirmReceived, ConfirmNotReceived, AutoApproveOnTimeout, CancelStale,
     RejectExpired, ReclaimExpired, Workers

\* The party, the pool and the captains never go below zero, and a captain
\* always has, besides what claims hold, all the commission they earned,
\* because a claim is tested and held in one conditional write.
THEOREM BalancesAreCovered == Spec => []NoOverdraft
<1>1. Init => NoOverdraft
  BY ConstantsAssumption DEF Init, NoOverdraft
<1>2. TypeInv /\ NoOverdraft /\ [Next]_vars => NoOverdraft'
  BY NoOverdraftStep
<1> QED
  BY <1>1, <1>2, TypeInvariant, PTL DEF Spec

-----------------------------------------------------------------------------
(* What is held from whom *)

\* The captain in the copy of a job that decides from it still holds the
\* payout, or nobody does.
CopyNamesHolder(w) ==
  jobs[w].pc \in DecidingPcs =>
    captainId[jobs[w].t] \in {jobs[w].c, None}

HoldersKnown == \A w \in Workers : CopyNamesHolder(w)

\* A step that gives no payout a captain and reads no row.
NamesNobody ==
  /\ \A t \in Payouts : captainId'[t] \in {captainId[t], None}
  /\ \A w \in Workers :
       \/ jobs'[w].pc = jobs[w].pc /\ jobs'[w].t = jobs[w].t /\ jobs'[w].c = jobs[w].c
       \/ jobs'[w].pc \notin DecidingPcs

LEMMA NobodyNamed ==
  ASSUME TypeInv, HoldersKnown, NamesNobody
  PROVE  HoldersKnown'
BY DEF HoldersKnown, CopyNamesHolder, NamesNobody, DecidingPcs, TypeInv, JobsInv, JobsOK

LEMMA HoldersKnownStep ==
  ASSUME PromptRequests, TypeInv, HoldersKnown, [Next]_vars
  PROVE  HoldersKnown'
<1>1. ASSUME NEW w \in Workers, NEW t \in Payouts,
             CreateDebit(w, t)
      PROVE  NamesNobody
  BY <1>1
  DEF CreateDebit, NamesNobody, DecidingPcs, TypeInv, JobsInv, JobsOK, Job,
      RowOK, At, Begin, Goto, Finish, Idle, Read, rowVars, rowButStatus, vars
<1>2. ASSUME NEW w \in Workers,
             CreateInsert(w)
      PROVE  NamesNobody
  BY <1>2
  DEF CreateInsert, NamesNobody, DecidingPcs, TypeInv, JobsInv, JobsOK, Job,
      RowOK, At, Begin, Goto, Finish, Idle, Read, rowVars, rowButStatus, vars
<1>3. ASSUME NEW w \in Workers,
             CreateDuplicate(w)
      PROVE  NamesNobody
  BY <1>3
  DEF CreateDuplicate, NamesNobody, DecidingPcs, TypeInv, JobsInv, JobsOK,
      Job, RowOK, At, Begin, Goto, Finish, Idle, Read, rowVars, rowButStatus,
      vars
<1>4. ASSUME NEW w \in Workers,
             CreateRefundDebit(w)
      PROVE  NamesNobody
  BY <1>4
  DEF CreateRefundDebit, NamesNobody, DecidingPcs, TypeInv, JobsInv, JobsOK,
      Job, RowOK, At, Begin, Goto, Finish, Idle, Read, rowVars, rowButStatus,
      vars
<1>5. ASSUME NEW w \in Workers, NEW t \in Payouts, NEW c \in Captains,
             ClaimRead(w, t, c)
      PROVE  NamesNobody
  BY <1>5
  DEF ClaimRead, NamesNobody, DecidingPcs, TypeInv, JobsInv, JobsOK, Job,
      RowOK, At, Begin, Goto, Finish, Idle, Read, rowVars, rowButStatus, vars
<1>6. ASSUME NEW w \in Workers, NEW t \in Payouts, NEW c \in Captains,
             ProofRead(w, t, c)
      PROVE  NamesNobody
  BY <1>6
  DEF ProofRead, NamesNobody, DecidingPcs, TypeInv, JobsInv, JobsOK, Job,
      RowOK, At, Begin, Goto, Finish, Idle, Read, rowVars, rowButStatus, vars
<1>7. ASSUME NEW w \in Workers,
             ClaimHold(w)
      PROVE  NamesNobody
  BY <1>7
  DEF ClaimHold, TakeHold, WithinCurrentLimit, NamesNobody, DecidingPcs,
      TypeInv, JobsInv, JobsOK, Job, RowOK, At, Begin, Goto, Finish, Idle,
      Read, rowVars, rowButStatus, vars
<1>8. ASSUME NEW w \in Workers,
             ClaimLost(w)
      PROVE  NamesNobody
  BY <1>8
  DEF ClaimLost, NamesNobody, DecidingPcs, TypeInv, JobsInv, JobsOK, Job,
      RowOK, At, Begin, Goto, Finish, Idle, Read, rowVars, rowButStatus, vars
<1>9. ASSUME NEW w \in Workers,
             ClaimRefused(w)
      PROVE  NamesNobody
  BY <1>9
  DEF ClaimRefused, NamesNobody, DecidingPcs, TypeInv, JobsInv, JobsOK, Job,
      RowOK, At, Begin, Goto, Finish, Idle, Read, rowVars, rowButStatus, vars
<1>10. ASSUME NEW w \in Workers,
             ProofClaim(w)
      PROVE  NamesNobody
  BY <1>10
  DEF ProofClaim, NamesNobody, DecidingPcs, TypeInv, JobsInv, JobsOK, Job,
      RowOK, At, Begin, Goto, Finish, Idle, Read, rowVars, rowButStatus, vars
<1>11. ASSUME NEW w \in Workers,
             ProofCreate(w)
      PROVE  NamesNobody
  BY <1>11
  DEF ProofCreate, NamesNobody, DecidingPcs, TypeInv, JobsInv, JobsOK, Job,
      RowOK, At, Begin, Goto, Finish, Idle, Read, rowVars, rowButStatus, vars
<1>12. ASSUME NEW w \in Workers,
             ProofQueue(w)
      PROVE  NamesNobody
  BY <1>12
  DEF ProofQueue, NamesNobody, DecidingPcs, TypeInv, JobsInv, JobsOK, Job,
      RowOK, At, Begin, Goto, Finish, Idle, Read, rowVars, rowButStatus, vars
<1>13. ASSUME NEW w \in Workers,
             ProofAsk(w)
      PROVE  NamesNobody
  BY <1>13
  DEF ProofAsk, NamesNobody, DecidingPcs, TypeInv, JobsInv, JobsOK, Job,
      RowOK, At, Begin, Goto, Finish, Idle, Read, rowVars, rowButStatus, vars
<1>14. ASSUME NEW w \in Workers, NEW t \in Payouts, NEW next \in {"approve", "reject"},
             ClearDeadline(w, t, next)
      PROVE  NamesNobody
  BY <1>14
  DEF ClearDeadline, NamesNobody, DecidingPcs, TypeInv, JobsInv, JobsOK, Job,
      RowOK, At, Begin, Goto, Finish, Idle, Read, rowVars, rowButStatus, vars
<1>15. ASSUME NEW w \in Workers,
             RejectAfterClear(w)
      PROVE  NamesNobody
  BY <1>15
  DEF RejectAfterClear, MarkRejected, NamesNobody, DecidingPcs, TypeInv,
      JobsInv, JobsOK, Job, RowOK, At, Begin, Goto, Finish, Idle, Read,
      rowVars, rowButStatus, vars
<1>16. ASSUME NEW w \in Workers,
             CompleteInTransaction(w)
      PROVE  NamesNobody
  BY <1>16
  DEF CompleteInTransaction, MarkCompleted, CreditCommission,
      ReimburseCaptain, AllocationOwners, NamesNobody, DecidingPcs, TypeInv,
      JobsInv, JobsOK, Job, RowOK, At, Begin, Goto, Finish, Idle, Read,
      rowVars, rowButStatus, vars
<1>17. ASSUME NEW w \in Workers,
             CompleteWrite(w)
      PROVE  NamesNobody
  BY <1>17
  DEF CompleteWrite, MarkCompleted, NamesNobody, DecidingPcs, TypeInv,
      JobsInv, JobsOK, Job, RowOK, At, Begin, Goto, Finish, Idle, Read,
      rowVars, rowButStatus, vars
<1>18. ASSUME NEW w \in Workers,
             CompleteLost(w)
      PROVE  NamesNobody
  BY <1>18
  DEF CompleteLost, NamesNobody, DecidingPcs, TypeInv, JobsInv, JobsOK, Job,
      RowOK, At, Begin, Goto, Finish, Idle, Read, rowVars, rowButStatus, vars
<1>19. ASSUME NEW w \in Workers,
             CompleteCommission(w)
      PROVE  NamesNobody
  BY <1>19
  DEF CompleteCommission, CreditCommission, NamesNobody, DecidingPcs, TypeInv,
      JobsInv, JobsOK, Job, RowOK, At, Begin, Goto, Finish, Idle, Read,
      rowVars, rowButStatus, vars
<1>20. ASSUME NEW w \in Workers,
             CompleteCollect(w)
      PROVE  NamesNobody
  BY <1>20
  DEF CompleteCollect, NamesNobody, DecidingPcs, TypeInv, JobsInv, JobsOK,
      Job, RowOK, At, Begin, Goto, Finish, Idle, Read, rowVars, rowButStatus,
      vars
<1>21. ASSUME NEW w \in Workers,
             CompleteReimburse(w)
      PROVE  NamesNobody
  BY <1>21
  DEF CompleteReimburse, ReimburseCaptain, NamesNobody, DecidingPcs, TypeInv,
      JobsInv, JobsOK, Job, RowOK, At, Begin, Goto, Finish, Idle, Read,
      rowVars, rowButStatus, vars
<1>22. ASSUME NEW w \in Workers,
             CompletePayShare(w)
      PROVE  NamesNobody
  BY <1>22
  DEF CompletePayShare, NamesNobody, DecidingPcs, TypeInv, JobsInv, JobsOK,
      Job, RowOK, At, Begin, Goto, Finish, Idle, Read, rowVars, rowButStatus,
      vars
<1>23. ASSUME NEW w \in Workers,
             CompleteAllocateCaptain(w)
      PROVE  NamesNobody
  BY <1>23
  DEF CompleteAllocateCaptain, NamesNobody, DecidingPcs, TypeInv, JobsInv,
      JobsOK, Job, RowOK, At, Begin, Goto, Finish, Idle, Read, rowVars,
      rowButStatus, vars
<1>24. ASSUME NEW w \in Workers,
             CompleteAllocatePlatform(w)
      PROVE  NamesNobody
  BY <1>24
  DEF CompleteAllocatePlatform, AllocationOwners, NamesNobody, DecidingPcs,
      TypeInv, JobsInv, JobsOK, Job, RowOK, At, Begin, Goto, Finish, Idle,
      Read, rowVars, rowButStatus, vars
<1>25. ASSUME NEW w \in Workers,
             ReassignWrite(w)
      PROVE  NamesNobody
  BY <1>25
  DEF ReassignWrite, ReturnToPool, NamesNobody, DecidingPcs, TypeInv, JobsInv,
      JobsOK, Job, RowOK, At, Begin, Goto, Finish, Idle, Read, rowVars,
      rowButStatus, vars
<1>26. ASSUME NEW w \in Workers,
             ReassignLost(w)
      PROVE  NamesNobody
  BY <1>26
  DEF ReassignLost, NamesNobody, DecidingPcs, TypeInv, JobsInv, JobsOK, Job,
      RowOK, At, Begin, Goto, Finish, Idle, Read, rowVars, rowButStatus, vars
<1>27. ASSUME NEW w \in Workers, ReassignSupersede(w)
      PROVE  NamesNobody
  <2>1. \A v \in Workers \ {w} : jobs'[v] = jobs[v]
    BY <1>27 DEF ReassignSupersede, Goto, Finish, TypeInv, JobsInv, JobsOK
  <2>2. jobs'[w].pc \in {"release", "idle"}
    BY <1>27
    DEF ReassignSupersede, Goto, Finish, Idle, TypeInv, JobsInv, JobsOK, Job
  <2>3. captainId' = captainId
    BY <1>27 DEF ReassignSupersede, rowVars, rowButStatus
  <2> QED
    BY <2>1, <2>2, <2>3 DEF NamesNobody, DecidingPcs
<1>28. ASSUME NEW w \in Workers,
             Release(w)
      PROVE  NamesNobody
  BY <1>28
  DEF Release, ReleaseHold, NamesNobody, DecidingPcs, TypeInv, JobsInv,
      JobsOK, Job, RowOK, At, Begin, Goto, Finish, Idle, Read, rowVars,
      rowButStatus, vars
<1>29. ASSUME NEW w \in Workers, NEW t \in Payouts,
             CancelUnclaimed(w, t)
      PROVE  NamesNobody
  BY <1>29
  DEF CancelUnclaimed, NamesNobody, DecidingPcs, TypeInv, JobsInv, JobsOK,
      Job, RowOK, At, Begin, Goto, Finish, Idle, Read, rowVars, rowButStatus,
      vars
<1>30. ASSUME NEW w \in Workers, NEW t \in Payouts,
             ApproveCancellation(w, t)
      PROVE  NamesNobody
  BY <1>30
  DEF ApproveCancellation, NamesNobody, DecidingPcs, TypeInv, JobsInv, JobsOK,
      Job, RowOK, At, Begin, Goto, Finish, Idle, Read, rowVars, rowButStatus,
      vars
<1>31. ASSUME NEW w \in Workers,
             ReleaseCancelled(w)
      PROVE  NamesNobody
  BY <1>31
  DEF ReleaseCancelled, ReleaseHold, NamesNobody, DecidingPcs, TypeInv,
      JobsInv, JobsOK, Job, RowOK, At, Begin, Goto, Finish, Idle, Read,
      rowVars, rowButStatus, vars
<1>32. ASSUME NEW w \in Workers,
             RefundParty(w)
      PROVE  NamesNobody
  BY <1>32
  DEF RefundParty, NamesNobody, DecidingPcs, TypeInv, JobsInv, JobsOK, Job,
      RowOK, At, Begin, Goto, Finish, Idle, Read, rowVars, rowButStatus, vars
<1>33. ASSUME NEW w \in Workers, ExpireWrite(w)
      PROVE  NamesNobody
  <2>1. \A v \in Workers \ {w} : jobs'[v] = jobs[v]
    BY <1>33 DEF ExpireWrite, Goto, Finish, TypeInv, JobsInv, JobsOK
  <2>2. jobs'[w].pc \in {"release", "idle"}
    BY <1>33
    DEF ExpireWrite, Goto, Finish, Idle, TypeInv, JobsInv, JobsOK, Job
  <2>3. captainId' = captainId
    BY <1>33 DEF ExpireWrite, rowVars, rowButStatus
  <2> QED
    BY <2>1, <2>2, <2>3 DEF NamesNobody, DecidingPcs
<1>34. ASSUME NEW w \in Workers,
             ExpireLost(w)
      PROVE  NamesNobody
  BY <1>34
  DEF ExpireLost, NamesNobody, DecidingPcs, TypeInv, JobsInv, JobsOK, Job,
      RowOK, At, Begin, Goto, Finish, Idle, Read, rowVars, rowButStatus, vars
<1>35. ASSUME NEW w \in Workers,
             ReturnWrite(w)
      PROVE  NamesNobody
  BY <1>35
  DEF ReturnWrite, ReturnToPool, NamesNobody, DecidingPcs, TypeInv, JobsInv,
      JobsOK, Job, RowOK, At, Begin, Goto, Finish, Idle, Read, rowVars,
      rowButStatus, vars
<1>36. ASSUME NEW w \in Workers,
             ReturnLost(w)
      PROVE  NamesNobody
  BY <1>36
  DEF ReturnLost, NamesNobody, DecidingPcs, TypeInv, JobsInv, JobsOK, Job,
      RowOK, At, Begin, Goto, Finish, Idle, Read, rowVars, rowButStatus, vars
<1>37. ASSUME NEW t \in Payouts, NEW c \in Captains,
             StartTask(t, c)
      PROVE  NamesNobody
  BY <1>37
  DEF StartTask, NamesNobody, DecidingPcs, TypeInv, JobsInv, JobsOK, Job,
      RowOK, At, Begin, Goto, Finish, Idle, Read, rowVars, rowButStatus, vars
<1>38. ASSUME NEW t \in Payouts,
             RejectTask(t)
      PROVE  NamesNobody
  BY <1>38
  DEF RejectTask, MarkRejected, NamesNobody, DecidingPcs, TypeInv, JobsInv,
      JobsOK, Job, RowOK, At, Begin, Goto, Finish, Idle, Read, rowVars,
      rowButStatus, vars
<1>39. ASSUME NEW t \in Payouts,
             RequestCancellation(t)
      PROVE  NamesNobody
  BY <1>39
  DEF RequestCancellation, NamesNobody, DecidingPcs, TypeInv, JobsInv, JobsOK,
      Job, RowOK, At, Begin, Goto, Finish, Idle, Read, rowVars, rowButStatus,
      vars
<1>40. ASSUME NEW t \in Payouts,
             DisputeCancellation(t)
      PROVE  NamesNobody
  BY <1>40
  DEF DisputeCancellation, NamesNobody, DecidingPcs, TypeInv, JobsInv, JobsOK,
      Job, RowOK, At, Begin, Goto, Finish, Idle, Read, rowVars, rowButStatus,
      vars
<1>41. ASSUME NEW t \in Payouts,
             RestoreDisputed(t)
      PROVE  NamesNobody
  BY <1>41
  DEF RestoreDisputed, NamesNobody, DecidingPcs, TypeInv, JobsInv, JobsOK,
      Job, RowOK, At, Begin, Goto, Finish, Idle, Read, rowVars, rowButStatus,
      vars
<1>42. ASSUME NEW t \in Payouts, NEW k \in Clocks,
             ClockLapses(t, k)
      PROVE  NamesNobody
  BY <1>42
  DEF ClockLapses, Running, NamesNobody, DecidingPcs, TypeInv, JobsInv,
      JobsOK, Job, RowOK, At, Begin, Goto, Finish, Idle, Read, rowVars,
      rowButStatus, vars
<1>43. ASSUME Crash
      PROVE  NamesNobody
  BY <1>43
  DEF Crash, NamesNobody, DecidingPcs, TypeInv, JobsInv, JobsOK, Job, RowOK,
      At, Begin, Goto, Finish, Idle, Read, rowVars, rowButStatus, vars
<1>44. ASSUME UNCHANGED vars
      PROVE  NamesNobody
  BY <1>44 DEF NamesNobody, vars, rowVars, rowButStatus
<1>45. ASSUME NEW w \in Workers, NEW t \in Payouts,
             ApproveRead(w, t)
      PROVE  HoldersKnown'
  BY <1>45
  DEF ApproveRead, HoldersKnown, CopyNamesHolder, DecidingPcs, TypeInv,
      JobsInv, JobsOK, Job, RowOK, At, Begin, Goto, Finish, Idle, Read,
      rowVars, rowButStatus, vars
<1>46. ASSUME NEW w \in Workers, NEW t \in Payouts,
             OverruleRead(w, t)
      PROVE  HoldersKnown'
  BY <1>46
  DEF OverruleRead, HoldersKnown, CopyNamesHolder, DecidingPcs, TypeInv,
      JobsInv, JobsOK, Job, RowOK, At, Begin, Goto, Finish, Idle, Read,
      rowVars, rowButStatus, vars
<1>47. ASSUME NEW w \in Workers, NEW t \in Payouts,
             ReassignRead(w, t)
      PROVE  HoldersKnown'
  BY <1>47
  DEF ReassignRead, HoldersKnown, CopyNamesHolder, DecidingPcs, TypeInv,
      JobsInv, JobsOK, Job, RowOK, At, Begin, Goto, Finish, Idle, Read,
      rowVars, rowButStatus, vars
<1>48. ASSUME NEW w \in Workers, NEW t \in Payouts,
             ExpireRead(w, t)
      PROVE  HoldersKnown'
  BY <1>48
  DEF ExpireRead, HoldersKnown, CopyNamesHolder, DecidingPcs, TypeInv,
      JobsInv, JobsOK, Job, RowOK, At, Begin, Goto, Finish, Idle, Read,
      rowVars, rowButStatus, vars
<1>49. ASSUME NEW w \in Workers, NEW t \in Payouts,
             ReturnRead(w, t)
      PROVE  HoldersKnown'
  BY <1>49
  DEF ReturnRead, HoldersKnown, CopyNamesHolder, DecidingPcs, TypeInv,
      JobsInv, JobsOK, Job, RowOK, At, Begin, Goto, Finish, Idle, Read,
      rowVars, rowButStatus, vars
<1>50. ASSUME NEW w \in Workers,
             ApproveAfterClear(w)
      PROVE  HoldersKnown'
  BY <1>50
  DEF ApproveAfterClear, HoldersKnown, CopyNamesHolder, DecidingPcs, TypeInv,
      JobsInv, JobsOK, Job, RowOK, At, Begin, Goto, Finish, Idle, Read,
      rowVars, rowButStatus, vars
<1>51. ASSUME NEW w \in Workers, ClaimInTransaction(w) \/ ClaimWrite(w)
      PROVE  HoldersKnown'
  <2>1. PICK t \in Payouts, c \in Captains : t = jobs[w].t /\ c = jobs[w].c
    BY <1>51
    DEF ClaimInTransaction, ClaimWrite, At, TypeInv, JobsInv, JobsOK, CaptainPcs,
        ClaimingPcs
  <2>2. AssignTo(w, t, c) /\ Finish(w)
    BY <1>51, <2>1 DEF ClaimInTransaction, ClaimWrite
  <2>3. \A v \in Workers \ {w} :
           jobs[v].t = t => jobs[v].pc \notin DecidingPcs
    BY <2>2 DEF AssignTo, HandsOver, DecidingPcs
  <2>4. \A u \in Payouts \ {t} : captainId'[u] = captainId[u]
    BY <2>2 DEF AssignTo, TypeInv, RowOK
  <2>5. \A v \in Workers \ {w} : jobs'[v] = jobs[v]
    BY <2>2 DEF Finish, TypeInv, JobsInv, JobsOK
  <2>6. \A v \in Workers \ {w} : CopyNamesHolder(v)'
    BY <2>3, <2>4, <2>5 DEF HoldersKnown, CopyNamesHolder, DecidingPcs, TypeInv, JobsInv, JobsOK
  <2>7. CopyNamesHolder(w)'
    BY <2>2 DEF Finish, Idle, CopyNamesHolder, DecidingPcs, TypeInv, JobsInv, JobsOK
  <2> QED
    BY <2>6, <2>7 DEF HoldersKnown
<1> QED
  BY <1>1, <1>2, <1>3, <1>4, <1>5, <1>6, <1>7, <1>8, <1>9, <1>10, <1>11,
     <1>12, <1>13, <1>14, <1>15, <1>16, <1>17, <1>18, <1>19, <1>20, <1>21,
     <1>22, <1>23, <1>24, <1>25, <1>26, <1>27, <1>28, <1>29, <1>30, <1>31,
     <1>32, <1>33, <1>34, <1>35, <1>36, <1>37, <1>38, <1>39, <1>40, <1>41,
     <1>42, <1>43, <1>44, <1>45, <1>46, <1>47, <1>48, <1>49, <1>50, <1>51,
     NobodyNamed
  DEF Next, Request, Decision, Sweep, JobStep, ConfirmReceived,
      ConfirmNotReceived, AutoApproveOnTimeout, CancelStale, RejectExpired,
      ReclaimExpired, Workers

Holding(t, c) == IF captainId[t] = c /\ status[t] \in DMC_HELD_STATES THEN 1 ELSE 0
Carry(w, t, c) == IF Carries(w, t, c) THEN 1 ELSE 0
Carried(t, c) == Total([w \in Workers |-> Carry(w, t, c)], Workers)

Matches(t, c) ==
  IF crashes = 0 THEN hold[t][c] = DueOn(t, c) ELSE hold[t][c] >= DueOn(t, c)

LEMMA DueIs ==
  ASSUME NEW t, NEW c
  PROVE  DueOn(t, c) = Holding(t, c) + Carried(t, c)
<1>1. [w \in Workers |-> IF Carries(w, t, c) THEN 1 ELSE 0] = [w \in Workers |-> Carry(w, t, c)]
  BY DEF Carry
<1> QED
  BY <1>1 DEF DueOn, Holding, Carried

LEMMA CarriedIsNat ==
  ASSUME NEW t, NEW c
  PROVE  Carried(t, c) \in Nat
<1> DEFINE f == [w \in Workers |-> Carry(w, t, c)]
<1>1. \A w \in Workers : f[w] \in Nat
  BY DEF Carry
<1>2. Total(f, Workers) \in Nat
  <2> HIDE DEF f
  <2> QED
    BY <1>1, FiniteAssumption, TotalNat
<1> QED
  BY <1>2 DEF Carried

\* Only the job of w changes what is carried.
LEMMA CarriedMoves ==
  ASSUME NEW w \in Workers, NEW t, NEW c, \A v \in Workers \ {w} : jobs'[v] = jobs[v]
  PROVE  Carried(t, c)' = Carried(t, c) + Carry(w, t, c)' - Carry(w, t, c)
<1> DEFINE f == [v \in Workers |-> Carry(v, t, c)]
           g == [v \in Workers |-> Carry(v, t, c)']
<1>1. \A v \in Workers \ {w} : g[v] = f[v]
  BY DEF Carry, Carries
<1>2. \A v \in Workers : f[v] \in Int /\ g[v] \in Int
  BY DEF Carry
<1>3. g[w] = Carry(w, t, c)' /\ f[w] = Carry(w, t, c)
  OBVIOUS
<1>4. Total(g, Workers) = Carried(t, c)' /\ Total(f, Workers) = Carried(t, c)
  BY DEF Carried
<1>5. Total(g, Workers) = Total(f, Workers) + g[w] - f[w]
  <2> HIDE DEF f, g
  <2> QED
    BY <1>1, <1>2, FiniteAssumption, TotalOneChanges
<1> QED
  BY <1>3, <1>4, <1>5

\* By how much a step of w changes what is held and what is due.
Books(w, t, c, i, j, k) ==
  /\ hold'[t][c] = hold[t][c] + i
  /\ Holding(t, c)' = Holding(t, c) + j
  /\ Carry(w, t, c)' = Carry(w, t, c) + k

LEMMA MatchKept ==
  ASSUME TypeInv, NEW w \in Workers, NEW t \in Payouts, NEW c \in Captains,
         Matches(t, c), \A v \in Workers \ {w} : jobs'[v] = jobs[v], crashes' = crashes,
         NEW i \in Int, NEW j \in Int, NEW k \in Int, i = j + k, Books(w, t, c, i, j, k)
  PROVE  Matches(t, c)'
<1>1. PICK h \in Int, x \in Int, y \in Int, z \in Int :
         h = hold[t][c] /\ x = Holding(t, c) /\ y = Carried(t, c) /\ z = Carry(w, t, c)
  <2>1. hold[t][c] \in Int
    BY DEF TypeInv, HistoryOK
  <2>2. Holding(t, c) \in Int /\ Carry(w, t, c) \in Int
    BY DEF Holding, Carry
  <2>3. Carried(t, c) \in Int
    BY CarriedIsNat
  <2> QED
    BY <2>1, <2>2, <2>3
<1>2. Carried(t, c)' = Carried(t, c) + Carry(w, t, c)' - Carry(w, t, c)
  BY CarriedMoves
<1>3. hold'[t][c] = h + i /\ Holding(t, c)' = x + j /\ Carried(t, c)' = y + k
  BY <1>1, <1>2 DEF Books
<1>4. DueOn(t, c) = x + y
  BY <1>1, DueIs
<1>5. DueOn(t, c)' = (x + j) + (y + k)
  <2>1. (DueOn(t, c) = Holding(t, c) + Carried(t, c))'
    BY DueIs, PTL
  <2> QED
    BY <1>3, <2>1
<1> QED
  BY <1>1, <1>3, <1>4, <1>5 DEF Matches


\* A step that moves nothing that is held.
HoldStill ==
  /\ UNCHANGED <<hold, crashes>>
  /\ \A t \in Payouts, c \in Captains :
       /\ Holding(t, c)' = Holding(t, c)
       /\ \A w \in Workers : Carry(w, t, c)' = Carry(w, t, c)

LEMMA HoldStillMatches ==
  ASSUME HoldStill, NEW t \in Payouts, NEW c \in Captains, Matches(t, c)
  PROVE  Matches(t, c)'
<1> DEFINE f == [w \in Workers |-> Carry(w, t, c)]
           g == [w \in Workers |-> Carry(w, t, c)']
<1>1. g = f
  BY DEF HoldStill
<1>2. Carried(t, c)' = Carried(t, c)
  BY <1>1 DEF Carried
<1>3. (DueOn(t, c) = Holding(t, c) + Carried(t, c))'
  BY DueIs, PTL
<1>4. DueOn(t, c)' = DueOn(t, c)
  BY <1>2, <1>3, DueIs DEF HoldStill
<1> QED
  BY <1>4 DEF Matches, HoldStill

CarryPcs ==
  {"claim", "release", "supersede", "releaseCancelled", "commission", "collect", "reimburse"}

\* A step of w, or of nobody, that takes nothing, passes nothing on, and
\* leaves every payout with its holder.
KeepsHolds(w) ==
  /\ \A v \in Workers \ {w} : jobs'[v] = jobs[v]
  /\ \/ jobs[w].pc \notin CarryPcs /\ jobs'[w].pc \notin CarryPcs
     \/ /\ jobs[w].pc \in CarryPcs /\ jobs'[w].pc \in CarryPcs
        /\ jobs'[w].t = jobs[w].t /\ jobs'[w].c = jobs[w].c
  /\ \A t \in Payouts :
       \/ captainId'[t] = captainId[t]
            /\ (status'[t] \in DMC_HELD_STATES <=> status[t] \in DMC_HELD_STATES)
       \/ status[t] \notin DMC_HELD_STATES /\ status'[t] \notin DMC_HELD_STATES
  /\ UNCHANGED <<hold, crashes>>

LEMMA KeepsHoldsIsStill ==
  ASSUME NEW w \in Workers, KeepsHolds(w)
  PROVE  HoldStill
<1>1. ASSUME NEW t \in Payouts, NEW c \in Captains
      PROVE  Holding(t, c)' = Holding(t, c)
  BY DEF Holding, KeepsHolds
<1>2. ASSUME NEW t \in Payouts, NEW c \in Captains, NEW v \in Workers
      PROVE  Carry(v, t, c)' = Carry(v, t, c)
  <2>1. CASE v = w
    BY <2>1 DEF Carry, Carries, KeepsHolds, CarryPcs
  <2>2. CASE v # w
    BY <2>2 DEF Carry, Carries, KeepsHolds
  <2> QED
    BY <2>1, <2>2
<1> QED
  BY <1>1, <1>2 DEF HoldStill, KeepsHolds

\* A step of w that moves the hold of captain c on payout t, and no other.
Moves(w, t, c, i, j, k) ==
  /\ \A v \in Workers \ {w} : jobs'[v] = jobs[v]
  /\ Books(w, t, c, i, j, k)
  /\ \A u \in Payouts, d \in Captains : u # t \/ d # c =>
       /\ hold'[u][d] = hold[u][d]
       /\ Holding(u, d)' = Holding(u, d) /\ Carry(w, u, d)' = Carry(w, u, d)
  /\ crashes' = crashes

LEMMA MovesMatch ==
  ASSUME TypeInv, NEW w \in Workers, NEW t \in Payouts, NEW c \in Captains,
         NEW i \in Int, NEW j \in Int, NEW k \in Int, i = j + k, Moves(w, t, c, i, j, k),
         HoldsMatchHolders
  PROVE  HoldsMatchHolders'
<1>1. \A u \in Payouts, d \in Captains : Matches(u, d)
  BY DEF HoldsMatchHolders, Matches
<1>2. Matches(t, c)'
  BY <1>1, MatchKept DEF Moves
<1>3. ASSUME NEW u \in Payouts, NEW d \in Captains, u # t \/ d # c
      PROVE  Matches(u, d)'
  <2>1. PICK z \in Int : z = 0 /\ z = z + z
    OBVIOUS
  <2>2. PICK h \in Int, x \in Int, y \in Int :
           h = hold[u][d] /\ x = Holding(u, d) /\ y = Carry(w, u, d)
    BY DEF TypeInv, HistoryOK, Holding, Carry
  <2>3. h = h + z /\ x = x + z /\ y = y + z
    BY <2>1
  <2>4. hold'[u][d] = h /\ Holding(u, d)' = x /\ Carry(w, u, d)' = y
    BY <1>3, <2>2 DEF Moves
  <2>5. Books(w, u, d, z, z, z)
    BY <2>2, <2>3, <2>4 DEF Books
  <2>6. \A v \in Workers \ {w} : jobs'[v] = jobs[v]
    BY DEF Moves
  <2>7. crashes' = crashes
    BY DEF Moves
  <2> QED
    BY <1>1, <2>1, <2>5, <2>6, <2>7, MatchKept
<1>4. ASSUME NEW u \in Payouts, NEW d \in Captains
      PROVE  Matches(u, d)'
  BY <1>2, <1>3
<1> QED
  BY <1>4 DEF HoldsMatchHolders, Matches

LEMMA StillMatch ==
  ASSUME HoldStill, HoldsMatchHolders
  PROVE  HoldsMatchHolders'
<1>1. ASSUME NEW t \in Payouts, NEW c \in Captains
      PROVE  Matches(t, c)'
  BY HoldStillMatches DEF HoldsMatchHolders, Matches
<1> QED
  BY <1>1 DEF HoldsMatchHolders, Matches

\* Every step but a crash moves a hold with whoever it is due from.
LEMMA HoldersStep ==
  ASSUME TypeInv, CopiesAgree, HoldersKnown, HoldsMatchHolders, [Next]_vars, ~Crash
  PROVE  HoldsMatchHolders'
<1>1. ASSUME NEW w \in Workers, NEW t \in Payouts,
             CreateDebit(w, t)
      PROVE  KeepsHolds(w)
  BY <1>1
  DEF CreateDebit, KeepsHolds, CarryPcs, TypeInv, JobsInv, JobsOK, Job, RowOK,
      At, Begin, Goto, Finish, Idle, Read, rowVars, rowButStatus, faultVars,
      historyVars, DMC_HELD_STATES
<1>2. ASSUME NEW w \in Workers,
             CreateInsert(w)
      PROVE  KeepsHolds(w)
  BY <1>2
  DEF CreateInsert, KeepsHolds, CarryPcs, TypeInv, JobsInv, JobsOK, Job,
      RowOK, At, Begin, Goto, Finish, Idle, Read, rowVars, rowButStatus,
      faultVars, historyVars, DMC_HELD_STATES
<1>3. ASSUME NEW w \in Workers,
             CreateDuplicate(w)
      PROVE  KeepsHolds(w)
  BY <1>3
  DEF CreateDuplicate, KeepsHolds, CarryPcs, TypeInv, JobsInv, JobsOK, Job,
      RowOK, At, Begin, Goto, Finish, Idle, Read, rowVars, rowButStatus,
      faultVars, historyVars, DMC_HELD_STATES
<1>4. ASSUME NEW w \in Workers,
             CreateRefundDebit(w)
      PROVE  KeepsHolds(w)
  BY <1>4
  DEF CreateRefundDebit, KeepsHolds, CarryPcs, TypeInv, JobsInv, JobsOK, Job,
      RowOK, At, Begin, Goto, Finish, Idle, Read, rowVars, rowButStatus,
      faultVars, historyVars, DMC_HELD_STATES
<1>5. ASSUME NEW w \in Workers, NEW t \in Payouts, NEW c \in Captains,
             ClaimRead(w, t, c)
      PROVE  KeepsHolds(w)
  BY <1>5
  DEF ClaimRead, KeepsHolds, CarryPcs, TypeInv, JobsInv, JobsOK, Job, RowOK,
      At, Begin, Goto, Finish, Idle, Read, rowVars, rowButStatus, faultVars,
      historyVars, DMC_HELD_STATES
<1>6. ASSUME NEW w \in Workers, NEW t \in Payouts, NEW c \in Captains,
             ProofRead(w, t, c)
      PROVE  KeepsHolds(w)
  BY <1>6
  DEF ProofRead, KeepsHolds, CarryPcs, TypeInv, JobsInv, JobsOK, Job, RowOK,
      At, Begin, Goto, Finish, Idle, Read, rowVars, rowButStatus, faultVars,
      historyVars, DMC_HELD_STATES
<1>7. ASSUME NEW w \in Workers,
             ClaimLost(w)
      PROVE  KeepsHolds(w)
  BY <1>7
  DEF ClaimLost, KeepsHolds, CarryPcs, TypeInv, JobsInv, JobsOK, Job, RowOK,
      At, Begin, Goto, Finish, Idle, Read, rowVars, rowButStatus, faultVars,
      historyVars, DMC_HELD_STATES
<1>8. ASSUME NEW w \in Workers,
             ClaimRefused(w)
      PROVE  KeepsHolds(w)
  BY <1>8
  DEF ClaimRefused, KeepsHolds, CarryPcs, TypeInv, JobsInv, JobsOK, Job,
      RowOK, At, Begin, Goto, Finish, Idle, Read, rowVars, rowButStatus,
      faultVars, historyVars, DMC_HELD_STATES
<1>9. ASSUME NEW w \in Workers,
             ProofClaim(w)
      PROVE  KeepsHolds(w)
  BY <1>9
  DEF ProofClaim, KeepsHolds, CarryPcs, TypeInv, JobsInv, JobsOK, Job, RowOK,
      At, Begin, Goto, Finish, Idle, Read, rowVars, rowButStatus, faultVars,
      historyVars, DMC_HELD_STATES
<1>10. ASSUME NEW w \in Workers,
             ProofCreate(w)
      PROVE  KeepsHolds(w)
  BY <1>10
  DEF ProofCreate, KeepsHolds, CarryPcs, TypeInv, JobsInv, JobsOK, Job, RowOK,
      At, Begin, Goto, Finish, Idle, Read, rowVars, rowButStatus, faultVars,
      historyVars, DMC_HELD_STATES
<1>11. ASSUME NEW w \in Workers,
             ProofQueue(w)
      PROVE  KeepsHolds(w)
  BY <1>11
  DEF ProofQueue, KeepsHolds, CarryPcs, TypeInv, JobsInv, JobsOK, Job, RowOK,
      At, Begin, Goto, Finish, Idle, Read, rowVars, rowButStatus, faultVars,
      historyVars, DMC_HELD_STATES
<1>12. ASSUME NEW w \in Workers,
             ProofAsk(w)
      PROVE  KeepsHolds(w)
  BY <1>12
  DEF ProofAsk, KeepsHolds, CarryPcs, TypeInv, JobsInv, JobsOK, Job, RowOK,
      At, Begin, Goto, Finish, Idle, Read, rowVars, rowButStatus, faultVars,
      historyVars, DMC_HELD_STATES
<1>13. ASSUME NEW w \in Workers, NEW t \in Payouts, NEW next \in {"approve", "reject"},
             ClearDeadline(w, t, next)
      PROVE  KeepsHolds(w)
  BY <1>13
  DEF ClearDeadline, KeepsHolds, CarryPcs, TypeInv, JobsInv, JobsOK, Job,
      RowOK, At, Begin, Goto, Finish, Idle, Read, rowVars, rowButStatus,
      faultVars, historyVars, DMC_HELD_STATES
<1>14. ASSUME NEW w \in Workers,
             ApproveAfterClear(w)
      PROVE  KeepsHolds(w)
  BY <1>14
  DEF ApproveAfterClear, KeepsHolds, CarryPcs, TypeInv, JobsInv, JobsOK, Job,
      RowOK, At, Begin, Goto, Finish, Idle, Read, rowVars, rowButStatus,
      faultVars, historyVars, DMC_HELD_STATES
<1>15. ASSUME NEW w \in Workers,
             RejectAfterClear(w)
      PROVE  KeepsHolds(w)
  BY <1>15
  DEF RejectAfterClear, MarkRejected, KeepsHolds, CarryPcs, TypeInv, JobsInv,
      JobsOK, Job, RowOK, At, Begin, Goto, Finish, Idle, Read, rowVars,
      rowButStatus, faultVars, historyVars, DMC_HELD_STATES
<1>16. ASSUME NEW w \in Workers, NEW t \in Payouts,
             ApproveRead(w, t)
      PROVE  KeepsHolds(w)
  BY <1>16
  DEF ApproveRead, KeepsHolds, CarryPcs, TypeInv, JobsInv, JobsOK, Job, RowOK,
      At, Begin, Goto, Finish, Idle, Read, rowVars, rowButStatus, faultVars,
      historyVars, DMC_HELD_STATES
<1>17. ASSUME NEW w \in Workers, NEW t \in Payouts,
             OverruleRead(w, t)
      PROVE  KeepsHolds(w)
  BY <1>17
  DEF OverruleRead, KeepsHolds, CarryPcs, TypeInv, JobsInv, JobsOK, Job,
      RowOK, At, Begin, Goto, Finish, Idle, Read, rowVars, rowButStatus,
      faultVars, historyVars, DMC_HELD_STATES
<1>18. ASSUME NEW w \in Workers, NEW t \in Payouts,
             ReassignRead(w, t)
      PROVE  KeepsHolds(w)
  BY <1>18
  DEF ReassignRead, KeepsHolds, CarryPcs, TypeInv, JobsInv, JobsOK, Job,
      RowOK, At, Begin, Goto, Finish, Idle, Read, rowVars, rowButStatus,
      faultVars, historyVars, DMC_HELD_STATES
<1>19. ASSUME NEW w \in Workers,
             CompleteLost(w)
      PROVE  KeepsHolds(w)
  BY <1>19
  DEF CompleteLost, KeepsHolds, CarryPcs, TypeInv, JobsInv, JobsOK, Job,
      RowOK, At, Begin, Goto, Finish, Idle, Read, rowVars, rowButStatus,
      faultVars, historyVars, DMC_HELD_STATES
<1>20. ASSUME NEW w \in Workers,
             CompleteCommission(w)
      PROVE  KeepsHolds(w)
  BY <1>20
  DEF CompleteCommission, CreditCommission, KeepsHolds, CarryPcs, TypeInv,
      JobsInv, JobsOK, Job, RowOK, At, Begin, Goto, Finish, Idle, Read,
      rowVars, rowButStatus, faultVars, historyVars, DMC_HELD_STATES
<1>21. ASSUME NEW w \in Workers,
             CompleteCollect(w)
      PROVE  KeepsHolds(w)
  BY <1>21
  DEF CompleteCollect, KeepsHolds, CarryPcs, TypeInv, JobsInv, JobsOK, Job,
      RowOK, At, Begin, Goto, Finish, Idle, Read, rowVars, rowButStatus,
      faultVars, historyVars, DMC_HELD_STATES
<1>22. ASSUME NEW w \in Workers,
             CompletePayShare(w)
      PROVE  KeepsHolds(w)
  BY <1>22
  DEF CompletePayShare, KeepsHolds, CarryPcs, TypeInv, JobsInv, JobsOK, Job,
      RowOK, At, Begin, Goto, Finish, Idle, Read, rowVars, rowButStatus,
      faultVars, historyVars, DMC_HELD_STATES
<1>23. ASSUME NEW w \in Workers,
             CompleteAllocateCaptain(w)
      PROVE  KeepsHolds(w)
  BY <1>23
  DEF CompleteAllocateCaptain, KeepsHolds, CarryPcs, TypeInv, JobsInv, JobsOK,
      Job, RowOK, At, Begin, Goto, Finish, Idle, Read, rowVars, rowButStatus,
      faultVars, historyVars, DMC_HELD_STATES
<1>24. ASSUME NEW w \in Workers,
             CompleteAllocatePlatform(w)
      PROVE  KeepsHolds(w)
  BY <1>24
  DEF CompleteAllocatePlatform, AllocationOwners, KeepsHolds, CarryPcs,
      TypeInv, JobsInv, JobsOK, Job, RowOK, At, Begin, Goto, Finish, Idle,
      Read, rowVars, rowButStatus, faultVars, historyVars, DMC_HELD_STATES
<1>25. ASSUME NEW w \in Workers,
             ReassignLost(w)
      PROVE  KeepsHolds(w)
  BY <1>25
  DEF ReassignLost, KeepsHolds, CarryPcs, TypeInv, JobsInv, JobsOK, Job,
      RowOK, At, Begin, Goto, Finish, Idle, Read, rowVars, rowButStatus,
      faultVars, historyVars, DMC_HELD_STATES
<1>26. ASSUME NEW w \in Workers, NEW t \in Payouts,
             CancelUnclaimed(w, t)
      PROVE  KeepsHolds(w)
  BY <1>26, ConstantsAssumption
  DEF CancelUnclaimed, KeepsHolds, CarryPcs, TypeInv, JobsInv, JobsOK, Job,
      RowOK, At, Begin, Goto, Finish, Idle, Read, rowVars, rowButStatus,
      faultVars, historyVars, DMC_HELD_STATES, HasCaptain, CanTransition,
      TASK_TRANSITIONS, TaskStates
<1>27. ASSUME NEW w \in Workers,
             RefundParty(w)
      PROVE  KeepsHolds(w)
  BY <1>27
  DEF RefundParty, KeepsHolds, CarryPcs, TypeInv, JobsInv, JobsOK, Job, RowOK,
      At, Begin, Goto, Finish, Idle, Read, rowVars, rowButStatus, faultVars,
      historyVars, DMC_HELD_STATES
<1>28. ASSUME NEW w \in Workers, NEW t \in Payouts,
             ExpireRead(w, t)
      PROVE  KeepsHolds(w)
  BY <1>28
  DEF ExpireRead, KeepsHolds, CarryPcs, TypeInv, JobsInv, JobsOK, Job, RowOK,
      At, Begin, Goto, Finish, Idle, Read, rowVars, rowButStatus, faultVars,
      historyVars, DMC_HELD_STATES
<1>29. ASSUME NEW w \in Workers, NEW t \in Payouts,
             ReturnRead(w, t)
      PROVE  KeepsHolds(w)
  BY <1>29
  DEF ReturnRead, KeepsHolds, CarryPcs, TypeInv, JobsInv, JobsOK, Job, RowOK,
      At, Begin, Goto, Finish, Idle, Read, rowVars, rowButStatus, faultVars,
      historyVars, DMC_HELD_STATES
<1>30. ASSUME NEW w \in Workers,
             ExpireLost(w)
      PROVE  KeepsHolds(w)
  BY <1>30
  DEF ExpireLost, KeepsHolds, CarryPcs, TypeInv, JobsInv, JobsOK, Job, RowOK,
      At, Begin, Goto, Finish, Idle, Read, rowVars, rowButStatus, faultVars,
      historyVars, DMC_HELD_STATES
<1>31. ASSUME NEW w \in Workers,
             ReturnWrite(w)
      PROVE  KeepsHolds(w)
  BY <1>31
  DEF ReturnWrite, ReturnToPool, KeepsHolds, CarryPcs, TypeInv, JobsInv,
      JobsOK, Job, RowOK, At, Begin, Goto, Finish, Idle, Read, rowVars,
      rowButStatus, faultVars, historyVars, DMC_HELD_STATES
<1>32. ASSUME NEW w \in Workers,
             ReturnLost(w)
      PROVE  KeepsHolds(w)
  BY <1>32
  DEF ReturnLost, KeepsHolds, CarryPcs, TypeInv, JobsInv, JobsOK, Job, RowOK,
      At, Begin, Goto, Finish, Idle, Read, rowVars, rowButStatus, faultVars,
      historyVars, DMC_HELD_STATES
<1>33. ASSUME NEW t \in Payouts, NEW c \in Captains,
             StartTask(t, c)
      PROVE  HoldStill
  BY <1>33
  DEF StartTask, HoldStill, Holding, Carry, Carries, TypeInv, RowOK, rowVars,
      rowButStatus, faultVars, historyVars, DMC_HELD_STATES, CanTransition,
      TASK_TRANSITIONS, TaskStates, CopiesAgree, RowAgrees
<1>34. ASSUME NEW t \in Payouts,
             RejectTask(t)
      PROVE  HoldStill
  BY <1>34
  DEF RejectTask, MarkRejected, HoldStill, Holding, Carry, Carries, TypeInv,
      RowOK, rowVars, rowButStatus, faultVars, historyVars, DMC_HELD_STATES,
      CanTransition, TASK_TRANSITIONS, TaskStates, CopiesAgree, RowAgrees
<1>35. ASSUME NEW t \in Payouts,
             RequestCancellation(t)
      PROVE  HoldStill
  BY <1>35
  DEF RequestCancellation, HoldStill, Holding, Carry, Carries, TypeInv, RowOK,
      rowVars, rowButStatus, faultVars, historyVars, DMC_HELD_STATES,
      CanTransition, TASK_TRANSITIONS, TaskStates, CopiesAgree, RowAgrees
<1>36. ASSUME NEW t \in Payouts,
             DisputeCancellation(t)
      PROVE  HoldStill
  BY <1>36
  DEF DisputeCancellation, HoldStill, Holding, Carry, Carries, TypeInv, RowOK,
      rowVars, rowButStatus, faultVars, historyVars, DMC_HELD_STATES,
      CanTransition, TASK_TRANSITIONS, TaskStates, CopiesAgree, RowAgrees
<1>37. ASSUME NEW t \in Payouts,
             RestoreDisputed(t)
      PROVE  HoldStill
  BY <1>37
  DEF RestoreDisputed, HoldStill, Holding, Carry, Carries, TypeInv, RowOK,
      rowVars, rowButStatus, faultVars, historyVars, DMC_HELD_STATES,
      CanTransition, TASK_TRANSITIONS, TaskStates, CopiesAgree, RowAgrees
<1>38. ASSUME NEW t \in Payouts, NEW k \in Clocks,
             ClockLapses(t, k)
      PROVE  HoldStill
  BY <1>38
  DEF ClockLapses, Running, HoldStill, Holding, Carry, Carries, TypeInv,
      RowOK, rowVars, rowButStatus, faultVars, historyVars, DMC_HELD_STATES,
      CanTransition, TASK_TRANSITIONS, TaskStates, CopiesAgree, RowAgrees
<1>39. ASSUME UNCHANGED vars
      PROVE  HoldStill
  BY <1>39
  DEF vars, rowVars, rowButStatus, faultVars, historyVars, HoldStill, Holding,
      Carry, Carries
<1>40. ASSUME NEW w \in Workers, ReassignSupersede(w)
      PROVE  KeepsHolds(w)
  <2>1. jobs[w].c # None
    BY <1>40, ConstantsAssumption DEF ReassignSupersede, At, CopiesAgree, JobAgrees
  <2>2. Goto(w, "release") /\ At(w, "supersede")
    BY <1>40, <2>1 DEF ReassignSupersede
  <2> QED
    BY <1>40, <2>2
    DEF ReassignSupersede, KeepsHolds, CarryPcs, Goto, At, TypeInv, JobsInv, JobsOK, Job, rowVars,
        rowButStatus, faultVars, historyVars
<1>41. ASSUME NEW w \in Workers, ClaimHold(w)
      PROVE  HoldsMatchHolders'
  <2>1. PICK t \in Payouts, c \in Captains : t = jobs[w].t /\ c = jobs[w].c
    BY <1>41
    DEF ClaimHold, TakeHold, At, TypeInv, JobsInv, JobsOK, Job, CaptainPcs,
        ClaimingPcs, CopiesAgree, JobAgrees
  <2>2. \A v \in Workers \ {w} : jobs'[v] = jobs[v]
    BY <1>41, <2>1
    DEF ClaimHold, TakeHold, Begin, Goto, Finish, Idle, Read, TypeInv,
        JobsInv, JobsOK, Job, At
  <2>3. Holding(t, c)' = Holding(t, c)
    BY <1>41, <2>1
    DEF ClaimHold, TakeHold, Holding, TypeInv, RowOK, rowVars, rowButStatus,
        DMC_HELD_STATES, CLAIMABLE_STATES, JobsInv, JobFromOK, At
  <2>4. Carry(w, t, c) = 0 /\ Carry(w, t, c)' = 1
    BY <1>41, <2>1, ConstantsAssumption
    DEF ClaimHold, TakeHold, Carry, Carries, Begin, Goto, Finish, Idle, Read,
        TypeInv, JobsInv, JobsOK, Job, At
  <2>5. \A u \in Payouts, d \in Captains : u # t \/ d # c => Holding(u, d)' = Holding(u, d)
    BY <1>41, <2>1, ConstantsAssumption
    DEF ClaimHold, TakeHold, Holding, TypeInv, RowOK, rowVars, rowButStatus,
        DMC_HELD_STATES, CLAIMABLE_STATES, JobsInv, JobFromOK, At
  <2>6. \A u \in Payouts, d \in Captains : u # t \/ d # c => Carry(w, u, d)' = Carry(w, u, d)
    BY <1>41, <2>1
    DEF ClaimHold, TakeHold, Carry, Carries, Begin, Goto, Finish, Idle, Read,
        TypeInv, JobsInv, JobsOK, Job, At
  <2>7. PICK h \in Int, x \in Int : h = hold[t][c] /\ x = Holding(t, c)
    BY DEF TypeInv, HistoryOK, Holding
  <2>8. hold'[t][c] = h + (1)
    BY <1>41, <2>1, <2>7
    DEF ClaimHold, TakeHold, historyVars, TypeInv, HistoryOK
  <2>9. \A u \in Payouts, d \in Captains : u # t \/ d # c => hold'[u][d] = hold[u][d]
    BY <1>41, <2>1 DEF ClaimHold, TakeHold, historyVars, TypeInv, HistoryOK
  <2>10. PICK i \in Int, j \in Int, k \in Int : i = 1 /\ j = 0 /\ k = 1 /\ i = j + k
    OBVIOUS
  <2>11. Books(w, t, c, i, j, k)
    BY <2>3, <2>4, <2>7, <2>8, <2>10 DEF Books
  <2>12. Moves(w, t, c, i, j, k)
    BY <1>41, <2>2, <2>5, <2>6, <2>9, <2>11
    DEF ClaimHold, TakeHold, faultVars, Moves
  <2> QED
    BY <2>10, <2>12, MovesMatch
<1>42. ASSUME NEW w \in Workers, ClaimWrite(w)
      PROVE  HoldsMatchHolders'
  <2>1. PICK t \in Payouts, c \in Captains : t = jobs[w].t /\ c = jobs[w].c
    BY <1>42
    DEF ClaimWrite, AssignTo, At, TypeInv, JobsInv, JobsOK, Job, CaptainPcs,
        ClaimingPcs, CopiesAgree, JobAgrees
  <2>2. \A v \in Workers \ {w} : jobs'[v] = jobs[v]
    BY <1>42, <2>1
    DEF ClaimWrite, AssignTo, Begin, Goto, Finish, Idle, Read, TypeInv,
        JobsInv, JobsOK, Job, At
  <2>3. Holding(t, c) = 0 /\ Holding(t, c)' = 1
    BY <1>42, <2>1, ConstantsAssumption
    DEF ClaimWrite, AssignTo, Holding, TypeInv, RowOK, rowVars, rowButStatus,
        DMC_HELD_STATES, CLAIMABLE_STATES, JobsInv, JobFromOK, At
  <2>4. Carry(w, t, c) = 1 /\ Carry(w, t, c)' = 0
    BY <1>42, <2>1, ConstantsAssumption
    DEF ClaimWrite, AssignTo, Carry, Carries, Begin, Goto, Finish, Idle, Read,
        TypeInv, JobsInv, JobsOK, Job, At
  <2>5. \A u \in Payouts, d \in Captains : u # t \/ d # c => Holding(u, d)' = Holding(u, d)
    BY <1>42, <2>1, ConstantsAssumption
    DEF ClaimWrite, AssignTo, Holding, TypeInv, RowOK, rowVars, rowButStatus,
        DMC_HELD_STATES, CLAIMABLE_STATES, JobsInv, JobFromOK, At
  <2>6. \A u \in Payouts, d \in Captains : u # t \/ d # c => Carry(w, u, d)' = Carry(w, u, d)
    BY <1>42, <2>1
    DEF ClaimWrite, AssignTo, Carry, Carries, Begin, Goto, Finish, Idle, Read,
        TypeInv, JobsInv, JobsOK, Job, At
  <2>7. PICK h \in Int, x \in Int : h = hold[t][c] /\ x = Holding(t, c)
    BY DEF TypeInv, HistoryOK, Holding
  <2>8. hold'[t][c] = h + (0)
    BY <1>42, <2>1, <2>7
    DEF ClaimWrite, AssignTo, historyVars, TypeInv, HistoryOK
  <2>9. \A u \in Payouts, d \in Captains : u # t \/ d # c => hold'[u][d] = hold[u][d]
    BY <1>42, <2>1 DEF ClaimWrite, AssignTo, historyVars, TypeInv, HistoryOK
  <2>10. PICK i \in Int, j \in Int, k \in Int : i = 0 /\ j = 1 /\ k = -1 /\ i = j + k
    OBVIOUS
  <2>11. Books(w, t, c, i, j, k)
    BY <2>3, <2>4, <2>7, <2>8, <2>10 DEF Books
  <2>12. Moves(w, t, c, i, j, k)
    BY <1>42, <2>2, <2>5, <2>6, <2>9, <2>11
    DEF ClaimWrite, AssignTo, faultVars, Moves
  <2> QED
    BY <2>10, <2>12, MovesMatch
<1>43. ASSUME NEW w \in Workers, ClaimInTransaction(w)
      PROVE  HoldsMatchHolders'
  <2>1. PICK t \in Payouts, c \in Captains : t = jobs[w].t /\ c = jobs[w].c
    BY <1>43
    DEF ClaimInTransaction, TakeHold, AssignTo, At, TypeInv, JobsInv, JobsOK,
        Job, CaptainPcs, ClaimingPcs, CopiesAgree, JobAgrees
  <2>2. \A v \in Workers \ {w} : jobs'[v] = jobs[v]
    BY <1>43, <2>1
    DEF ClaimInTransaction, TakeHold, AssignTo, Begin, Goto, Finish, Idle,
        Read, TypeInv, JobsInv, JobsOK, Job, At
  <2>3. Holding(t, c) = 0 /\ Holding(t, c)' = 1
    BY <1>43, <2>1, ConstantsAssumption
    DEF ClaimInTransaction, TakeHold, AssignTo, Holding, TypeInv, RowOK,
        rowVars, rowButStatus, DMC_HELD_STATES, CLAIMABLE_STATES, JobsInv,
        JobFromOK, At
  <2>4. Carry(w, t, c) = 0 /\ Carry(w, t, c)' = 0
    BY <1>43, <2>1
    DEF ClaimInTransaction, TakeHold, AssignTo, Carry, Carries, Begin, Goto,
        Finish, Idle, Read, TypeInv, JobsInv, JobsOK, Job, At
  <2>5. \A u \in Payouts, d \in Captains : u # t \/ d # c => Holding(u, d)' = Holding(u, d)
    BY <1>43, <2>1, ConstantsAssumption
    DEF ClaimInTransaction, TakeHold, AssignTo, Holding, TypeInv, RowOK,
        rowVars, rowButStatus, DMC_HELD_STATES, CLAIMABLE_STATES, JobsInv,
        JobFromOK, At
  <2>6. \A u \in Payouts, d \in Captains : u # t \/ d # c => Carry(w, u, d)' = Carry(w, u, d)
    BY <1>43, <2>1
    DEF ClaimInTransaction, TakeHold, AssignTo, Carry, Carries, Begin, Goto,
        Finish, Idle, Read, TypeInv, JobsInv, JobsOK, Job, At
  <2>7. PICK h \in Int, x \in Int : h = hold[t][c] /\ x = Holding(t, c)
    BY DEF TypeInv, HistoryOK, Holding
  <2>8. hold'[t][c] = h + (1)
    BY <1>43, <2>1, <2>7
    DEF ClaimInTransaction, TakeHold, AssignTo, historyVars, TypeInv,
        HistoryOK
  <2>9. \A u \in Payouts, d \in Captains : u # t \/ d # c => hold'[u][d] = hold[u][d]
    BY <1>43, <2>1
    DEF ClaimInTransaction, TakeHold, AssignTo, historyVars, TypeInv,
        HistoryOK
  <2>10. PICK i \in Int, j \in Int, k \in Int : i = 1 /\ j = 1 /\ k = 0 /\ i = j + k
    OBVIOUS
  <2>11. Books(w, t, c, i, j, k)
    BY <2>3, <2>4, <2>7, <2>8, <2>10 DEF Books
  <2>12. Moves(w, t, c, i, j, k)
    BY <1>43, <2>2, <2>5, <2>6, <2>9, <2>11
    DEF ClaimInTransaction, TakeHold, AssignTo, faultVars, Moves
  <2> QED
    BY <2>10, <2>12, MovesMatch
<1>44. ASSUME NEW w \in Workers, Release(w)
      PROVE  HoldsMatchHolders'
  <2>1. PICK t \in Payouts, c \in Captains : t = jobs[w].t /\ c = jobs[w].c
    BY <1>44
    DEF Release, ReleaseHold, At, TypeInv, JobsInv, JobsOK, Job, CaptainPcs,
        ClaimingPcs, CopiesAgree, JobAgrees
  <2>2. \A v \in Workers \ {w} : jobs'[v] = jobs[v]
    BY <1>44, <2>1
    DEF Release, ReleaseHold, Begin, Goto, Finish, Idle, Read, TypeInv,
        JobsInv, JobsOK, Job, At
  <2>3. Holding(t, c)' = Holding(t, c)
    BY <1>44, <2>1
    DEF Release, ReleaseHold, Holding, TypeInv, RowOK, rowVars, rowButStatus,
        DMC_HELD_STATES, CLAIMABLE_STATES, JobsInv, JobFromOK, At
  <2>4. Carry(w, t, c) = 1 /\ Carry(w, t, c)' = 0
    BY <1>44, <2>1, ConstantsAssumption
    DEF Release, ReleaseHold, Carry, Carries, Begin, Goto, Finish, Idle, Read,
        TypeInv, JobsInv, JobsOK, Job, At
  <2>5. \A u \in Payouts, d \in Captains : u # t \/ d # c => Holding(u, d)' = Holding(u, d)
    BY <1>44, <2>1, ConstantsAssumption
    DEF Release, ReleaseHold, Holding, TypeInv, RowOK, rowVars, rowButStatus,
        DMC_HELD_STATES, CLAIMABLE_STATES, JobsInv, JobFromOK, At
  <2>6. \A u \in Payouts, d \in Captains : u # t \/ d # c => Carry(w, u, d)' = Carry(w, u, d)
    BY <1>44, <2>1
    DEF Release, ReleaseHold, Carry, Carries, Begin, Goto, Finish, Idle, Read,
        TypeInv, JobsInv, JobsOK, Job, At
  <2>7. PICK h \in Int, x \in Int : h = hold[t][c] /\ x = Holding(t, c)
    BY DEF TypeInv, HistoryOK, Holding
  <2>8. hold'[t][c] = h + (-1)
    BY <1>44, <2>1, <2>7
    DEF Release, ReleaseHold, historyVars, TypeInv, HistoryOK
  <2>9. \A u \in Payouts, d \in Captains : u # t \/ d # c => hold'[u][d] = hold[u][d]
    BY <1>44, <2>1 DEF Release, ReleaseHold, historyVars, TypeInv, HistoryOK
  <2>10. PICK i \in Int, j \in Int, k \in Int : i = -1 /\ j = 0 /\ k = -1 /\ i = j + k
    OBVIOUS
  <2>11. Books(w, t, c, i, j, k)
    BY <2>3, <2>4, <2>7, <2>8, <2>10 DEF Books
  <2>12. Moves(w, t, c, i, j, k)
    BY <1>44, <2>2, <2>5, <2>6, <2>9, <2>11
    DEF Release, ReleaseHold, faultVars, Moves
  <2> QED
    BY <2>10, <2>12, MovesMatch
<1>45. ASSUME NEW w \in Workers, ReleaseCancelled(w)
      PROVE  HoldsMatchHolders'
  <2>1. PICK t \in Payouts, c \in Captains : t = jobs[w].t /\ c = jobs[w].c
    BY <1>45
    DEF ReleaseCancelled, ReleaseHold, At, TypeInv, JobsInv, JobsOK, Job,
        CaptainPcs, ClaimingPcs, CopiesAgree, JobAgrees
  <2>2. \A v \in Workers \ {w} : jobs'[v] = jobs[v]
    BY <1>45, <2>1
    DEF ReleaseCancelled, ReleaseHold, Begin, Goto, Finish, Idle, Read,
        TypeInv, JobsInv, JobsOK, Job, At
  <2>3. Holding(t, c)' = Holding(t, c)
    BY <1>45, <2>1
    DEF ReleaseCancelled, ReleaseHold, Holding, TypeInv, RowOK, rowVars,
        rowButStatus, DMC_HELD_STATES, CLAIMABLE_STATES, JobsInv, JobFromOK,
        At
  <2>4. Carry(w, t, c) = 1 /\ Carry(w, t, c)' = 0
    BY <1>45, <2>1, ConstantsAssumption
    DEF ReleaseCancelled, ReleaseHold, Carry, Carries, Begin, Goto, Finish,
        Idle, Read, TypeInv, JobsInv, JobsOK, Job, At
  <2>5. \A u \in Payouts, d \in Captains : u # t \/ d # c => Holding(u, d)' = Holding(u, d)
    BY <1>45, <2>1, ConstantsAssumption
    DEF ReleaseCancelled, ReleaseHold, Holding, TypeInv, RowOK, rowVars,
        rowButStatus, DMC_HELD_STATES, CLAIMABLE_STATES, JobsInv, JobFromOK,
        At
  <2>6. \A u \in Payouts, d \in Captains : u # t \/ d # c => Carry(w, u, d)' = Carry(w, u, d)
    BY <1>45, <2>1
    DEF ReleaseCancelled, ReleaseHold, Carry, Carries, Begin, Goto, Finish,
        Idle, Read, TypeInv, JobsInv, JobsOK, Job, At
  <2>7. PICK h \in Int, x \in Int : h = hold[t][c] /\ x = Holding(t, c)
    BY DEF TypeInv, HistoryOK, Holding
  <2>8. hold'[t][c] = h + (-1)
    BY <1>45, <2>1, <2>7
    DEF ReleaseCancelled, ReleaseHold, historyVars, TypeInv, HistoryOK
  <2>9. \A u \in Payouts, d \in Captains : u # t \/ d # c => hold'[u][d] = hold[u][d]
    BY <1>45, <2>1
    DEF ReleaseCancelled, ReleaseHold, historyVars, TypeInv, HistoryOK
  <2>10. PICK i \in Int, j \in Int, k \in Int : i = -1 /\ j = 0 /\ k = -1 /\ i = j + k
    OBVIOUS
  <2>11. Books(w, t, c, i, j, k)
    BY <2>3, <2>4, <2>7, <2>8, <2>10 DEF Books
  <2>12. Moves(w, t, c, i, j, k)
    BY <1>45, <2>2, <2>5, <2>6, <2>9, <2>11
    DEF ReleaseCancelled, ReleaseHold, faultVars, Moves
  <2> QED
    BY <2>10, <2>12, MovesMatch
<1>46. ASSUME NEW w \in Workers, CompleteReimburse(w)
      PROVE  HoldsMatchHolders'
  <2>1. PICK t \in Payouts, c \in Captains : t = jobs[w].t /\ c = jobs[w].c
    BY <1>46
    DEF CompleteReimburse, ReimburseCaptain, At, TypeInv, JobsInv, JobsOK,
        Job, CaptainPcs, ClaimingPcs, CopiesAgree, JobAgrees
  <2>2. \A v \in Workers \ {w} : jobs'[v] = jobs[v]
    BY <1>46, <2>1
    DEF CompleteReimburse, ReimburseCaptain, Begin, Goto, Finish, Idle, Read,
        TypeInv, JobsInv, JobsOK, Job, At
  <2>3. Holding(t, c)' = Holding(t, c)
    BY <1>46, <2>1
    DEF CompleteReimburse, ReimburseCaptain, Holding, TypeInv, RowOK, rowVars,
        rowButStatus, DMC_HELD_STATES, CLAIMABLE_STATES, JobsInv, JobFromOK,
        At
  <2>4. Carry(w, t, c) = 1 /\ Carry(w, t, c)' = 0
    BY <1>46, <2>1, ConstantsAssumption
    DEF CompleteReimburse, ReimburseCaptain, Carry, Carries, Begin, Goto,
        Finish, Idle, Read, TypeInv, JobsInv, JobsOK, Job, At
  <2>5. \A u \in Payouts, d \in Captains : u # t \/ d # c => Holding(u, d)' = Holding(u, d)
    BY <1>46, <2>1, ConstantsAssumption
    DEF CompleteReimburse, ReimburseCaptain, Holding, TypeInv, RowOK, rowVars,
        rowButStatus, DMC_HELD_STATES, CLAIMABLE_STATES, JobsInv, JobFromOK,
        At
  <2>6. \A u \in Payouts, d \in Captains : u # t \/ d # c => Carry(w, u, d)' = Carry(w, u, d)
    BY <1>46, <2>1
    DEF CompleteReimburse, ReimburseCaptain, Carry, Carries, Begin, Goto,
        Finish, Idle, Read, TypeInv, JobsInv, JobsOK, Job, At
  <2>7. PICK h \in Int, x \in Int : h = hold[t][c] /\ x = Holding(t, c)
    BY DEF TypeInv, HistoryOK, Holding
  <2>8. hold'[t][c] = h + (-1)
    BY <1>46, <2>1, <2>7
    DEF CompleteReimburse, ReimburseCaptain, historyVars, TypeInv, HistoryOK
  <2>9. \A u \in Payouts, d \in Captains : u # t \/ d # c => hold'[u][d] = hold[u][d]
    BY <1>46, <2>1
    DEF CompleteReimburse, ReimburseCaptain, historyVars, TypeInv, HistoryOK
  <2>10. PICK i \in Int, j \in Int, k \in Int : i = -1 /\ j = 0 /\ k = -1 /\ i = j + k
    OBVIOUS
  <2>11. Books(w, t, c, i, j, k)
    BY <2>3, <2>4, <2>7, <2>8, <2>10 DEF Books
  <2>12. Moves(w, t, c, i, j, k)
    BY <1>46, <2>2, <2>5, <2>6, <2>9, <2>11
    DEF CompleteReimburse, ReimburseCaptain, faultVars, Moves
  <2> QED
    BY <2>10, <2>12, MovesMatch
<1>47. ASSUME NEW w \in Workers, CompleteInTransaction(w)
      PROVE  HoldsMatchHolders'
  <2>1. PICK t \in Payouts, c \in Captains : t = jobs[w].t /\ c = jobs[w].c
    BY <1>47
    DEF CompleteInTransaction, MarkCompleted, ReimburseCaptain, At, TypeInv,
        JobsInv, JobsOK, Job, CaptainPcs, ClaimingPcs, CopiesAgree, JobAgrees
  <2>2. captainId[t] = c
    BY <1>47, <2>1, ConstantsAssumption
    DEF CompleteInTransaction, MarkCompleted, ReimburseCaptain, HoldersKnown,
        CopyNamesHolder, DecidingPcs, TypeInv, HasCaptain, JobsInv, JobFromOK,
        At, DMC_HELD_STATES
  <2>3. \A v \in Workers \ {w} : jobs'[v] = jobs[v]
    BY <1>47, <2>1, <2>2
    DEF CompleteInTransaction, MarkCompleted, ReimburseCaptain, Begin, Goto,
        Finish, Idle, Read, TypeInv, JobsInv, JobsOK, Job, At
  <2>4. Holding(t, c) = 1 /\ Holding(t, c)' = 0
    BY <1>47, <2>1, <2>2, ConstantsAssumption
    DEF CompleteInTransaction, MarkCompleted, ReimburseCaptain, Holding,
        TypeInv, RowOK, rowVars, rowButStatus, DMC_HELD_STATES,
        CLAIMABLE_STATES, JobsInv, JobFromOK, At
  <2>5. Carry(w, t, c) = 0 /\ Carry(w, t, c)' = 0
    BY <1>47, <2>1, <2>2
    DEF CompleteInTransaction, MarkCompleted, ReimburseCaptain, Carry,
        Carries, Begin, Goto, Finish, Idle, Read, TypeInv, JobsInv, JobsOK,
        Job, At
  <2>6. \A u \in Payouts, d \in Captains : u # t \/ d # c => Holding(u, d)' = Holding(u, d)
    BY <1>47, <2>1, <2>2, ConstantsAssumption
    DEF CompleteInTransaction, MarkCompleted, ReimburseCaptain, Holding,
        TypeInv, RowOK, rowVars, rowButStatus, DMC_HELD_STATES,
        CLAIMABLE_STATES, JobsInv, JobFromOK, At
  <2>7. \A u \in Payouts, d \in Captains : u # t \/ d # c => Carry(w, u, d)' = Carry(w, u, d)
    BY <1>47, <2>1, <2>2
    DEF CompleteInTransaction, MarkCompleted, ReimburseCaptain, Carry,
        Carries, Begin, Goto, Finish, Idle, Read, TypeInv, JobsInv, JobsOK,
        Job, At
  <2>8. PICK h \in Int, x \in Int : h = hold[t][c] /\ x = Holding(t, c)
    BY DEF TypeInv, HistoryOK, Holding
  <2>9. hold'[t][c] = h + (-1)
    BY <1>47, <2>1, <2>2, <2>8
    DEF CompleteInTransaction, MarkCompleted, ReimburseCaptain, historyVars,
        TypeInv, HistoryOK
  <2>10. \A u \in Payouts, d \in Captains : u # t \/ d # c => hold'[u][d] = hold[u][d]
    BY <1>47, <2>1, <2>2
    DEF CompleteInTransaction, MarkCompleted, ReimburseCaptain, historyVars,
        TypeInv, HistoryOK
  <2>11. PICK i \in Int, j \in Int, k \in Int : i = -1 /\ j = -1 /\ k = 0 /\ i = j + k
    OBVIOUS
  <2>12. Books(w, t, c, i, j, k)
    BY <2>4, <2>5, <2>8, <2>9, <2>11 DEF Books
  <2>13. Moves(w, t, c, i, j, k)
    BY <1>47, <2>3, <2>6, <2>7, <2>10, <2>12
    DEF CompleteInTransaction, MarkCompleted, ReimburseCaptain, faultVars,
        Moves
  <2> QED
    BY <2>11, <2>13, MovesMatch
<1>48. ASSUME NEW w \in Workers, CompleteWrite(w)
      PROVE  HoldsMatchHolders'
  <2>1. PICK t \in Payouts, c \in Captains : t = jobs[w].t /\ c = jobs[w].c
    BY <1>48
    DEF CompleteWrite, MarkCompleted, At, TypeInv, JobsInv, JobsOK, Job,
        CaptainPcs, ClaimingPcs, CopiesAgree, JobAgrees
  <2>2. captainId[t] = c
    BY <1>48, <2>1, ConstantsAssumption
    DEF CompleteWrite, MarkCompleted, HoldersKnown, CopyNamesHolder,
        DecidingPcs, TypeInv, HasCaptain, JobsInv, JobFromOK, At,
        DMC_HELD_STATES
  <2>3. \A v \in Workers \ {w} : jobs'[v] = jobs[v]
    BY <1>48, <2>1, <2>2
    DEF CompleteWrite, MarkCompleted, Begin, Goto, Finish, Idle, Read,
        TypeInv, JobsInv, JobsOK, Job, At
  <2>4. Holding(t, c) = 1 /\ Holding(t, c)' = 0
    BY <1>48, <2>1, <2>2, ConstantsAssumption
    DEF CompleteWrite, MarkCompleted, Holding, TypeInv, RowOK, rowVars,
        rowButStatus, DMC_HELD_STATES, CLAIMABLE_STATES, JobsInv, JobFromOK,
        At
  <2>5. Carry(w, t, c) = 0 /\ Carry(w, t, c)' = 1
    BY <1>48, <2>1, <2>2, ConstantsAssumption
    DEF CompleteWrite, MarkCompleted, Carry, Carries, Begin, Goto, Finish,
        Idle, Read, TypeInv, JobsInv, JobsOK, Job, At
  <2>6. \A u \in Payouts, d \in Captains : u # t \/ d # c => Holding(u, d)' = Holding(u, d)
    BY <1>48, <2>1, <2>2, ConstantsAssumption
    DEF CompleteWrite, MarkCompleted, Holding, TypeInv, RowOK, rowVars,
        rowButStatus, DMC_HELD_STATES, CLAIMABLE_STATES, JobsInv, JobFromOK,
        At
  <2>7. \A u \in Payouts, d \in Captains : u # t \/ d # c => Carry(w, u, d)' = Carry(w, u, d)
    BY <1>48, <2>1, <2>2
    DEF CompleteWrite, MarkCompleted, Carry, Carries, Begin, Goto, Finish,
        Idle, Read, TypeInv, JobsInv, JobsOK, Job, At
  <2>8. PICK h \in Int, x \in Int : h = hold[t][c] /\ x = Holding(t, c)
    BY DEF TypeInv, HistoryOK, Holding
  <2>9. hold'[t][c] = h + (0)
    BY <1>48, <2>1, <2>2, <2>8
    DEF CompleteWrite, MarkCompleted, historyVars, TypeInv, HistoryOK
  <2>10. \A u \in Payouts, d \in Captains : u # t \/ d # c => hold'[u][d] = hold[u][d]
    BY <1>48, <2>1, <2>2
    DEF CompleteWrite, MarkCompleted, historyVars, TypeInv, HistoryOK
  <2>11. PICK i \in Int, j \in Int, k \in Int : i = 0 /\ j = -1 /\ k = 1 /\ i = j + k
    OBVIOUS
  <2>12. Books(w, t, c, i, j, k)
    BY <2>4, <2>5, <2>8, <2>9, <2>11 DEF Books
  <2>13. Moves(w, t, c, i, j, k)
    BY <1>48, <2>3, <2>6, <2>7, <2>10, <2>12
    DEF CompleteWrite, MarkCompleted, faultVars, Moves
  <2> QED
    BY <2>11, <2>13, MovesMatch
<1>49. ASSUME NEW w \in Workers, ReassignWrite(w)
      PROVE  HoldsMatchHolders'
  <2>1. PICK t \in Payouts, c \in Captains : t = jobs[w].t /\ c = jobs[w].c
    BY <1>49
    DEF ReassignWrite, ReturnToPool, At, TypeInv, JobsInv, JobsOK, Job,
        CaptainPcs, ClaimingPcs, CopiesAgree, JobAgrees
  <2>2. captainId[t] = c
    BY <1>49, <2>1, ConstantsAssumption
    DEF ReassignWrite, ReturnToPool, HoldersKnown, CopyNamesHolder,
        DecidingPcs, TypeInv, HasCaptain, JobsInv, JobFromOK, At,
        DMC_HELD_STATES
  <2>3. \A v \in Workers \ {w} : jobs'[v] = jobs[v]
    BY <1>49, <2>1, <2>2
    DEF ReassignWrite, ReturnToPool, Begin, Goto, Finish, Idle, Read, TypeInv,
        JobsInv, JobsOK, Job, At
  <2>4. Holding(t, c) = 1 /\ Holding(t, c)' = 0
    BY <1>49, <2>1, <2>2, ConstantsAssumption
    DEF ReassignWrite, ReturnToPool, Holding, TypeInv, RowOK, rowVars,
        rowButStatus, DMC_HELD_STATES, CLAIMABLE_STATES, JobsInv, JobFromOK,
        At
  <2>5. Carry(w, t, c) = 0 /\ Carry(w, t, c)' = 1
    BY <1>49, <2>1, <2>2, ConstantsAssumption
    DEF ReassignWrite, ReturnToPool, Carry, Carries, Begin, Goto, Finish,
        Idle, Read, TypeInv, JobsInv, JobsOK, Job, At
  <2>6. \A u \in Payouts, d \in Captains : u # t \/ d # c => Holding(u, d)' = Holding(u, d)
    BY <1>49, <2>1, <2>2, ConstantsAssumption
    DEF ReassignWrite, ReturnToPool, Holding, TypeInv, RowOK, rowVars,
        rowButStatus, DMC_HELD_STATES, CLAIMABLE_STATES, JobsInv, JobFromOK,
        At
  <2>7. \A u \in Payouts, d \in Captains : u # t \/ d # c => Carry(w, u, d)' = Carry(w, u, d)
    BY <1>49, <2>1, <2>2
    DEF ReassignWrite, ReturnToPool, Carry, Carries, Begin, Goto, Finish,
        Idle, Read, TypeInv, JobsInv, JobsOK, Job, At
  <2>8. PICK h \in Int, x \in Int : h = hold[t][c] /\ x = Holding(t, c)
    BY DEF TypeInv, HistoryOK, Holding
  <2>9. hold'[t][c] = h + (0)
    BY <1>49, <2>1, <2>2, <2>8
    DEF ReassignWrite, ReturnToPool, historyVars, TypeInv, HistoryOK
  <2>10. \A u \in Payouts, d \in Captains : u # t \/ d # c => hold'[u][d] = hold[u][d]
    BY <1>49, <2>1, <2>2
    DEF ReassignWrite, ReturnToPool, historyVars, TypeInv, HistoryOK
  <2>11. PICK i \in Int, j \in Int, k \in Int : i = 0 /\ j = -1 /\ k = 1 /\ i = j + k
    OBVIOUS
  <2>12. Books(w, t, c, i, j, k)
    BY <2>4, <2>5, <2>8, <2>9, <2>11 DEF Books
  <2>13. Moves(w, t, c, i, j, k)
    BY <1>49, <2>3, <2>6, <2>7, <2>10, <2>12
    DEF ReassignWrite, ReturnToPool, faultVars, Moves
  <2> QED
    BY <2>11, <2>13, MovesMatch
<1>50. ASSUME NEW w \in Workers, ExpireWrite(w)
      PROVE  HoldsMatchHolders'
  <2>1. PICK t \in Payouts, c \in Captains : t = jobs[w].t /\ c = jobs[w].c
    BY <1>50
    DEF ExpireWrite, At, TypeInv, JobsInv, JobsOK, Job, CaptainPcs,
        ClaimingPcs, CopiesAgree, JobAgrees
  <2>2. captainId[t] = c
    BY <1>50, <2>1, ConstantsAssumption
    DEF ExpireWrite, HoldersKnown, CopyNamesHolder, DecidingPcs, TypeInv,
        HasCaptain, JobsInv, JobFromOK, At, DMC_HELD_STATES
  <2>3. \A v \in Workers \ {w} : jobs'[v] = jobs[v]
    BY <1>50, <2>1, <2>2
    DEF ExpireWrite, Begin, Goto, Finish, Idle, Read, TypeInv, JobsInv,
        JobsOK, Job, At
  <2>4. Holding(t, c) = 1 /\ Holding(t, c)' = 0
    BY <1>50, <2>1, <2>2, ConstantsAssumption
    DEF ExpireWrite, Holding, TypeInv, RowOK, rowVars, rowButStatus,
        DMC_HELD_STATES, CLAIMABLE_STATES, JobsInv, JobFromOK, At
  <2>5. Carry(w, t, c) = 0 /\ Carry(w, t, c)' = 1
    BY <1>50, <2>1, <2>2, ConstantsAssumption
    DEF ExpireWrite, Carry, Carries, Begin, Goto, Finish, Idle, Read, TypeInv,
        JobsInv, JobsOK, Job, At
  <2>6. \A u \in Payouts, d \in Captains : u # t \/ d # c => Holding(u, d)' = Holding(u, d)
    BY <1>50, <2>1, <2>2, ConstantsAssumption
    DEF ExpireWrite, Holding, TypeInv, RowOK, rowVars, rowButStatus,
        DMC_HELD_STATES, CLAIMABLE_STATES, JobsInv, JobFromOK, At
  <2>7. \A u \in Payouts, d \in Captains : u # t \/ d # c => Carry(w, u, d)' = Carry(w, u, d)
    BY <1>50, <2>1, <2>2
    DEF ExpireWrite, Carry, Carries, Begin, Goto, Finish, Idle, Read, TypeInv,
        JobsInv, JobsOK, Job, At
  <2>8. PICK h \in Int, x \in Int : h = hold[t][c] /\ x = Holding(t, c)
    BY DEF TypeInv, HistoryOK, Holding
  <2>9. hold'[t][c] = h + (0)
    BY <1>50, <2>1, <2>2, <2>8
    DEF ExpireWrite, historyVars, TypeInv, HistoryOK
  <2>10. \A u \in Payouts, d \in Captains : u # t \/ d # c => hold'[u][d] = hold[u][d]
    BY <1>50, <2>1, <2>2 DEF ExpireWrite, historyVars, TypeInv, HistoryOK
  <2>11. PICK i \in Int, j \in Int, k \in Int : i = 0 /\ j = -1 /\ k = 1 /\ i = j + k
    OBVIOUS
  <2>12. Books(w, t, c, i, j, k)
    BY <2>4, <2>5, <2>8, <2>9, <2>11 DEF Books
  <2>13. Moves(w, t, c, i, j, k)
    BY <1>50, <2>3, <2>6, <2>7, <2>10, <2>12 DEF ExpireWrite, faultVars, Moves
  <2> QED
    BY <2>11, <2>13, MovesMatch
<1>51. ASSUME NEW w \in Workers, NEW t \in Payouts, ApproveCancellation(w, t)
      PROVE  HoldsMatchHolders'
  <2>1. PICK c \in Captains : c = captainId[t]
    BY <1>51 DEF ApproveCancellation, TypeInv, HasCaptain, DMC_HELD_STATES
  <2>2. \A v \in Workers \ {w} : jobs'[v] = jobs[v]
    BY <1>51, <2>1
    DEF ApproveCancellation, Begin, Goto, Finish, Idle, Read, TypeInv,
        JobsInv, JobsOK, Job, At
  <2>3. Holding(t, c) = 1 /\ Holding(t, c)' = 0
    BY <1>51, <2>1, ConstantsAssumption
    DEF ApproveCancellation, Holding, TypeInv, RowOK, rowVars, rowButStatus,
        DMC_HELD_STATES, CLAIMABLE_STATES, JobsInv, JobFromOK, At
  <2>4. Carry(w, t, c) = 0 /\ Carry(w, t, c)' = 1
    BY <1>51, <2>1, ConstantsAssumption
    DEF ApproveCancellation, Carry, Carries, Begin, Goto, Finish, Idle, Read,
        TypeInv, JobsInv, JobsOK, Job, At
  <2>5. \A u \in Payouts, d \in Captains : u # t \/ d # c => Holding(u, d)' = Holding(u, d)
    BY <1>51, <2>1, ConstantsAssumption
    DEF ApproveCancellation, Holding, TypeInv, RowOK, rowVars, rowButStatus,
        DMC_HELD_STATES, CLAIMABLE_STATES, JobsInv, JobFromOK, At
  <2>6. \A u \in Payouts, d \in Captains : u # t \/ d # c => Carry(w, u, d)' = Carry(w, u, d)
    BY <1>51, <2>1
    DEF ApproveCancellation, Carry, Carries, Begin, Goto, Finish, Idle, Read,
        TypeInv, JobsInv, JobsOK, Job, At
  <2>7. PICK h \in Int, x \in Int : h = hold[t][c] /\ x = Holding(t, c)
    BY DEF TypeInv, HistoryOK, Holding
  <2>8. hold'[t][c] = h + (0)
    BY <1>51, <2>1, <2>7
    DEF ApproveCancellation, historyVars, TypeInv, HistoryOK
  <2>9. \A u \in Payouts, d \in Captains : u # t \/ d # c => hold'[u][d] = hold[u][d]
    BY <1>51, <2>1 DEF ApproveCancellation, historyVars, TypeInv, HistoryOK
  <2>10. PICK i \in Int, j \in Int, k \in Int : i = 0 /\ j = -1 /\ k = 1 /\ i = j + k
    OBVIOUS
  <2>11. Books(w, t, c, i, j, k)
    BY <2>3, <2>4, <2>7, <2>8, <2>10 DEF Books
  <2>12. Moves(w, t, c, i, j, k)
    BY <1>51, <2>2, <2>5, <2>6, <2>9, <2>11
    DEF ApproveCancellation, faultVars, Moves
  <2> QED
    BY <2>10, <2>12, MovesMatch
<1> QED
  BY <1>1, <1>2, <1>3, <1>4, <1>5, <1>6, <1>7, <1>8, <1>9, <1>10, <1>11,
     <1>12, <1>13, <1>14, <1>15, <1>16, <1>17, <1>18, <1>19, <1>20, <1>21,
     <1>22, <1>23, <1>24, <1>25, <1>26, <1>27, <1>28, <1>29, <1>30, <1>31,
     <1>32, <1>33, <1>34, <1>35, <1>36, <1>37, <1>38, <1>39, <1>40, <1>41,
     <1>42, <1>43, <1>44, <1>45, <1>46, <1>47, <1>48, <1>49, <1>50, <1>51,
     StillMatch, KeepsHoldsIsStill
  DEF Next, Request, Decision, Sweep, JobStep, ConfirmReceived,
      ConfirmNotReceived, AutoApproveOnTimeout, CancelStale, RejectExpired,
      ReclaimExpired, Workers

\* What is carried is forgotten when the process stops; what is held is not.
LEMMA CrashStrands ==
  ASSUME TypeInv, HoldsMatchHolders, Crash
  PROVE  HoldsMatchHolders'
<1>1. crashes' # 0 /\ UNCHANGED <<hold, captainId, status>>
  BY DEF Crash, TypeInv, HistoryOK, rowVars, rowButStatus, historyVars
<1>2. ASSUME NEW t \in Payouts, NEW c \in Captains
      PROVE  Matches(t, c)'
  <2> DEFINE g == [w \in Workers |-> Carry(w, t, c)']
  <2>1. \A w \in Workers : g[w] = 0
    BY DEF Crash, Idle, Carry, Carries
  <2>2. Carried(t, c)' = 0
    <3>1. Total(g, Workers) = Carried(t, c)'
      BY DEF Carried
    <3> QED
      BY <2>1, <3>1, FiniteAssumption, TotalZero
  <2>3. Holding(t, c)' = Holding(t, c)
    BY <1>1 DEF Holding
  <2>4. PICK h \in Int, x \in Int, y \in Nat : h = hold[t][c] /\ x = Holding(t, c) /\ y = Carried(t, c)
    <3>1. hold[t][c] \in Int
      BY DEF TypeInv, HistoryOK
    <3>2. Holding(t, c) \in Int
      BY DEF Holding
    <3> QED
      BY <3>1, <3>2, CarriedIsNat
  <2>5. h >= x + y
    <3>1. DueOn(t, c) = x + y
      BY <2>4, DueIs
    <3>2. h = DueOn(t, c) \/ h >= DueOn(t, c)
      BY <2>4 DEF HoldsMatchHolders
    <3> QED
      BY <3>1, <3>2
  <2>6. (DueOn(t, c) = Holding(t, c) + Carried(t, c))'
    BY DueIs, PTL
  <2>7. hold'[t][c] = h /\ DueOn(t, c)' = x + 0
    BY <1>1, <2>2, <2>3, <2>4, <2>6
  <2>8. h >= x + 0
    BY <2>5
  <2> QED
    BY <1>1, <2>7, <2>8 DEF Matches
<1> QED
  BY <1>2 DEF HoldsMatchHolders, Matches

LEMMA HoldersInit ==
  ASSUME Init
  PROVE  HoldersKnown /\ HoldsMatchHolders
<1>1. HoldersKnown
  BY DEF Init, HoldersKnown, CopyNamesHolder, DecidingPcs, Idle
<1>2. ASSUME NEW t \in Payouts, NEW c \in Captains
      PROVE  Matches(t, c)
  <2> DEFINE g == [w \in Workers |-> Carry(w, t, c)]
  <2>1. \A w \in Workers : g[w] = 0
    BY DEF Init, Idle, Carry, Carries
  <2>2. Carried(t, c) = 0
    <3>1. Total(g, Workers) = Carried(t, c)
      BY DEF Carried
    <3> QED
      BY <2>1, <3>1, FiniteAssumption, TotalZero
  <2>3. Holding(t, c) = 0
    BY DEF Init, Holding, DMC_HELD_STATES
  <2>4. DueOn(t, c) = 0
    BY <2>2, <2>3, DueIs
  <2> QED
    BY <2>4 DEF Init, Matches
<1> QED
  BY <1>1, <1>2 DEF HoldsMatchHolders, Matches

\* As long as no payout changes hands under a request that has read it, what
\* is held from a captain is what they owe for the payouts they hold and what
\* a running request carries for them; a stopped process can only strand it.
THEOREM HoldsFollowHolders ==
  ASSUME PromptRequests
  PROVE  Spec => []HoldsMatchHolders
<1>1. Init => TypeInv /\ CopiesAgree /\ HoldersKnown /\ HoldsMatchHolders
  BY TypeInit, CopiesAgreeInit, HoldersInit
<1>2. TypeInv /\ CopiesAgree /\ HoldersKnown /\ HoldsMatchHolders /\ [Next]_vars
        => CopiesAgree' /\ HoldersKnown' /\ HoldsMatchHolders'
  BY CopiesAgreeStep, HoldersKnownStep, HoldersStep, CrashStrands
<1> QED
  BY <1>1, <1>2, TypeInvariant, PTL DEF Spec

-----------------------------------------------------------------------------
(* Proofs *)

SubmittingPcs == {"proofCreate", "proofQueue"}

\* A submission under way has the row to itself, and has stored the proof it
\* queues for audit; nobody holds a payout whose proof is being superseded.
SubmissionOK(w) ==
  /\ jobs[w].pc \in SubmittingPcs =>
       status[jobs[w].t] = "PROOF_SUBMITTED" /\ captainId[jobs[w].t] = jobs[w].c
  /\ jobs[w].pc = "proofQueue" => liveProof[jobs[w].t] = jobs[w].c
  /\ jobs[w].pc = "supersede" => captainId[jobs[w].t] = None

OneSubmission ==
  \A v, w \in Workers :
    jobs[v].pc \in SubmittingPcs /\ jobs[w].pc \in SubmittingPcs /\ jobs[v].t = jobs[w].t
      => v = w

ProofsInHand ==
  /\ \A w \in Workers : SubmissionOK(w)
  /\ OneSubmission
  /\ ProofStands

LEMMA ProofsStep ==
  ASSUME PromptRequests, TypeInv, CopiesAgree, ProofsInHand, [Next]_vars
  PROVE  ProofsInHand'
<1>1. ASSUME NEW w \in Workers, NEW t \in Payouts,
             CreateDebit(w, t)
      PROVE  ProofsInHand'
  BY <1>1, ConstantsAssumption
  DEF CreateDebit, ProofsInHand, SubmissionOK, OneSubmission, ProofStands,
      SubmittingPcs, TypeInv, JobsInv, JobsOK, JobFromOK, Job, RowOK,
      RecordsOK, At, Begin, Goto, Finish, Idle, Read, rowVars, rowButStatus,
      recordVars, HasCaptain, DMC_HELD_STATES
<1>2. ASSUME NEW w \in Workers,
             CreateInsert(w)
      PROVE  ProofsInHand'
  BY <1>2, ConstantsAssumption
  DEF CreateInsert, ProofsInHand, SubmissionOK, OneSubmission, ProofStands,
      SubmittingPcs, TypeInv, JobsInv, JobsOK, JobFromOK, Job, RowOK,
      RecordsOK, At, Begin, Goto, Finish, Idle, Read, rowVars, rowButStatus,
      recordVars, HasCaptain, DMC_HELD_STATES
<1>3. ASSUME NEW w \in Workers,
             CreateDuplicate(w)
      PROVE  ProofsInHand'
  BY <1>3, ConstantsAssumption
  DEF CreateDuplicate, ProofsInHand, SubmissionOK, OneSubmission, ProofStands,
      SubmittingPcs, TypeInv, JobsInv, JobsOK, JobFromOK, Job, RowOK,
      RecordsOK, At, Begin, Goto, Finish, Idle, Read, rowVars, rowButStatus,
      recordVars, HasCaptain, DMC_HELD_STATES
<1>4. ASSUME NEW w \in Workers,
             CreateRefundDebit(w)
      PROVE  ProofsInHand'
  BY <1>4, ConstantsAssumption
  DEF CreateRefundDebit, ProofsInHand, SubmissionOK, OneSubmission,
      ProofStands, SubmittingPcs, TypeInv, JobsInv, JobsOK, JobFromOK, Job,
      RowOK, RecordsOK, At, Begin, Goto, Finish, Idle, Read, rowVars,
      rowButStatus, recordVars, HasCaptain, DMC_HELD_STATES
<1>5. ASSUME NEW w \in Workers, NEW t \in Payouts, NEW c \in Captains,
             ClaimRead(w, t, c)
      PROVE  ProofsInHand'
  BY <1>5, ConstantsAssumption
  DEF ClaimRead, ProofsInHand, SubmissionOK, OneSubmission, ProofStands,
      SubmittingPcs, TypeInv, JobsInv, JobsOK, JobFromOK, Job, RowOK,
      RecordsOK, At, Begin, Goto, Finish, Idle, Read, rowVars, rowButStatus,
      recordVars, HasCaptain, DMC_HELD_STATES
<1>6. ASSUME NEW w \in Workers, NEW t \in Payouts, NEW c \in Captains,
             ProofRead(w, t, c)
      PROVE  ProofsInHand'
  BY <1>6, ConstantsAssumption
  DEF ProofRead, ProofsInHand, SubmissionOK, OneSubmission, ProofStands,
      SubmittingPcs, TypeInv, JobsInv, JobsOK, JobFromOK, Job, RowOK,
      RecordsOK, At, Begin, Goto, Finish, Idle, Read, rowVars, rowButStatus,
      recordVars, HasCaptain, DMC_HELD_STATES
<1>7. ASSUME NEW w \in Workers,
             ClaimHold(w)
      PROVE  ProofsInHand'
  BY <1>7, ConstantsAssumption
  DEF ClaimHold, TakeHold, WithinCurrentLimit, ProofsInHand, SubmissionOK,
      OneSubmission, ProofStands, SubmittingPcs, TypeInv, JobsInv, JobsOK,
      JobFromOK, Job, RowOK, RecordsOK, At, Begin, Goto, Finish, Idle, Read,
      rowVars, rowButStatus, recordVars, HasCaptain, DMC_HELD_STATES
<1>8. ASSUME NEW w \in Workers,
             ClaimLost(w)
      PROVE  ProofsInHand'
  BY <1>8, ConstantsAssumption
  DEF ClaimLost, ProofsInHand, SubmissionOK, OneSubmission, ProofStands,
      SubmittingPcs, TypeInv, JobsInv, JobsOK, JobFromOK, Job, RowOK,
      RecordsOK, At, Begin, Goto, Finish, Idle, Read, rowVars, rowButStatus,
      recordVars, HasCaptain, DMC_HELD_STATES
<1>9. ASSUME NEW w \in Workers,
             ClaimRefused(w)
      PROVE  ProofsInHand'
  BY <1>9, ConstantsAssumption
  DEF ClaimRefused, ProofsInHand, SubmissionOK, OneSubmission, ProofStands,
      SubmittingPcs, TypeInv, JobsInv, JobsOK, JobFromOK, Job, RowOK,
      RecordsOK, At, Begin, Goto, Finish, Idle, Read, rowVars, rowButStatus,
      recordVars, HasCaptain, DMC_HELD_STATES
<1>10. ASSUME NEW w \in Workers, ClaimInTransaction(w)
      PROVE  ProofsInHand'
  <2>1. PICK t \in Payouts : t = jobs[w].t
    BY <1>10
    DEF ClaimInTransaction, TakeHold, WithinCurrentLimit, AssignTo,
        RepricedShare, At, TypeInv, JobsInv, JobsOK
  <2>2. \A v \in Workers \ {w} : jobs'[v] = jobs[v]
    BY <1>10
    DEF ClaimInTransaction, TakeHold, WithinCurrentLimit, AssignTo,
        RepricedShare, Goto, Finish, TypeInv, JobsInv, JobsOK
  <2>3. ASSUME NEW v \in Workers \ {w}
        PROVE  SubmissionOK(v)'
    BY <1>10, <2>1, <2>2, ConstantsAssumption
    DEF ClaimInTransaction, TakeHold, WithinCurrentLimit, AssignTo,
        RepricedShare, ProofsInHand, SubmissionOK, OneSubmission, ProofStands,
        SubmittingPcs, TypeInv, JobsInv, JobsOK, JobFromOK, Job, RowOK,
        RecordsOK, At, Begin, Goto, Finish, Idle, Read, rowVars, rowButStatus,
        recordVars, HasCaptain, DMC_HELD_STATES, HandsOver, DecidingPcs,
        CLAIMABLE_STATES
  <2>4. SubmissionOK(w)'
    BY <1>10, <2>1, ConstantsAssumption
    DEF ClaimInTransaction, TakeHold, WithinCurrentLimit, AssignTo,
        RepricedShare, ProofsInHand, SubmissionOK, OneSubmission, ProofStands,
        SubmittingPcs, TypeInv, JobsInv, JobsOK, JobFromOK, Job, RowOK,
        RecordsOK, At, Begin, Goto, Finish, Idle, Read, rowVars, rowButStatus,
        recordVars, HasCaptain, DMC_HELD_STATES
  <2>5. OneSubmission'
    <3>1. jobs'[w].pc \in SubmittingPcs =>
            /\ jobs'[w].t = t
            /\ jobs[w].pc \in SubmittingPcs \/ status[t] # "PROOF_SUBMITTED"
      BY <1>10, <2>1
      DEF ClaimInTransaction, TakeHold, WithinCurrentLimit, AssignTo,
          RepricedShare, SubmittingPcs, TypeInv, JobsInv, JobsOK, Job, At,
          Goto, Finish, Idle, Read
    <3> QED
      BY <2>1, <2>2, <3>1 DEF ProofsInHand, SubmissionOK, OneSubmission
  <2>6. ProofStands'
    BY <1>10, <2>1, ConstantsAssumption
    DEF ClaimInTransaction, TakeHold, WithinCurrentLimit, AssignTo,
        RepricedShare, ProofsInHand, SubmissionOK, OneSubmission, ProofStands,
        SubmittingPcs, TypeInv, JobsInv, JobsOK, JobFromOK, Job, RowOK,
        RecordsOK, At, Begin, Goto, Finish, Idle, Read, rowVars, rowButStatus,
        recordVars, HasCaptain, DMC_HELD_STATES
  <2> QED
    BY <2>3, <2>4, <2>5, <2>6 DEF ProofsInHand
<1>11. ASSUME NEW w \in Workers, ClaimWrite(w)
      PROVE  ProofsInHand'
  <2>1. PICK t \in Payouts : t = jobs[w].t
    BY <1>11
    DEF ClaimWrite, AssignTo, RepricedShare, At, TypeInv, JobsInv, JobsOK
  <2>2. \A v \in Workers \ {w} : jobs'[v] = jobs[v]
    BY <1>11
    DEF ClaimWrite, AssignTo, RepricedShare, Goto, Finish, TypeInv, JobsInv,
        JobsOK
  <2>3. ASSUME NEW v \in Workers \ {w}
        PROVE  SubmissionOK(v)'
    BY <1>11, <2>1, <2>2, ConstantsAssumption
    DEF ClaimWrite, AssignTo, RepricedShare, ProofsInHand, SubmissionOK,
        OneSubmission, ProofStands, SubmittingPcs, TypeInv, JobsInv, JobsOK,
        JobFromOK, Job, RowOK, RecordsOK, At, Begin, Goto, Finish, Idle, Read,
        rowVars, rowButStatus, recordVars, HasCaptain, DMC_HELD_STATES,
        HandsOver, DecidingPcs, CLAIMABLE_STATES
  <2>4. SubmissionOK(w)'
    BY <1>11, <2>1, ConstantsAssumption
    DEF ClaimWrite, AssignTo, RepricedShare, ProofsInHand, SubmissionOK,
        OneSubmission, ProofStands, SubmittingPcs, TypeInv, JobsInv, JobsOK,
        JobFromOK, Job, RowOK, RecordsOK, At, Begin, Goto, Finish, Idle, Read,
        rowVars, rowButStatus, recordVars, HasCaptain, DMC_HELD_STATES
  <2>5. OneSubmission'
    <3>1. jobs'[w].pc \in SubmittingPcs =>
            /\ jobs'[w].t = t
            /\ jobs[w].pc \in SubmittingPcs \/ status[t] # "PROOF_SUBMITTED"
      BY <1>11, <2>1
      DEF ClaimWrite, AssignTo, RepricedShare, SubmittingPcs, TypeInv,
          JobsInv, JobsOK, Job, At, Goto, Finish, Idle, Read
    <3> QED
      BY <2>1, <2>2, <3>1 DEF ProofsInHand, SubmissionOK, OneSubmission
  <2>6. ProofStands'
    BY <1>11, <2>1, ConstantsAssumption
    DEF ClaimWrite, AssignTo, RepricedShare, ProofsInHand, SubmissionOK,
        OneSubmission, ProofStands, SubmittingPcs, TypeInv, JobsInv, JobsOK,
        JobFromOK, Job, RowOK, RecordsOK, At, Begin, Goto, Finish, Idle, Read,
        rowVars, rowButStatus, recordVars, HasCaptain, DMC_HELD_STATES
  <2> QED
    BY <2>3, <2>4, <2>5, <2>6 DEF ProofsInHand
<1>12. ASSUME NEW w \in Workers, ProofClaim(w)
      PROVE  ProofsInHand'
  <2>1. PICK t \in Payouts : t = jobs[w].t
    BY <1>12 DEF ProofClaim, At, TypeInv, JobsInv, JobsOK
  <2>2. \A v \in Workers \ {w} : jobs'[v] = jobs[v]
    BY <1>12 DEF ProofClaim, Goto, Finish, TypeInv, JobsInv, JobsOK
  <2>3. ASSUME NEW v \in Workers \ {w}
        PROVE  SubmissionOK(v)'
    BY <1>12, <2>1, <2>2, ConstantsAssumption
    DEF ProofClaim, ProofsInHand, SubmissionOK, OneSubmission, ProofStands,
        SubmittingPcs, TypeInv, JobsInv, JobsOK, JobFromOK, Job, RowOK,
        RecordsOK, At, Begin, Goto, Finish, Idle, Read, rowVars, rowButStatus,
        recordVars, HasCaptain, DMC_HELD_STATES
  <2>4. SubmissionOK(w)'
    <3>1. \/ /\ jobs'[w].pc = "proofCreate" /\ jobs'[w].t = t /\ jobs'[w].c = jobs[w].c
             /\ status'[t] = "PROOF_SUBMITTED" /\ captainId'[t] = jobs[w].c
          \/ jobs'[w].pc = "idle"
      BY <1>12, <2>1
      DEF ProofClaim, ProofsInHand, SubmissionOK, OneSubmission, ProofStands,
          SubmittingPcs, TypeInv, JobsInv, JobsOK, JobFromOK, Job, RowOK,
          RecordsOK, At, Begin, Goto, Finish, Idle, Read, rowVars,
          rowButStatus, recordVars, HasCaptain, DMC_HELD_STATES
    <3> QED
      BY <3>1 DEF SubmissionOK, SubmittingPcs
  <2>5. OneSubmission'
    <3>1. jobs'[w].pc \in SubmittingPcs =>
            /\ jobs'[w].t = t
            /\ jobs[w].pc \in SubmittingPcs \/ status[t] # "PROOF_SUBMITTED"
      BY <1>12, <2>1
      DEF ProofClaim, SubmittingPcs, TypeInv, JobsInv, JobsOK, Job, At, Goto,
          Finish, Idle, Read
    <3> QED
      BY <2>1, <2>2, <3>1 DEF ProofsInHand, SubmissionOK, OneSubmission
  <2>6. ProofStands'
    BY <1>12, <2>1, ConstantsAssumption
    DEF ProofClaim, ProofsInHand, SubmissionOK, OneSubmission, ProofStands,
        SubmittingPcs, TypeInv, JobsInv, JobsOK, JobFromOK, Job, RowOK,
        RecordsOK, At, Begin, Goto, Finish, Idle, Read, rowVars, rowButStatus,
        recordVars, HasCaptain, DMC_HELD_STATES
  <2> QED
    BY <2>3, <2>4, <2>5, <2>6 DEF ProofsInHand
<1>13. ASSUME NEW w \in Workers, ProofCreate(w)
      PROVE  ProofsInHand'
  <2>1. PICK t \in Payouts : t = jobs[w].t
    BY <1>13 DEF ProofCreate, At, TypeInv, JobsInv, JobsOK
  <2>2. \A v \in Workers \ {w} : jobs'[v] = jobs[v]
    BY <1>13 DEF ProofCreate, Goto, Finish, TypeInv, JobsInv, JobsOK
  <2>3. ASSUME NEW v \in Workers \ {w}
        PROVE  SubmissionOK(v)'
    BY <1>13, <2>1, <2>2, ConstantsAssumption
    DEF ProofCreate, ProofsInHand, SubmissionOK, OneSubmission, ProofStands,
        SubmittingPcs, TypeInv, JobsInv, JobsOK, JobFromOK, Job, RowOK,
        RecordsOK, At, Begin, Goto, Finish, Idle, Read, rowVars, rowButStatus,
        recordVars, HasCaptain, DMC_HELD_STATES
  <2>4. SubmissionOK(w)'
    <3>1. \/ /\ jobs'[w].pc = "proofQueue" /\ jobs'[w].t = t /\ jobs'[w].c = jobs[w].c
             /\ status'[t] = "PROOF_SUBMITTED" /\ captainId'[t] = jobs[w].c
             /\ liveProof'[t] = jobs[w].c
          \/ jobs'[w].pc = "idle"
      BY <1>13, <2>1
      DEF ProofCreate, ProofsInHand, SubmissionOK, OneSubmission, ProofStands,
          SubmittingPcs, TypeInv, JobsInv, JobsOK, JobFromOK, Job, RowOK,
          RecordsOK, At, Begin, Goto, Finish, Idle, Read, rowVars,
          rowButStatus, recordVars, HasCaptain, DMC_HELD_STATES
    <3> QED
      BY <3>1 DEF SubmissionOK, SubmittingPcs
  <2>5. OneSubmission'
    <3>1. jobs'[w].pc \in SubmittingPcs =>
            /\ jobs'[w].t = t
            /\ jobs[w].pc \in SubmittingPcs \/ status[t] # "PROOF_SUBMITTED"
      BY <1>13, <2>1
      DEF ProofCreate, SubmittingPcs, TypeInv, JobsInv, JobsOK, Job, At, Goto,
          Finish, Idle, Read
    <3> QED
      BY <2>1, <2>2, <3>1 DEF ProofsInHand, SubmissionOK, OneSubmission
  <2>6. ProofStands'
    BY <1>13, <2>1, ConstantsAssumption
    DEF ProofCreate, ProofsInHand, SubmissionOK, OneSubmission, ProofStands,
        SubmittingPcs, TypeInv, JobsInv, JobsOK, JobFromOK, Job, RowOK,
        RecordsOK, At, Begin, Goto, Finish, Idle, Read, rowVars, rowButStatus,
        recordVars, HasCaptain, DMC_HELD_STATES
  <2> QED
    BY <2>3, <2>4, <2>5, <2>6 DEF ProofsInHand
<1>14. ASSUME NEW w \in Workers, ProofQueue(w)
      PROVE  ProofsInHand'
  <2>1. PICK t \in Payouts : t = jobs[w].t
    BY <1>14 DEF ProofQueue, At, TypeInv, JobsInv, JobsOK
  <2>2. \A v \in Workers \ {w} : jobs'[v] = jobs[v]
    BY <1>14 DEF ProofQueue, Goto, Finish, TypeInv, JobsInv, JobsOK
  <2>3. ASSUME NEW v \in Workers \ {w}
        PROVE  SubmissionOK(v)'
    BY <1>14, <2>1, <2>2, ConstantsAssumption
    DEF ProofQueue, ProofsInHand, SubmissionOK, OneSubmission, ProofStands,
        SubmittingPcs, TypeInv, JobsInv, JobsOK, JobFromOK, Job, RowOK,
        RecordsOK, At, Begin, Goto, Finish, Idle, Read, rowVars, rowButStatus,
        recordVars, HasCaptain, DMC_HELD_STATES
  <2>4. SubmissionOK(w)'
    BY <1>14, <2>1, ConstantsAssumption
    DEF ProofQueue, ProofsInHand, SubmissionOK, OneSubmission, ProofStands,
        SubmittingPcs, TypeInv, JobsInv, JobsOK, JobFromOK, Job, RowOK,
        RecordsOK, At, Begin, Goto, Finish, Idle, Read, rowVars, rowButStatus,
        recordVars, HasCaptain, DMC_HELD_STATES
  <2>5. OneSubmission'
    <3>1. jobs'[w].pc \in SubmittingPcs =>
            /\ jobs'[w].t = t
            /\ jobs[w].pc \in SubmittingPcs \/ status[t] # "PROOF_SUBMITTED"
      BY <1>14, <2>1
      DEF ProofQueue, SubmittingPcs, TypeInv, JobsInv, JobsOK, Job, At, Goto,
          Finish, Idle, Read
    <3> QED
      BY <2>1, <2>2, <3>1 DEF ProofsInHand, SubmissionOK, OneSubmission
  <2>6. ProofStands'
    BY <1>14, <2>1, ConstantsAssumption
    DEF ProofQueue, ProofsInHand, SubmissionOK, OneSubmission, ProofStands,
        SubmittingPcs, TypeInv, JobsInv, JobsOK, JobFromOK, Job, RowOK,
        RecordsOK, At, Begin, Goto, Finish, Idle, Read, rowVars, rowButStatus,
        recordVars, HasCaptain, DMC_HELD_STATES
  <2> QED
    BY <2>3, <2>4, <2>5, <2>6 DEF ProofsInHand
<1>15. ASSUME NEW w \in Workers,
             ProofAsk(w)
      PROVE  ProofsInHand'
  BY <1>15, ConstantsAssumption
  DEF ProofAsk, ProofsInHand, SubmissionOK, OneSubmission, ProofStands,
      SubmittingPcs, TypeInv, JobsInv, JobsOK, JobFromOK, Job, RowOK,
      RecordsOK, At, Begin, Goto, Finish, Idle, Read, rowVars, rowButStatus,
      recordVars, HasCaptain, DMC_HELD_STATES
<1>16. ASSUME NEW w \in Workers, NEW t \in Payouts, NEW next \in {"approve", "reject"},
             ClearDeadline(w, t, next)
      PROVE  ProofsInHand'
  BY <1>16, ConstantsAssumption
  DEF ClearDeadline, ProofsInHand, SubmissionOK, OneSubmission, ProofStands,
      SubmittingPcs, TypeInv, JobsInv, JobsOK, JobFromOK, Job, RowOK,
      RecordsOK, At, Begin, Goto, Finish, Idle, Read, rowVars, rowButStatus,
      recordVars, HasCaptain, DMC_HELD_STATES
<1>17. ASSUME NEW w \in Workers, ApproveAfterClear(w)
      PROVE  ProofsInHand'
  <2>1. PICK t \in Payouts : t = jobs[w].t
    BY <1>17 DEF ApproveAfterClear, At, TypeInv, JobsInv, JobsOK
  <2>2. \A v \in Workers \ {w} : jobs'[v] = jobs[v]
    BY <1>17 DEF ApproveAfterClear, Goto, Finish, TypeInv, JobsInv, JobsOK
  <2>3. ASSUME NEW v \in Workers \ {w}
        PROVE  SubmissionOK(v)'
    BY <1>17, <2>1, <2>2, ConstantsAssumption
    DEF ApproveAfterClear, ProofsInHand, SubmissionOK, OneSubmission,
        ProofStands, SubmittingPcs, TypeInv, JobsInv, JobsOK, JobFromOK, Job,
        RowOK, RecordsOK, At, Begin, Goto, Finish, Idle, Read, rowVars,
        rowButStatus, recordVars, HasCaptain, DMC_HELD_STATES
  <2>4. SubmissionOK(w)'
    BY <1>17, <2>1, ConstantsAssumption
    DEF ApproveAfterClear, ProofsInHand, SubmissionOK, OneSubmission,
        ProofStands, SubmittingPcs, TypeInv, JobsInv, JobsOK, JobFromOK, Job,
        RowOK, RecordsOK, At, Begin, Goto, Finish, Idle, Read, rowVars,
        rowButStatus, recordVars, HasCaptain, DMC_HELD_STATES
  <2>5. OneSubmission'
    <3>1. jobs'[w].pc \in SubmittingPcs =>
            /\ jobs'[w].t = t
            /\ jobs[w].pc \in SubmittingPcs \/ status[t] # "PROOF_SUBMITTED"
      BY <1>17, <2>1
      DEF ApproveAfterClear, SubmittingPcs, TypeInv, JobsInv, JobsOK, Job, At,
          Goto, Finish, Idle, Read
    <3> QED
      BY <2>1, <2>2, <3>1 DEF ProofsInHand, SubmissionOK, OneSubmission
  <2>6. ProofStands'
    BY <1>17, <2>1, ConstantsAssumption
    DEF ApproveAfterClear, ProofsInHand, SubmissionOK, OneSubmission,
        ProofStands, SubmittingPcs, TypeInv, JobsInv, JobsOK, JobFromOK, Job,
        RowOK, RecordsOK, At, Begin, Goto, Finish, Idle, Read, rowVars,
        rowButStatus, recordVars, HasCaptain, DMC_HELD_STATES
  <2> QED
    BY <2>3, <2>4, <2>5, <2>6 DEF ProofsInHand
<1>18. ASSUME NEW w \in Workers,
             RejectAfterClear(w)
      PROVE  ProofsInHand'
  BY <1>18, ConstantsAssumption
  DEF RejectAfterClear, MarkRejected, ProofsInHand, SubmissionOK,
      OneSubmission, ProofStands, SubmittingPcs, TypeInv, JobsInv, JobsOK,
      JobFromOK, Job, RowOK, RecordsOK, At, Begin, Goto, Finish, Idle, Read,
      rowVars, rowButStatus, recordVars, HasCaptain, DMC_HELD_STATES
<1>19. ASSUME NEW w \in Workers, NEW t \in Payouts,
             ApproveRead(w, t)
      PROVE  ProofsInHand'
  BY <1>19, ConstantsAssumption
  DEF ApproveRead, ProofsInHand, SubmissionOK, OneSubmission, ProofStands,
      SubmittingPcs, TypeInv, JobsInv, JobsOK, JobFromOK, Job, RowOK,
      RecordsOK, At, Begin, Goto, Finish, Idle, Read, rowVars, rowButStatus,
      recordVars, HasCaptain, DMC_HELD_STATES
<1>20. ASSUME NEW w \in Workers, NEW t \in Payouts,
             OverruleRead(w, t)
      PROVE  ProofsInHand'
  BY <1>20, ConstantsAssumption
  DEF OverruleRead, ProofsInHand, SubmissionOK, OneSubmission, ProofStands,
      SubmittingPcs, TypeInv, JobsInv, JobsOK, JobFromOK, Job, RowOK,
      RecordsOK, At, Begin, Goto, Finish, Idle, Read, rowVars, rowButStatus,
      recordVars, HasCaptain, DMC_HELD_STATES
<1>21. ASSUME NEW w \in Workers, NEW t \in Payouts,
             ReassignRead(w, t)
      PROVE  ProofsInHand'
  BY <1>21, ConstantsAssumption
  DEF ReassignRead, ProofsInHand, SubmissionOK, OneSubmission, ProofStands,
      SubmittingPcs, TypeInv, JobsInv, JobsOK, JobFromOK, Job, RowOK,
      RecordsOK, At, Begin, Goto, Finish, Idle, Read, rowVars, rowButStatus,
      recordVars, HasCaptain, DMC_HELD_STATES
<1>22. ASSUME NEW w \in Workers, CompleteInTransaction(w)
      PROVE  ProofsInHand'
  <2>1. PICK t \in Payouts : t = jobs[w].t
    BY <1>22
    DEF CompleteInTransaction, MarkCompleted, CreditCommission,
        ReimburseCaptain, AllocationOwners, At, TypeInv, JobsInv, JobsOK
  <2>2. \A v \in Workers \ {w} : jobs'[v] = jobs[v]
    BY <1>22
    DEF CompleteInTransaction, MarkCompleted, CreditCommission,
        ReimburseCaptain, AllocationOwners, Goto, Finish, TypeInv, JobsInv,
        JobsOK
  <2>3. ASSUME NEW v \in Workers \ {w}
        PROVE  SubmissionOK(v)'
    BY <1>22, <2>1, <2>2, ConstantsAssumption
    DEF CompleteInTransaction, MarkCompleted, CreditCommission,
        ReimburseCaptain, AllocationOwners, ProofsInHand, SubmissionOK,
        OneSubmission, ProofStands, SubmittingPcs, TypeInv, JobsInv, JobsOK,
        JobFromOK, Job, RowOK, RecordsOK, At, Begin, Goto, Finish, Idle, Read,
        rowVars, rowButStatus, recordVars, HasCaptain, DMC_HELD_STATES
  <2>4. SubmissionOK(w)'
    BY <1>22, <2>1, ConstantsAssumption
    DEF CompleteInTransaction, MarkCompleted, CreditCommission,
        ReimburseCaptain, AllocationOwners, ProofsInHand, SubmissionOK,
        OneSubmission, ProofStands, SubmittingPcs, TypeInv, JobsInv, JobsOK,
        JobFromOK, Job, RowOK, RecordsOK, At, Begin, Goto, Finish, Idle, Read,
        rowVars, rowButStatus, recordVars, HasCaptain, DMC_HELD_STATES
  <2>5. OneSubmission'
    <3>1. jobs'[w].pc \in SubmittingPcs =>
            /\ jobs'[w].t = t
            /\ jobs[w].pc \in SubmittingPcs \/ status[t] # "PROOF_SUBMITTED"
      BY <1>22, <2>1
      DEF CompleteInTransaction, MarkCompleted, CreditCommission,
          ReimburseCaptain, AllocationOwners, SubmittingPcs, TypeInv, JobsInv,
          JobsOK, Job, At, Goto, Finish, Idle, Read
    <3> QED
      BY <2>1, <2>2, <3>1 DEF ProofsInHand, SubmissionOK, OneSubmission
  <2>6. ProofStands'
    BY <1>22, <2>1, ConstantsAssumption
    DEF CompleteInTransaction, MarkCompleted, CreditCommission,
        ReimburseCaptain, AllocationOwners, ProofsInHand, SubmissionOK,
        OneSubmission, ProofStands, SubmittingPcs, TypeInv, JobsInv, JobsOK,
        JobFromOK, Job, RowOK, RecordsOK, At, Begin, Goto, Finish, Idle, Read,
        rowVars, rowButStatus, recordVars, HasCaptain, DMC_HELD_STATES
  <2> QED
    BY <2>3, <2>4, <2>5, <2>6 DEF ProofsInHand
<1>23. ASSUME NEW w \in Workers, CompleteWrite(w)
      PROVE  ProofsInHand'
  <2>1. PICK t \in Payouts : t = jobs[w].t
    BY <1>23 DEF CompleteWrite, MarkCompleted, At, TypeInv, JobsInv, JobsOK
  <2>2. \A v \in Workers \ {w} : jobs'[v] = jobs[v]
    BY <1>23
    DEF CompleteWrite, MarkCompleted, Goto, Finish, TypeInv, JobsInv, JobsOK
  <2>3. ASSUME NEW v \in Workers \ {w}
        PROVE  SubmissionOK(v)'
    BY <1>23, <2>1, <2>2, ConstantsAssumption
    DEF CompleteWrite, MarkCompleted, ProofsInHand, SubmissionOK,
        OneSubmission, ProofStands, SubmittingPcs, TypeInv, JobsInv, JobsOK,
        JobFromOK, Job, RowOK, RecordsOK, At, Begin, Goto, Finish, Idle, Read,
        rowVars, rowButStatus, recordVars, HasCaptain, DMC_HELD_STATES
  <2>4. SubmissionOK(w)'
    BY <1>23, <2>1, ConstantsAssumption
    DEF CompleteWrite, MarkCompleted, ProofsInHand, SubmissionOK,
        OneSubmission, ProofStands, SubmittingPcs, TypeInv, JobsInv, JobsOK,
        JobFromOK, Job, RowOK, RecordsOK, At, Begin, Goto, Finish, Idle, Read,
        rowVars, rowButStatus, recordVars, HasCaptain, DMC_HELD_STATES
  <2>5. OneSubmission'
    <3>1. jobs'[w].pc \in SubmittingPcs =>
            /\ jobs'[w].t = t
            /\ jobs[w].pc \in SubmittingPcs \/ status[t] # "PROOF_SUBMITTED"
      BY <1>23, <2>1
      DEF CompleteWrite, MarkCompleted, SubmittingPcs, TypeInv, JobsInv,
          JobsOK, Job, At, Goto, Finish, Idle, Read
    <3> QED
      BY <2>1, <2>2, <3>1 DEF ProofsInHand, SubmissionOK, OneSubmission
  <2>6. ProofStands'
    BY <1>23, <2>1, ConstantsAssumption
    DEF CompleteWrite, MarkCompleted, ProofsInHand, SubmissionOK,
        OneSubmission, ProofStands, SubmittingPcs, TypeInv, JobsInv, JobsOK,
        JobFromOK, Job, RowOK, RecordsOK, At, Begin, Goto, Finish, Idle, Read,
        rowVars, rowButStatus, recordVars, HasCaptain, DMC_HELD_STATES
  <2> QED
    BY <2>3, <2>4, <2>5, <2>6 DEF ProofsInHand
<1>24. ASSUME NEW w \in Workers,
             CompleteLost(w)
      PROVE  ProofsInHand'
  BY <1>24, ConstantsAssumption
  DEF CompleteLost, ProofsInHand, SubmissionOK, OneSubmission, ProofStands,
      SubmittingPcs, TypeInv, JobsInv, JobsOK, JobFromOK, Job, RowOK,
      RecordsOK, At, Begin, Goto, Finish, Idle, Read, rowVars, rowButStatus,
      recordVars, HasCaptain, DMC_HELD_STATES
<1>25. ASSUME NEW w \in Workers,
             CompleteCommission(w)
      PROVE  ProofsInHand'
  BY <1>25, ConstantsAssumption
  DEF CompleteCommission, CreditCommission, ProofsInHand, SubmissionOK,
      OneSubmission, ProofStands, SubmittingPcs, TypeInv, JobsInv, JobsOK,
      JobFromOK, Job, RowOK, RecordsOK, At, Begin, Goto, Finish, Idle, Read,
      rowVars, rowButStatus, recordVars, HasCaptain, DMC_HELD_STATES
<1>26. ASSUME NEW w \in Workers,
             CompleteCollect(w)
      PROVE  ProofsInHand'
  BY <1>26, ConstantsAssumption
  DEF CompleteCollect, ProofsInHand, SubmissionOK, OneSubmission, ProofStands,
      SubmittingPcs, TypeInv, JobsInv, JobsOK, JobFromOK, Job, RowOK,
      RecordsOK, At, Begin, Goto, Finish, Idle, Read, rowVars, rowButStatus,
      recordVars, HasCaptain, DMC_HELD_STATES
<1>27. ASSUME NEW w \in Workers,
             CompleteReimburse(w)
      PROVE  ProofsInHand'
  BY <1>27, ConstantsAssumption
  DEF CompleteReimburse, ReimburseCaptain, ProofsInHand, SubmissionOK,
      OneSubmission, ProofStands, SubmittingPcs, TypeInv, JobsInv, JobsOK,
      JobFromOK, Job, RowOK, RecordsOK, At, Begin, Goto, Finish, Idle, Read,
      rowVars, rowButStatus, recordVars, HasCaptain, DMC_HELD_STATES
<1>28. ASSUME NEW w \in Workers,
             CompletePayShare(w)
      PROVE  ProofsInHand'
  BY <1>28, ConstantsAssumption
  DEF CompletePayShare, ProofsInHand, SubmissionOK, OneSubmission,
      ProofStands, SubmittingPcs, TypeInv, JobsInv, JobsOK, JobFromOK, Job,
      RowOK, RecordsOK, At, Begin, Goto, Finish, Idle, Read, rowVars,
      rowButStatus, recordVars, HasCaptain, DMC_HELD_STATES
<1>29. ASSUME NEW w \in Workers,
             CompleteAllocateCaptain(w)
      PROVE  ProofsInHand'
  BY <1>29, ConstantsAssumption
  DEF CompleteAllocateCaptain, ProofsInHand, SubmissionOK, OneSubmission,
      ProofStands, SubmittingPcs, TypeInv, JobsInv, JobsOK, JobFromOK, Job,
      RowOK, RecordsOK, At, Begin, Goto, Finish, Idle, Read, rowVars,
      rowButStatus, recordVars, HasCaptain, DMC_HELD_STATES
<1>30. ASSUME NEW w \in Workers,
             CompleteAllocatePlatform(w)
      PROVE  ProofsInHand'
  BY <1>30, ConstantsAssumption
  DEF CompleteAllocatePlatform, AllocationOwners, ProofsInHand, SubmissionOK,
      OneSubmission, ProofStands, SubmittingPcs, TypeInv, JobsInv, JobsOK,
      JobFromOK, Job, RowOK, RecordsOK, At, Begin, Goto, Finish, Idle, Read,
      rowVars, rowButStatus, recordVars, HasCaptain, DMC_HELD_STATES
<1>31. ASSUME NEW w \in Workers, ReassignWrite(w)
      PROVE  ProofsInHand'
  <2>1. PICK t \in Payouts : t = jobs[w].t
    BY <1>31 DEF ReassignWrite, ReturnToPool, At, TypeInv, JobsInv, JobsOK
  <2>2. \A v \in Workers \ {w} : jobs'[v] = jobs[v]
    BY <1>31
    DEF ReassignWrite, ReturnToPool, Goto, Finish, TypeInv, JobsInv, JobsOK
  <2>3. ASSUME NEW v \in Workers \ {w}
        PROVE  SubmissionOK(v)'
    BY <1>31, <2>1, <2>2, ConstantsAssumption
    DEF ReassignWrite, ReturnToPool, ProofsInHand, SubmissionOK,
        OneSubmission, ProofStands, SubmittingPcs, TypeInv, JobsInv, JobsOK,
        JobFromOK, Job, RowOK, RecordsOK, At, Begin, Goto, Finish, Idle, Read,
        rowVars, rowButStatus, recordVars, HasCaptain, DMC_HELD_STATES
  <2>4. SubmissionOK(w)'
    BY <1>31, <2>1, ConstantsAssumption
    DEF ReassignWrite, ReturnToPool, ProofsInHand, SubmissionOK,
        OneSubmission, ProofStands, SubmittingPcs, TypeInv, JobsInv, JobsOK,
        JobFromOK, Job, RowOK, RecordsOK, At, Begin, Goto, Finish, Idle, Read,
        rowVars, rowButStatus, recordVars, HasCaptain, DMC_HELD_STATES
  <2>5. OneSubmission'
    <3>1. jobs'[w].pc \in SubmittingPcs =>
            /\ jobs'[w].t = t
            /\ jobs[w].pc \in SubmittingPcs \/ status[t] # "PROOF_SUBMITTED"
      BY <1>31, <2>1
      DEF ReassignWrite, ReturnToPool, SubmittingPcs, TypeInv, JobsInv,
          JobsOK, Job, At, Goto, Finish, Idle, Read
    <3> QED
      BY <2>1, <2>2, <3>1 DEF ProofsInHand, SubmissionOK, OneSubmission
  <2>6. ProofStands'
    BY <1>31, <2>1, ConstantsAssumption
    DEF ReassignWrite, ReturnToPool, ProofsInHand, SubmissionOK,
        OneSubmission, ProofStands, SubmittingPcs, TypeInv, JobsInv, JobsOK,
        JobFromOK, Job, RowOK, RecordsOK, At, Begin, Goto, Finish, Idle, Read,
        rowVars, rowButStatus, recordVars, HasCaptain, DMC_HELD_STATES
  <2> QED
    BY <2>3, <2>4, <2>5, <2>6 DEF ProofsInHand
<1>32. ASSUME NEW w \in Workers,
             ReassignLost(w)
      PROVE  ProofsInHand'
  BY <1>32, ConstantsAssumption
  DEF ReassignLost, ProofsInHand, SubmissionOK, OneSubmission, ProofStands,
      SubmittingPcs, TypeInv, JobsInv, JobsOK, JobFromOK, Job, RowOK,
      RecordsOK, At, Begin, Goto, Finish, Idle, Read, rowVars, rowButStatus,
      recordVars, HasCaptain, DMC_HELD_STATES
<1>33. ASSUME NEW w \in Workers, ReassignSupersede(w)
      PROVE  ProofsInHand'
  <2>1. PICK t \in Payouts : t = jobs[w].t
    BY <1>33 DEF ReassignSupersede, At, TypeInv, JobsInv, JobsOK
  <2>2. \A v \in Workers \ {w} : jobs'[v] = jobs[v]
    BY <1>33 DEF ReassignSupersede, Goto, Finish, TypeInv, JobsInv, JobsOK
  <2>3. ASSUME NEW v \in Workers \ {w}
        PROVE  SubmissionOK(v)'
    BY <1>33, <2>1, <2>2, ConstantsAssumption
    DEF ReassignSupersede, ProofsInHand, SubmissionOK, OneSubmission,
        ProofStands, SubmittingPcs, TypeInv, JobsInv, JobsOK, JobFromOK, Job,
        RowOK, RecordsOK, At, Begin, Goto, Finish, Idle, Read, rowVars,
        rowButStatus, recordVars, HasCaptain, DMC_HELD_STATES
  <2>4. SubmissionOK(w)'
    BY <1>33, <2>1, ConstantsAssumption
    DEF ReassignSupersede, ProofsInHand, SubmissionOK, OneSubmission,
        ProofStands, SubmittingPcs, TypeInv, JobsInv, JobsOK, JobFromOK, Job,
        RowOK, RecordsOK, At, Begin, Goto, Finish, Idle, Read, rowVars,
        rowButStatus, recordVars, HasCaptain, DMC_HELD_STATES
  <2>5. OneSubmission'
    <3>1. jobs'[w].pc \in SubmittingPcs =>
            /\ jobs'[w].t = t
            /\ jobs[w].pc \in SubmittingPcs \/ status[t] # "PROOF_SUBMITTED"
      BY <1>33, <2>1
      DEF ReassignSupersede, SubmittingPcs, TypeInv, JobsInv, JobsOK, Job, At,
          Goto, Finish, Idle, Read
    <3> QED
      BY <2>1, <2>2, <3>1 DEF ProofsInHand, SubmissionOK, OneSubmission
  <2>6. ProofStands'
    BY <1>33, <2>1, ConstantsAssumption
    DEF ReassignSupersede, ProofsInHand, SubmissionOK, OneSubmission,
        ProofStands, SubmittingPcs, TypeInv, JobsInv, JobsOK, JobFromOK, Job,
        RowOK, RecordsOK, At, Begin, Goto, Finish, Idle, Read, rowVars,
        rowButStatus, recordVars, HasCaptain, DMC_HELD_STATES
  <2> QED
    BY <2>3, <2>4, <2>5, <2>6 DEF ProofsInHand
<1>34. ASSUME NEW w \in Workers,
             Release(w)
      PROVE  ProofsInHand'
  BY <1>34, ConstantsAssumption
  DEF Release, ReleaseHold, ProofsInHand, SubmissionOK, OneSubmission,
      ProofStands, SubmittingPcs, TypeInv, JobsInv, JobsOK, JobFromOK, Job,
      RowOK, RecordsOK, At, Begin, Goto, Finish, Idle, Read, rowVars,
      rowButStatus, recordVars, HasCaptain, DMC_HELD_STATES
<1>35. ASSUME NEW w \in Workers, NEW t \in Payouts,
             CancelUnclaimed(w, t)
      PROVE  ProofsInHand'
  BY <1>35, ConstantsAssumption
  DEF CancelUnclaimed, ProofsInHand, SubmissionOK, OneSubmission, ProofStands,
      SubmittingPcs, TypeInv, JobsInv, JobsOK, JobFromOK, Job, RowOK,
      RecordsOK, At, Begin, Goto, Finish, Idle, Read, rowVars, rowButStatus,
      recordVars, HasCaptain, DMC_HELD_STATES, CopiesAgree, RowAgrees,
      CanTransition, TASK_TRANSITIONS, TaskStates
<1>36. ASSUME NEW w \in Workers, NEW t \in Payouts,
             ApproveCancellation(w, t)
      PROVE  ProofsInHand'
  BY <1>36, ConstantsAssumption
  DEF ApproveCancellation, ProofsInHand, SubmissionOK, OneSubmission,
      ProofStands, SubmittingPcs, TypeInv, JobsInv, JobsOK, JobFromOK, Job,
      RowOK, RecordsOK, At, Begin, Goto, Finish, Idle, Read, rowVars,
      rowButStatus, recordVars, HasCaptain, DMC_HELD_STATES
<1>37. ASSUME NEW w \in Workers,
             ReleaseCancelled(w)
      PROVE  ProofsInHand'
  BY <1>37, ConstantsAssumption
  DEF ReleaseCancelled, ReleaseHold, ProofsInHand, SubmissionOK,
      OneSubmission, ProofStands, SubmittingPcs, TypeInv, JobsInv, JobsOK,
      JobFromOK, Job, RowOK, RecordsOK, At, Begin, Goto, Finish, Idle, Read,
      rowVars, rowButStatus, recordVars, HasCaptain, DMC_HELD_STATES
<1>38. ASSUME NEW w \in Workers,
             RefundParty(w)
      PROVE  ProofsInHand'
  BY <1>38, ConstantsAssumption
  DEF RefundParty, ProofsInHand, SubmissionOK, OneSubmission, ProofStands,
      SubmittingPcs, TypeInv, JobsInv, JobsOK, JobFromOK, Job, RowOK,
      RecordsOK, At, Begin, Goto, Finish, Idle, Read, rowVars, rowButStatus,
      recordVars, HasCaptain, DMC_HELD_STATES
<1>39. ASSUME NEW w \in Workers, NEW t \in Payouts,
             ExpireRead(w, t)
      PROVE  ProofsInHand'
  BY <1>39, ConstantsAssumption
  DEF ExpireRead, ProofsInHand, SubmissionOK, OneSubmission, ProofStands,
      SubmittingPcs, TypeInv, JobsInv, JobsOK, JobFromOK, Job, RowOK,
      RecordsOK, At, Begin, Goto, Finish, Idle, Read, rowVars, rowButStatus,
      recordVars, HasCaptain, DMC_HELD_STATES
<1>40. ASSUME NEW w \in Workers, NEW t \in Payouts,
             ReturnRead(w, t)
      PROVE  ProofsInHand'
  BY <1>40, ConstantsAssumption
  DEF ReturnRead, ProofsInHand, SubmissionOK, OneSubmission, ProofStands,
      SubmittingPcs, TypeInv, JobsInv, JobsOK, JobFromOK, Job, RowOK,
      RecordsOK, At, Begin, Goto, Finish, Idle, Read, rowVars, rowButStatus,
      recordVars, HasCaptain, DMC_HELD_STATES
<1>41. ASSUME NEW w \in Workers, ExpireWrite(w)
      PROVE  ProofsInHand'
  <2>1. PICK t \in Payouts : t = jobs[w].t
    BY <1>41 DEF ExpireWrite, At, TypeInv, JobsInv, JobsOK
  <2>2. \A v \in Workers \ {w} : jobs'[v] = jobs[v]
    BY <1>41 DEF ExpireWrite, Goto, Finish, TypeInv, JobsInv, JobsOK
  <2>3. ASSUME NEW v \in Workers \ {w}
        PROVE  SubmissionOK(v)'
    BY <1>41, <2>1, <2>2, ConstantsAssumption
    DEF ExpireWrite, ProofsInHand, SubmissionOK, OneSubmission, ProofStands,
        SubmittingPcs, TypeInv, JobsInv, JobsOK, JobFromOK, Job, RowOK,
        RecordsOK, At, Begin, Goto, Finish, Idle, Read, rowVars, rowButStatus,
        recordVars, HasCaptain, DMC_HELD_STATES
  <2>4. SubmissionOK(w)'
    BY <1>41, <2>1, ConstantsAssumption
    DEF ExpireWrite, ProofsInHand, SubmissionOK, OneSubmission, ProofStands,
        SubmittingPcs, TypeInv, JobsInv, JobsOK, JobFromOK, Job, RowOK,
        RecordsOK, At, Begin, Goto, Finish, Idle, Read, rowVars, rowButStatus,
        recordVars, HasCaptain, DMC_HELD_STATES
  <2>5. OneSubmission'
    <3>1. jobs'[w].pc \in SubmittingPcs =>
            /\ jobs'[w].t = t
            /\ jobs[w].pc \in SubmittingPcs \/ status[t] # "PROOF_SUBMITTED"
      BY <1>41, <2>1
      DEF ExpireWrite, SubmittingPcs, TypeInv, JobsInv, JobsOK, Job, At, Goto,
          Finish, Idle, Read
    <3> QED
      BY <2>1, <2>2, <3>1 DEF ProofsInHand, SubmissionOK, OneSubmission
  <2>6. ProofStands'
    BY <1>41, <2>1, ConstantsAssumption
    DEF ExpireWrite, ProofsInHand, SubmissionOK, OneSubmission, ProofStands,
        SubmittingPcs, TypeInv, JobsInv, JobsOK, JobFromOK, Job, RowOK,
        RecordsOK, At, Begin, Goto, Finish, Idle, Read, rowVars, rowButStatus,
        recordVars, HasCaptain, DMC_HELD_STATES
  <2> QED
    BY <2>3, <2>4, <2>5, <2>6 DEF ProofsInHand
<1>42. ASSUME NEW w \in Workers,
             ExpireLost(w)
      PROVE  ProofsInHand'
  BY <1>42, ConstantsAssumption
  DEF ExpireLost, ProofsInHand, SubmissionOK, OneSubmission, ProofStands,
      SubmittingPcs, TypeInv, JobsInv, JobsOK, JobFromOK, Job, RowOK,
      RecordsOK, At, Begin, Goto, Finish, Idle, Read, rowVars, rowButStatus,
      recordVars, HasCaptain, DMC_HELD_STATES
<1>43. ASSUME NEW w \in Workers, ReturnWrite(w)
      PROVE  ProofsInHand'
  <2>1. PICK t \in Payouts : t = jobs[w].t
    BY <1>43 DEF ReturnWrite, ReturnToPool, At, TypeInv, JobsInv, JobsOK
  <2>2. \A v \in Workers \ {w} : jobs'[v] = jobs[v]
    BY <1>43
    DEF ReturnWrite, ReturnToPool, Goto, Finish, TypeInv, JobsInv, JobsOK
  <2>3. ASSUME NEW v \in Workers \ {w}
        PROVE  SubmissionOK(v)'
    BY <1>43, <2>1, <2>2, ConstantsAssumption
    DEF ReturnWrite, ReturnToPool, ProofsInHand, SubmissionOK, OneSubmission,
        ProofStands, SubmittingPcs, TypeInv, JobsInv, JobsOK, JobFromOK, Job,
        RowOK, RecordsOK, At, Begin, Goto, Finish, Idle, Read, rowVars,
        rowButStatus, recordVars, HasCaptain, DMC_HELD_STATES
  <2>4. SubmissionOK(w)'
    BY <1>43, <2>1, ConstantsAssumption
    DEF ReturnWrite, ReturnToPool, ProofsInHand, SubmissionOK, OneSubmission,
        ProofStands, SubmittingPcs, TypeInv, JobsInv, JobsOK, JobFromOK, Job,
        RowOK, RecordsOK, At, Begin, Goto, Finish, Idle, Read, rowVars,
        rowButStatus, recordVars, HasCaptain, DMC_HELD_STATES
  <2>5. OneSubmission'
    <3>1. jobs'[w].pc \in SubmittingPcs =>
            /\ jobs'[w].t = t
            /\ jobs[w].pc \in SubmittingPcs \/ status[t] # "PROOF_SUBMITTED"
      BY <1>43, <2>1
      DEF ReturnWrite, ReturnToPool, SubmittingPcs, TypeInv, JobsInv, JobsOK,
          Job, At, Goto, Finish, Idle, Read
    <3> QED
      BY <2>1, <2>2, <3>1 DEF ProofsInHand, SubmissionOK, OneSubmission
  <2>6. ProofStands'
    BY <1>43, <2>1, ConstantsAssumption
    DEF ReturnWrite, ReturnToPool, ProofsInHand, SubmissionOK, OneSubmission,
        ProofStands, SubmittingPcs, TypeInv, JobsInv, JobsOK, JobFromOK, Job,
        RowOK, RecordsOK, At, Begin, Goto, Finish, Idle, Read, rowVars,
        rowButStatus, recordVars, HasCaptain, DMC_HELD_STATES
  <2> QED
    BY <2>3, <2>4, <2>5, <2>6 DEF ProofsInHand
<1>44. ASSUME NEW w \in Workers,
             ReturnLost(w)
      PROVE  ProofsInHand'
  BY <1>44, ConstantsAssumption
  DEF ReturnLost, ProofsInHand, SubmissionOK, OneSubmission, ProofStands,
      SubmittingPcs, TypeInv, JobsInv, JobsOK, JobFromOK, Job, RowOK,
      RecordsOK, At, Begin, Goto, Finish, Idle, Read, rowVars, rowButStatus,
      recordVars, HasCaptain, DMC_HELD_STATES
<1>45. ASSUME NEW t \in Payouts, NEW c \in Captains,
             StartTask(t, c)
      PROVE  ProofsInHand'
  BY <1>45, ConstantsAssumption
  DEF StartTask, ProofsInHand, SubmissionOK, OneSubmission, ProofStands,
      SubmittingPcs, TypeInv, JobsInv, JobsOK, JobFromOK, Job, RowOK,
      RecordsOK, At, Begin, Goto, Finish, Idle, Read, rowVars, rowButStatus,
      recordVars, HasCaptain, DMC_HELD_STATES, CopiesAgree, RowAgrees,
      CanTransition, TASK_TRANSITIONS, TaskStates
<1>46. ASSUME NEW t \in Payouts,
             RejectTask(t)
      PROVE  ProofsInHand'
  BY <1>46, ConstantsAssumption
  DEF RejectTask, MarkRejected, ProofsInHand, SubmissionOK, OneSubmission,
      ProofStands, SubmittingPcs, TypeInv, JobsInv, JobsOK, JobFromOK, Job,
      RowOK, RecordsOK, At, Begin, Goto, Finish, Idle, Read, rowVars,
      rowButStatus, recordVars, HasCaptain, DMC_HELD_STATES
<1>47. ASSUME NEW t \in Payouts,
             RequestCancellation(t)
      PROVE  ProofsInHand'
  BY <1>47, ConstantsAssumption
  DEF RequestCancellation, ProofsInHand, SubmissionOK, OneSubmission,
      ProofStands, SubmittingPcs, TypeInv, JobsInv, JobsOK, JobFromOK, Job,
      RowOK, RecordsOK, At, Begin, Goto, Finish, Idle, Read, rowVars,
      rowButStatus, recordVars, HasCaptain, DMC_HELD_STATES, CopiesAgree,
      RowAgrees, CanTransition, TASK_TRANSITIONS, TaskStates
<1>48. ASSUME NEW t \in Payouts,
             DisputeCancellation(t)
      PROVE  ProofsInHand'
  BY <1>48, ConstantsAssumption
  DEF DisputeCancellation, ProofsInHand, SubmissionOK, OneSubmission,
      ProofStands, SubmittingPcs, TypeInv, JobsInv, JobsOK, JobFromOK, Job,
      RowOK, RecordsOK, At, Begin, Goto, Finish, Idle, Read, rowVars,
      rowButStatus, recordVars, HasCaptain, DMC_HELD_STATES
<1>49. ASSUME NEW t \in Payouts,
             RestoreDisputed(t)
      PROVE  ProofsInHand'
  BY <1>49, ConstantsAssumption
  DEF RestoreDisputed, ProofsInHand, SubmissionOK, OneSubmission, ProofStands,
      SubmittingPcs, TypeInv, JobsInv, JobsOK, JobFromOK, Job, RowOK,
      RecordsOK, At, Begin, Goto, Finish, Idle, Read, rowVars, rowButStatus,
      recordVars, HasCaptain, DMC_HELD_STATES, CopiesAgree, RowAgrees,
      CanTransition, TASK_TRANSITIONS, TaskStates
<1>50. ASSUME NEW t \in Payouts, NEW k \in Clocks,
             ClockLapses(t, k)
      PROVE  ProofsInHand'
  BY <1>50, ConstantsAssumption
  DEF ClockLapses, Running, ProofsInHand, SubmissionOK, OneSubmission,
      ProofStands, SubmittingPcs, TypeInv, JobsInv, JobsOK, JobFromOK, Job,
      RowOK, RecordsOK, At, Begin, Goto, Finish, Idle, Read, rowVars,
      rowButStatus, recordVars, HasCaptain, DMC_HELD_STATES
<1>51. ASSUME Crash
      PROVE  ProofsInHand'
  BY <1>51, ConstantsAssumption
  DEF Crash, ProofsInHand, SubmissionOK, OneSubmission, ProofStands,
      SubmittingPcs, TypeInv, JobsInv, JobsOK, JobFromOK, Job, RowOK,
      RecordsOK, At, Begin, Goto, Finish, Idle, Read, rowVars, rowButStatus,
      recordVars, HasCaptain, DMC_HELD_STATES
<1>52. ASSUME UNCHANGED vars
      PROVE  ProofsInHand'
  BY <1>52
  DEF ProofsInHand, SubmissionOK, OneSubmission, ProofStands, SubmittingPcs,
      vars, rowVars, rowButStatus, recordVars
<1> QED
  BY <1>1, <1>2, <1>3, <1>4, <1>5, <1>6, <1>7, <1>8, <1>9, <1>10, <1>11,
     <1>12, <1>13, <1>14, <1>15, <1>16, <1>17, <1>18, <1>19, <1>20, <1>21,
     <1>22, <1>23, <1>24, <1>25, <1>26, <1>27, <1>28, <1>29, <1>30, <1>31,
     <1>32, <1>33, <1>34, <1>35, <1>36, <1>37, <1>38, <1>39, <1>40, <1>41,
     <1>42, <1>43, <1>44, <1>45, <1>46, <1>47, <1>48, <1>49, <1>50, <1>51,
     <1>52
  DEF Next, Request, Decision, Sweep, JobStep, ConfirmReceived,
      ConfirmNotReceived, AutoApproveOnTimeout, CancelStale, RejectExpired,
      ReclaimExpired, Workers

\* As long as no payout changes hands under a request that has read it, what a
\* party audits and an admin arbitrates on is the proof of the captain who
\* holds the payout.
THEOREM ProofsAreTheHolders ==
  ASSUME PromptRequests
  PROVE  Spec => []ProofStands
<1>1. Init => ProofsInHand
  BY DEF Init, ProofsInHand, SubmissionOK, OneSubmission, ProofStands, SubmittingPcs, Idle
<1>2. Init => TypeInv /\ CopiesAgree
  BY TypeInit, CopiesAgreeInit
<1>3. TypeInv /\ CopiesAgree /\ ProofsInHand /\ [Next]_vars => CopiesAgree' /\ ProofsInHand'
  BY CopiesAgreeStep, ProofsStep
<1>4. ProofsInHand => ProofStands
  BY DEF ProofsInHand
<1> QED
  BY <1>1, <1>2, <1>3, <1>4, TypeInvariant, PTL DEF Spec

-----------------------------------------------------------------------------
(* Payment *)

\* Bound of a run: a server without transactions is never stopped.
NeverHalfway == MaxCrashes[FALSE] = 0

PayingPcs ==
  {"commission", "collect", "reimburse", "payShare", "allocateCaptain", "allocatePlatform"}

Paying(w, t) == jobs[w].t = t /\ jobs[w].pc \in PayingPcs

\* How far the job that completed t has come with paying for it.
PaidSoFar(w, t) ==
  /\ ~useTransactions
  /\ status[t] = "COMPLETED" /\ captainId[t] = jobs[w].c
  /\ jobs[w].platform = adminCommissionPaise[t]
  /\ commissionRow[t] = IF jobs[w].pc = "commission" THEN None ELSE captainId[t]
  /\ jobs[w].pc \in {"payShare", "allocateCaptain", "allocatePlatform"} =>
       reimbursed[t] = 1 /\ paidCaptain[t] = captainId[t]
  /\ allocations[t] = IF jobs[w].pc = "allocatePlatform" THEN {"CAPTAIN"} ELSE {}
  /\ \A v \in Workers : Paying(v, t) => v = w

InFull(t) ==
  /\ reimbursed[t] = 1
  /\ paidCaptain[t] = captainId[t] /\ commissionRow[t] = captainId[t]
  /\ allocations[t] = {"CAPTAIN"} \cup (IF adminCommissionPaise[t] > 0 THEN {"ADMIN"} ELSE {})

\* Nothing is recorded for a payout before it is completed, and once it is
\* either one job is paying for it or everything is paid, unless a server
\* without transactions was stopped half way.
PaymentOK(t) ==
  /\ status[t] # "COMPLETED" => commissionRow[t] = None /\ allocations[t] = {}
  /\ \A w \in Workers : Paying(w, t) => PaidSoFar(w, t)
  /\ status[t] = "COMPLETED" /\ NeverHalfway /\ (\A w \in Workers : ~Paying(w, t))
       => InFull(t)

\* The platform's part in the copy of a job that completes a payout is the
\* one on the row.
CopyKnowsPart(w) ==
  jobs[w].pc = "complete" =>
    /\ jobs[w].platform = adminCommissionPaise[jobs[w].t]
    /\ status[jobs[w].t] # "ABSENT"

PaymentInv ==
  /\ \A t \in Payouts : PaymentOK(t)
  /\ \A w \in Workers : CopyKnowsPart(w)

\* A step that pays nothing and completes nothing.
PaysNothing ==
  /\ UNCHANGED <<commissionRow, allocations, reimbursed, paidCaptain, useTransactions>>
  /\ \A w \in Workers :
       \/ jobs'[w] = jobs[w]
       \/ jobs[w].pc \notin PayingPcs /\ jobs'[w].pc \notin PayingPcs
            /\ (jobs'[w].pc = "complete" =>
                  /\ jobs'[w].t \in Payouts
                  /\ jobs'[w].platform = adminCommissionPaise'[jobs'[w].t]
                  /\ status'[jobs'[w].t] # "ABSENT")
  /\ \A t \in Payouts :
       /\ status'[t] = "COMPLETED" <=> status[t] = "COMPLETED"
       /\ status[t] = "COMPLETED" =>
            captainId'[t] = captainId[t] /\ adminCommissionPaise'[t] = adminCommissionPaise[t]
       /\ status[t] # "ABSENT" => status'[t] # "ABSENT"
  /\ \A w \in Workers :
       jobs[w].pc = "complete" =>
         adminCommissionPaise'[jobs[w].t] = adminCommissionPaise[jobs[w].t]

LEMMA PaysNothingStep ==
  ASSUME TypeInv, PaymentInv, PaysNothing
  PROVE  PaymentInv'
<1>1. ASSUME NEW w \in Workers
      PROVE  CopyKnowsPart(w)'
  BY DEF PaymentInv, CopyKnowsPart, PaysNothing, TypeInv, JobsInv, JobsOK
<1>2. ASSUME NEW t \in Payouts
      PROVE  PaymentOK(t)'
  <2>1. PaymentOK(t)
    BY DEF PaymentInv
  <2>2. ASSUME NEW w \in Workers
        PROVE  /\ Paying(w, t)' <=> Paying(w, t)
               /\ Paying(w, t) => jobs'[w] = jobs[w]
    BY DEF PaysNothing, Paying
  <2>3. status'[t] # "COMPLETED" => commissionRow'[t] = None /\ allocations'[t] = {}
    BY <2>1 DEF PaymentOK, PaysNothing
  <2>4. ASSUME NEW w \in Workers, Paying(w, t)
        PROVE  PaidSoFar(w, t)'
    BY <2>1, <2>2, <2>4 DEF PaymentOK, PaysNothing, PaidSoFar
  <2>5. status'[t] = "COMPLETED" /\ NeverHalfway /\ (\A w \in Workers : ~Paying(w, t)')
         => InFull(t)'
    BY <2>1, <2>2 DEF PaymentOK, PaysNothing, InFull
  <2> QED
    BY <2>2, <2>3, <2>4, <2>5 DEF PaymentOK
<1> QED
  BY <1>1, <1>2 DEF PaymentInv

\* A step of the job of w that is about t alone.
PaysFor(w, t) ==
  /\ \A v \in Workers \ {w} : jobs'[v] = jobs[v]
  /\ jobs'[w].pc # "complete"
  /\ jobs'[w].pc \in PayingPcs => jobs'[w].t = t
  /\ jobs[w].t = t
  /\ useTransactions' = useTransactions
  /\ adminCommissionPaise' = adminCommissionPaise /\ captainId' = captainId
  /\ \A u \in Payouts \ {t} :
       /\ status'[u] = status[u] /\ commissionRow'[u] = commissionRow[u]
       /\ allocations'[u] = allocations[u] /\ reimbursed'[u] = reimbursed[u]
       /\ paidCaptain'[u] = paidCaptain[u]
  /\ status[t] # "ABSENT" => status'[t] # "ABSENT"

LEMMA OthersPaid ==
  ASSUME TypeInv, PaymentInv, NEW w \in Workers, NEW t \in Payouts, PaysFor(w, t), PaymentOK(t)'
  PROVE  PaymentInv'
<1>1. ASSUME NEW v \in Workers
      PROVE  CopyKnowsPart(v)'
  BY DEF PaymentInv, CopyKnowsPart, PaysFor, TypeInv, JobsInv, JobsOK
<1>2. ASSUME NEW u \in Payouts \ {t}
      PROVE  PaymentOK(u)'
  <2>1. PaymentOK(u)
    BY DEF PaymentInv
  <2>2. ASSUME NEW v \in Workers
        PROVE  /\ Paying(v, u)' <=> Paying(v, u)
               /\ Paying(v, u) => jobs'[v] = jobs[v]
    BY DEF PaysFor, Paying
  <2>3. ASSUME NEW v \in Workers, Paying(v, u)
        PROVE  PaidSoFar(v, u)'
    BY <2>1, <2>2, <2>3 DEF PaymentOK, PaysFor, PaidSoFar
  <2>4. status'[u] = "COMPLETED" /\ NeverHalfway /\ (\A v \in Workers : ~Paying(v, u)')
         => InFull(u)'
    BY <2>1, <2>2 DEF PaymentOK, PaysFor, InFull
  <2> QED
    BY <2>1, <2>2, <2>3, <2>4 DEF PaymentOK, PaysFor
<1> QED
  BY <1>1, <1>2 DEF PaymentInv

LEMMA PaymentStep ==
  ASSUME PromptRequests, TypeInv, SettleInv, HoldersKnown, PaymentInv, [Next]_vars
  PROVE  PaymentInv'
<1>1. ASSUME NEW w \in Workers, NEW t \in Payouts,
             CreateDebit(w, t)
      PROVE  PaysNothing
  BY <1>1
  DEF CreateDebit, PaysNothing, PayingPcs, TypeInv, JobsInv, JobsOK,
      JobFromOK, Job, RowOK, At, Begin, Goto, Finish, Idle, Read, rowVars,
      rowButStatus, recordVars, faultVars, historyVars, CLAIMABLE_STATES,
      PaymentInv, CopyKnowsPart
<1>2. ASSUME NEW w \in Workers,
             CreateInsert(w)
      PROVE  PaysNothing
  BY <1>2
  DEF CreateInsert, PaysNothing, PayingPcs, TypeInv, JobsInv, JobsOK,
      JobFromOK, Job, RowOK, At, Begin, Goto, Finish, Idle, Read, rowVars,
      rowButStatus, recordVars, faultVars, historyVars, CLAIMABLE_STATES,
      PaymentInv, CopyKnowsPart
<1>3. ASSUME NEW w \in Workers,
             CreateDuplicate(w)
      PROVE  PaysNothing
  BY <1>3
  DEF CreateDuplicate, PaysNothing, PayingPcs, TypeInv, JobsInv, JobsOK,
      JobFromOK, Job, RowOK, At, Begin, Goto, Finish, Idle, Read, rowVars,
      rowButStatus, recordVars, faultVars, historyVars, CLAIMABLE_STATES,
      PaymentInv, CopyKnowsPart
<1>4. ASSUME NEW w \in Workers,
             CreateRefundDebit(w)
      PROVE  PaysNothing
  BY <1>4
  DEF CreateRefundDebit, PaysNothing, PayingPcs, TypeInv, JobsInv, JobsOK,
      JobFromOK, Job, RowOK, At, Begin, Goto, Finish, Idle, Read, rowVars,
      rowButStatus, recordVars, faultVars, historyVars, CLAIMABLE_STATES,
      PaymentInv, CopyKnowsPart
<1>5. ASSUME NEW w \in Workers, NEW t \in Payouts, NEW c \in Captains,
             ClaimRead(w, t, c)
      PROVE  PaysNothing
  BY <1>5
  DEF ClaimRead, PaysNothing, PayingPcs, TypeInv, JobsInv, JobsOK, JobFromOK,
      Job, RowOK, At, Begin, Goto, Finish, Idle, Read, rowVars, rowButStatus,
      recordVars, faultVars, historyVars, CLAIMABLE_STATES, PaymentInv,
      CopyKnowsPart
<1>6. ASSUME NEW w \in Workers, NEW t \in Payouts, NEW c \in Captains,
             ProofRead(w, t, c)
      PROVE  PaysNothing
  BY <1>6
  DEF ProofRead, PaysNothing, PayingPcs, TypeInv, JobsInv, JobsOK, JobFromOK,
      Job, RowOK, At, Begin, Goto, Finish, Idle, Read, rowVars, rowButStatus,
      recordVars, faultVars, historyVars, CLAIMABLE_STATES, PaymentInv,
      CopyKnowsPart
<1>7. ASSUME NEW w \in Workers,
             ClaimHold(w)
      PROVE  PaysNothing
  BY <1>7
  DEF ClaimHold, TakeHold, WithinCurrentLimit, PaysNothing, PayingPcs,
      TypeInv, JobsInv, JobsOK, JobFromOK, Job, RowOK, At, Begin, Goto,
      Finish, Idle, Read, rowVars, rowButStatus, recordVars, faultVars,
      historyVars, CLAIMABLE_STATES, PaymentInv, CopyKnowsPart
<1>8. ASSUME NEW w \in Workers,
             ClaimLost(w)
      PROVE  PaysNothing
  BY <1>8
  DEF ClaimLost, PaysNothing, PayingPcs, TypeInv, JobsInv, JobsOK, JobFromOK,
      Job, RowOK, At, Begin, Goto, Finish, Idle, Read, rowVars, rowButStatus,
      recordVars, faultVars, historyVars, CLAIMABLE_STATES, PaymentInv,
      CopyKnowsPart
<1>9. ASSUME NEW w \in Workers,
             ClaimRefused(w)
      PROVE  PaysNothing
  BY <1>9
  DEF ClaimRefused, PaysNothing, PayingPcs, TypeInv, JobsInv, JobsOK,
      JobFromOK, Job, RowOK, At, Begin, Goto, Finish, Idle, Read, rowVars,
      rowButStatus, recordVars, faultVars, historyVars, CLAIMABLE_STATES,
      PaymentInv, CopyKnowsPart
<1>10. ASSUME NEW w \in Workers,
             ClaimInTransaction(w)
      PROVE  PaysNothing
  BY <1>10
  DEF ClaimInTransaction, TakeHold, WithinCurrentLimit, AssignTo,
      RepricedShare, PaysNothing, PayingPcs, TypeInv, JobsInv, JobsOK,
      JobFromOK, Job, RowOK, At, Begin, Goto, Finish, Idle, Read, rowVars,
      rowButStatus, recordVars, faultVars, historyVars, CLAIMABLE_STATES,
      PaymentInv, CopyKnowsPart, HandsOver, DecidingPcs
<1>11. ASSUME NEW w \in Workers,
             ClaimWrite(w)
      PROVE  PaysNothing
  BY <1>11
  DEF ClaimWrite, AssignTo, RepricedShare, PaysNothing, PayingPcs, TypeInv,
      JobsInv, JobsOK, JobFromOK, Job, RowOK, At, Begin, Goto, Finish, Idle,
      Read, rowVars, rowButStatus, recordVars, faultVars, historyVars,
      CLAIMABLE_STATES, PaymentInv, CopyKnowsPart, HandsOver, DecidingPcs
<1>12. ASSUME NEW w \in Workers,
             ProofClaim(w)
      PROVE  PaysNothing
  BY <1>12
  DEF ProofClaim, PaysNothing, PayingPcs, TypeInv, JobsInv, JobsOK, JobFromOK,
      Job, RowOK, At, Begin, Goto, Finish, Idle, Read, rowVars, rowButStatus,
      recordVars, faultVars, historyVars, CLAIMABLE_STATES, PaymentInv,
      CopyKnowsPart
<1>13. ASSUME NEW w \in Workers,
             ProofCreate(w)
      PROVE  PaysNothing
  BY <1>13
  DEF ProofCreate, PaysNothing, PayingPcs, TypeInv, JobsInv, JobsOK,
      JobFromOK, Job, RowOK, At, Begin, Goto, Finish, Idle, Read, rowVars,
      rowButStatus, recordVars, faultVars, historyVars, CLAIMABLE_STATES,
      PaymentInv, CopyKnowsPart
<1>14. ASSUME NEW w \in Workers,
             ProofQueue(w)
      PROVE  PaysNothing
  BY <1>14
  DEF ProofQueue, PaysNothing, PayingPcs, TypeInv, JobsInv, JobsOK, JobFromOK,
      Job, RowOK, At, Begin, Goto, Finish, Idle, Read, rowVars, rowButStatus,
      recordVars, faultVars, historyVars, CLAIMABLE_STATES, PaymentInv,
      CopyKnowsPart
<1>15. ASSUME NEW w \in Workers,
             ProofAsk(w)
      PROVE  PaysNothing
  BY <1>15
  DEF ProofAsk, PaysNothing, PayingPcs, TypeInv, JobsInv, JobsOK, JobFromOK,
      Job, RowOK, At, Begin, Goto, Finish, Idle, Read, rowVars, rowButStatus,
      recordVars, faultVars, historyVars, CLAIMABLE_STATES, PaymentInv,
      CopyKnowsPart
<1>16. ASSUME NEW w \in Workers, NEW t \in Payouts, NEW next \in {"approve", "reject"},
             ClearDeadline(w, t, next)
      PROVE  PaysNothing
  BY <1>16
  DEF ClearDeadline, PaysNothing, PayingPcs, TypeInv, JobsInv, JobsOK,
      JobFromOK, Job, RowOK, At, Begin, Goto, Finish, Idle, Read, rowVars,
      rowButStatus, recordVars, faultVars, historyVars, CLAIMABLE_STATES,
      PaymentInv, CopyKnowsPart
<1>17. ASSUME NEW w \in Workers,
             ApproveAfterClear(w)
      PROVE  PaysNothing
  BY <1>17
  DEF ApproveAfterClear, PaysNothing, PayingPcs, TypeInv, JobsInv, JobsOK,
      JobFromOK, Job, RowOK, At, Begin, Goto, Finish, Idle, Read, rowVars,
      rowButStatus, recordVars, faultVars, historyVars, CLAIMABLE_STATES,
      PaymentInv, CopyKnowsPart
<1>18. ASSUME NEW w \in Workers,
             RejectAfterClear(w)
      PROVE  PaysNothing
  BY <1>18
  DEF RejectAfterClear, MarkRejected, PaysNothing, PayingPcs, TypeInv,
      JobsInv, JobsOK, JobFromOK, Job, RowOK, At, Begin, Goto, Finish, Idle,
      Read, rowVars, rowButStatus, recordVars, faultVars, historyVars,
      CLAIMABLE_STATES, PaymentInv, CopyKnowsPart
<1>19. ASSUME NEW w \in Workers, NEW t \in Payouts,
             ApproveRead(w, t)
      PROVE  PaysNothing
  BY <1>19
  DEF ApproveRead, PaysNothing, PayingPcs, TypeInv, JobsInv, JobsOK,
      JobFromOK, Job, RowOK, At, Begin, Goto, Finish, Idle, Read, rowVars,
      rowButStatus, recordVars, faultVars, historyVars, CLAIMABLE_STATES,
      PaymentInv, CopyKnowsPart
<1>20. ASSUME NEW w \in Workers, NEW t \in Payouts,
             OverruleRead(w, t)
      PROVE  PaysNothing
  BY <1>20
  DEF OverruleRead, PaysNothing, PayingPcs, TypeInv, JobsInv, JobsOK,
      JobFromOK, Job, RowOK, At, Begin, Goto, Finish, Idle, Read, rowVars,
      rowButStatus, recordVars, faultVars, historyVars, CLAIMABLE_STATES,
      PaymentInv, CopyKnowsPart
<1>21. ASSUME NEW w \in Workers, NEW t \in Payouts,
             ReassignRead(w, t)
      PROVE  PaysNothing
  BY <1>21
  DEF ReassignRead, PaysNothing, PayingPcs, TypeInv, JobsInv, JobsOK,
      JobFromOK, Job, RowOK, At, Begin, Goto, Finish, Idle, Read, rowVars,
      rowButStatus, recordVars, faultVars, historyVars, CLAIMABLE_STATES,
      PaymentInv, CopyKnowsPart
<1>22. ASSUME NEW w \in Workers,
             CompleteLost(w)
      PROVE  PaysNothing
  BY <1>22
  DEF CompleteLost, PaysNothing, PayingPcs, TypeInv, JobsInv, JobsOK,
      JobFromOK, Job, RowOK, At, Begin, Goto, Finish, Idle, Read, rowVars,
      rowButStatus, recordVars, faultVars, historyVars, CLAIMABLE_STATES,
      PaymentInv, CopyKnowsPart
<1>23. ASSUME NEW w \in Workers,
             ReassignWrite(w)
      PROVE  PaysNothing
  BY <1>23
  DEF ReassignWrite, ReturnToPool, PaysNothing, PayingPcs, TypeInv, JobsInv,
      JobsOK, JobFromOK, Job, RowOK, At, Begin, Goto, Finish, Idle, Read,
      rowVars, rowButStatus, recordVars, faultVars, historyVars,
      CLAIMABLE_STATES, PaymentInv, CopyKnowsPart
<1>24. ASSUME NEW w \in Workers,
             ReassignLost(w)
      PROVE  PaysNothing
  BY <1>24
  DEF ReassignLost, PaysNothing, PayingPcs, TypeInv, JobsInv, JobsOK,
      JobFromOK, Job, RowOK, At, Begin, Goto, Finish, Idle, Read, rowVars,
      rowButStatus, recordVars, faultVars, historyVars, CLAIMABLE_STATES,
      PaymentInv, CopyKnowsPart
<1>25. ASSUME NEW w \in Workers,
             ReassignSupersede(w)
      PROVE  PaysNothing
  BY <1>25
  DEF ReassignSupersede, PaysNothing, PayingPcs, TypeInv, JobsInv, JobsOK,
      JobFromOK, Job, RowOK, At, Begin, Goto, Finish, Idle, Read, rowVars,
      rowButStatus, recordVars, faultVars, historyVars, CLAIMABLE_STATES,
      PaymentInv, CopyKnowsPart
<1>26. ASSUME NEW w \in Workers,
             Release(w)
      PROVE  PaysNothing
  BY <1>26
  DEF Release, ReleaseHold, PaysNothing, PayingPcs, TypeInv, JobsInv, JobsOK,
      JobFromOK, Job, RowOK, At, Begin, Goto, Finish, Idle, Read, rowVars,
      rowButStatus, recordVars, faultVars, historyVars, CLAIMABLE_STATES,
      PaymentInv, CopyKnowsPart
<1>27. ASSUME NEW w \in Workers, NEW t \in Payouts,
             CancelUnclaimed(w, t)
      PROVE  PaysNothing
  BY <1>27
  DEF CancelUnclaimed, PaysNothing, PayingPcs, TypeInv, JobsInv, JobsOK,
      JobFromOK, Job, RowOK, At, Begin, Goto, Finish, Idle, Read, rowVars,
      rowButStatus, recordVars, faultVars, historyVars, CLAIMABLE_STATES,
      PaymentInv, CopyKnowsPart, CanTransition, TASK_TRANSITIONS, TaskStates
<1>28. ASSUME NEW w \in Workers, NEW t \in Payouts,
             ApproveCancellation(w, t)
      PROVE  PaysNothing
  BY <1>28
  DEF ApproveCancellation, PaysNothing, PayingPcs, TypeInv, JobsInv, JobsOK,
      JobFromOK, Job, RowOK, At, Begin, Goto, Finish, Idle, Read, rowVars,
      rowButStatus, recordVars, faultVars, historyVars, CLAIMABLE_STATES,
      PaymentInv, CopyKnowsPart
<1>29. ASSUME NEW w \in Workers,
             ReleaseCancelled(w)
      PROVE  PaysNothing
  BY <1>29
  DEF ReleaseCancelled, ReleaseHold, PaysNothing, PayingPcs, TypeInv, JobsInv,
      JobsOK, JobFromOK, Job, RowOK, At, Begin, Goto, Finish, Idle, Read,
      rowVars, rowButStatus, recordVars, faultVars, historyVars,
      CLAIMABLE_STATES, PaymentInv, CopyKnowsPart
<1>30. ASSUME NEW w \in Workers,
             RefundParty(w)
      PROVE  PaysNothing
  BY <1>30
  DEF RefundParty, PaysNothing, PayingPcs, TypeInv, JobsInv, JobsOK,
      JobFromOK, Job, RowOK, At, Begin, Goto, Finish, Idle, Read, rowVars,
      rowButStatus, recordVars, faultVars, historyVars, CLAIMABLE_STATES,
      PaymentInv, CopyKnowsPart
<1>31. ASSUME NEW w \in Workers, NEW t \in Payouts,
             ExpireRead(w, t)
      PROVE  PaysNothing
  BY <1>31
  DEF ExpireRead, PaysNothing, PayingPcs, TypeInv, JobsInv, JobsOK, JobFromOK,
      Job, RowOK, At, Begin, Goto, Finish, Idle, Read, rowVars, rowButStatus,
      recordVars, faultVars, historyVars, CLAIMABLE_STATES, PaymentInv,
      CopyKnowsPart
<1>32. ASSUME NEW w \in Workers, NEW t \in Payouts,
             ReturnRead(w, t)
      PROVE  PaysNothing
  BY <1>32
  DEF ReturnRead, PaysNothing, PayingPcs, TypeInv, JobsInv, JobsOK, JobFromOK,
      Job, RowOK, At, Begin, Goto, Finish, Idle, Read, rowVars, rowButStatus,
      recordVars, faultVars, historyVars, CLAIMABLE_STATES, PaymentInv,
      CopyKnowsPart
<1>33. ASSUME NEW w \in Workers,
             ExpireWrite(w)
      PROVE  PaysNothing
  BY <1>33
  DEF ExpireWrite, PaysNothing, PayingPcs, TypeInv, JobsInv, JobsOK,
      JobFromOK, Job, RowOK, At, Begin, Goto, Finish, Idle, Read, rowVars,
      rowButStatus, recordVars, faultVars, historyVars, CLAIMABLE_STATES,
      PaymentInv, CopyKnowsPart
<1>34. ASSUME NEW w \in Workers,
             ExpireLost(w)
      PROVE  PaysNothing
  BY <1>34
  DEF ExpireLost, PaysNothing, PayingPcs, TypeInv, JobsInv, JobsOK, JobFromOK,
      Job, RowOK, At, Begin, Goto, Finish, Idle, Read, rowVars, rowButStatus,
      recordVars, faultVars, historyVars, CLAIMABLE_STATES, PaymentInv,
      CopyKnowsPart
<1>35. ASSUME NEW w \in Workers,
             ReturnWrite(w)
      PROVE  PaysNothing
  BY <1>35
  DEF ReturnWrite, ReturnToPool, PaysNothing, PayingPcs, TypeInv, JobsInv,
      JobsOK, JobFromOK, Job, RowOK, At, Begin, Goto, Finish, Idle, Read,
      rowVars, rowButStatus, recordVars, faultVars, historyVars,
      CLAIMABLE_STATES, PaymentInv, CopyKnowsPart
<1>36. ASSUME NEW w \in Workers,
             ReturnLost(w)
      PROVE  PaysNothing
  BY <1>36
  DEF ReturnLost, PaysNothing, PayingPcs, TypeInv, JobsInv, JobsOK, JobFromOK,
      Job, RowOK, At, Begin, Goto, Finish, Idle, Read, rowVars, rowButStatus,
      recordVars, faultVars, historyVars, CLAIMABLE_STATES, PaymentInv,
      CopyKnowsPart
<1>37. ASSUME NEW t \in Payouts, NEW c \in Captains,
             StartTask(t, c)
      PROVE  PaysNothing
  BY <1>37
  DEF StartTask, PaysNothing, PayingPcs, TypeInv, JobsInv, JobsOK, JobFromOK,
      Job, RowOK, At, Begin, Goto, Finish, Idle, Read, rowVars, rowButStatus,
      recordVars, faultVars, historyVars, CLAIMABLE_STATES, PaymentInv,
      CopyKnowsPart
<1>38. ASSUME NEW t \in Payouts,
             RejectTask(t)
      PROVE  PaysNothing
  BY <1>38
  DEF RejectTask, MarkRejected, PaysNothing, PayingPcs, TypeInv, JobsInv,
      JobsOK, JobFromOK, Job, RowOK, At, Begin, Goto, Finish, Idle, Read,
      rowVars, rowButStatus, recordVars, faultVars, historyVars,
      CLAIMABLE_STATES, PaymentInv, CopyKnowsPart
<1>39. ASSUME NEW t \in Payouts,
             RequestCancellation(t)
      PROVE  PaysNothing
  BY <1>39
  DEF RequestCancellation, PaysNothing, PayingPcs, TypeInv, JobsInv, JobsOK,
      JobFromOK, Job, RowOK, At, Begin, Goto, Finish, Idle, Read, rowVars,
      rowButStatus, recordVars, faultVars, historyVars, CLAIMABLE_STATES,
      PaymentInv, CopyKnowsPart, CanTransition, TASK_TRANSITIONS, TaskStates
<1>40. ASSUME NEW t \in Payouts,
             DisputeCancellation(t)
      PROVE  PaysNothing
  BY <1>40
  DEF DisputeCancellation, PaysNothing, PayingPcs, TypeInv, JobsInv, JobsOK,
      JobFromOK, Job, RowOK, At, Begin, Goto, Finish, Idle, Read, rowVars,
      rowButStatus, recordVars, faultVars, historyVars, CLAIMABLE_STATES,
      PaymentInv, CopyKnowsPart
<1>41. ASSUME NEW t \in Payouts,
             RestoreDisputed(t)
      PROVE  PaysNothing
  BY <1>41
  DEF RestoreDisputed, PaysNothing, PayingPcs, TypeInv, JobsInv, JobsOK,
      JobFromOK, Job, RowOK, At, Begin, Goto, Finish, Idle, Read, rowVars,
      rowButStatus, recordVars, faultVars, historyVars, CLAIMABLE_STATES,
      PaymentInv, CopyKnowsPart, CanTransition, TASK_TRANSITIONS, TaskStates
<1>42. ASSUME NEW t \in Payouts, NEW k \in Clocks,
             ClockLapses(t, k)
      PROVE  PaysNothing
  BY <1>42
  DEF ClockLapses, Running, PaysNothing, PayingPcs, TypeInv, JobsInv, JobsOK,
      JobFromOK, Job, RowOK, At, Begin, Goto, Finish, Idle, Read, rowVars,
      rowButStatus, recordVars, faultVars, historyVars, CLAIMABLE_STATES,
      PaymentInv, CopyKnowsPart
<1>43. ASSUME UNCHANGED vars
      PROVE  PaysNothing
  BY <1>43
  DEF PaysNothing, vars, rowVars, rowButStatus, recordVars, faultVars,
      historyVars
<1>44. ASSUME Crash
      PROVE  PaymentInv'
  <2>1. CASE NeverHalfway
    <3>1. useTransactions
      <4> SUFFICES ASSUME ~useTransactions PROVE FALSE
        OBVIOUS
      <4>1. useTransactions = FALSE
        BY Zenon DEF TypeInv, HistoryOK
      <4>2. crashes < MaxCrashes[useTransactions]
        BY <1>44 DEF Crash
      <4>3. crashes < 0
        BY <2>1, <4>1, <4>2, Zenon DEF NeverHalfway
      <4> QED
        BY <4>3 DEF TypeInv, HistoryOK
    <3>2. ASSUME NEW w \in Workers
          PROVE  jobs[w].pc \notin PayingPcs
      BY <3>1 DEF PaymentInv, PaymentOK, Paying, PaidSoFar, PayingPcs, TypeInv, JobsInv, JobsOK
    <3>3. PaysNothing
      BY <1>44, <3>2
      DEF Crash, PaysNothing, Idle, PayingPcs, rowVars, rowButStatus, recordVars, historyVars
    <3> QED
      BY <3>3, PaysNothingStep
  <2>2. CASE ~NeverHalfway
    BY <1>44, <2>2
    DEF Crash, PaymentInv, PaymentOK, CopyKnowsPart, Paying, PayingPcs, Idle, rowVars,
        rowButStatus, recordVars
  <2> QED
    BY <2>1, <2>2
<1>45. ASSUME NEW w \in Workers, CompleteInTransaction(w)
      PROVE  PaymentInv'
  <2>1. PICK t \in Payouts, c \in Captains : t = jobs[w].t /\ c = jobs[w].c
    BY <1>45
    DEF CompleteInTransaction, MarkCompleted, CreditCommission,
        ReimburseCaptain, AllocationOwners, At, TypeInv, JobsInv, JobsOK,
        CaptainPcs
  <2>2. PaysFor(w, t)
    BY <1>45, <2>1
    DEF CompleteInTransaction, MarkCompleted, CreditCommission,
        ReimburseCaptain, AllocationOwners, PaysFor, At, Goto, Finish, Idle,
        PayingPcs, rowVars, rowButStatus, recordVars, faultVars, historyVars,
        TypeInv, RowOK, RecordsOK, HistoryOK, JobsInv, JobsOK, Job
  <2>3. /\ status[t] \in {"AUDIT_PENDING", "REJECTED"} /\ captainId[t] = c
        /\ jobs[w].platform = adminCommissionPaise[t]
    BY <1>45, <2>1, ConstantsAssumption
    DEF CompleteInTransaction, MarkCompleted, CreditCommission,
        ReimburseCaptain, AllocationOwners, At, TypeInv, JobsInv, JobFromOK,
        HasCaptain, DMC_HELD_STATES, HoldersKnown, CopyNamesHolder,
        DecidingPcs, PaymentInv, CopyKnowsPart
  <2>4. /\ commissionRow[t] = None /\ allocations[t] = {}
        /\ \A v \in Workers : ~Paying(v, t)
    BY <2>3 DEF PaymentInv, PaymentOK, PaidSoFar
  <2>5. reimbursed[t] = 0
    BY <2>3, OpenIsUnsettled DEF TERMINAL_STATES, Unsettled
  <2>6. /\ status'[t] = "COMPLETED" /\ captainId'[t] = c
        /\ commissionRow'[t] = c /\ reimbursed'[t] = 1 /\ paidCaptain'[t] = c
    <3>1. status'[t] = "COMPLETED" /\ captainId'[t] = c
      BY <1>45, <2>1, <2>3
      DEF CompleteInTransaction, MarkCompleted, TypeInv, RowOK
    <3>2. commissionRow'[t] = c
      BY <1>45, <2>1, <2>4
      DEF CompleteInTransaction, CreditCommission, TypeInv, RecordsOK
    <3>3. reimbursed'[t] = 1 /\ paidCaptain'[t] = c
      BY <1>45, <2>1, <2>5
      DEF CompleteInTransaction, ReimburseCaptain, TypeInv, HistoryOK
    <3> QED
      BY <3>1, <3>2, <3>3
  <2>7. allocations'[t] = {"CAPTAIN"} \cup (IF adminCommissionPaise'[t] > 0 THEN {"ADMIN"} ELSE {})
    BY <1>45, <2>1, <2>3, <2>4
    DEF CompleteInTransaction, MarkCompleted, CreditCommission,
        ReimburseCaptain, AllocationOwners, TypeInv, RecordsOK
  <2>8. \A v \in Workers : ~Paying(v, t)'
    BY <1>45, <2>2, <2>4
    DEF CompleteInTransaction, MarkCompleted, CreditCommission,
        ReimburseCaptain, AllocationOwners, PaysFor, Paying, PayingPcs,
        Finish, Idle, TypeInv, JobsInv, JobsOK
  <2>9. PaymentOK(t)'
    BY <2>6, <2>7, <2>8 DEF PaymentOK, InFull
  <2> QED
    BY <2>2, <2>9, OthersPaid
<1>46. ASSUME NEW w \in Workers, CompleteWrite(w)
      PROVE  PaymentInv'
  <2>1. PICK t \in Payouts, c \in Captains : t = jobs[w].t /\ c = jobs[w].c
    BY <1>46
    DEF CompleteWrite, MarkCompleted, At, TypeInv, JobsInv, JobsOK, CaptainPcs
  <2>2. PaysFor(w, t)
    BY <1>46, <2>1
    DEF CompleteWrite, MarkCompleted, PaysFor, At, Goto, Finish, Idle,
        PayingPcs, rowVars, rowButStatus, recordVars, faultVars, historyVars,
        TypeInv, RowOK, RecordsOK, HistoryOK, JobsInv, JobsOK, Job
  <2>3. /\ status[t] \in {"AUDIT_PENDING", "REJECTED"} /\ captainId[t] = c
        /\ jobs[w].platform = adminCommissionPaise[t]
    BY <1>46, <2>1, ConstantsAssumption
    DEF CompleteWrite, MarkCompleted, At, TypeInv, JobsInv, JobFromOK,
        HasCaptain, DMC_HELD_STATES, HoldersKnown, CopyNamesHolder,
        DecidingPcs, PaymentInv, CopyKnowsPart
  <2>4. /\ commissionRow[t] = None /\ allocations[t] = {}
        /\ \A v \in Workers : ~Paying(v, t)
    BY <2>3 DEF PaymentInv, PaymentOK, PaidSoFar
  <2>5. reimbursed[t] = 0
    BY <2>3, OpenIsUnsettled DEF TERMINAL_STATES, Unsettled
  <2>6. PaymentOK(t)'
    BY <1>46, <2>1, <2>2, <2>3, <2>4, <2>5
    DEF CompleteWrite, MarkCompleted, PaysFor, PaymentOK, Paying, PaidSoFar,
        InFull, PayingPcs, At, Goto, Finish, Idle, rowVars, rowButStatus,
        recordVars, faultVars, historyVars, TypeInv, RowOK, RecordsOK,
        HistoryOK, JobsInv, JobsOK, Job
  <2> QED
    BY <2>2, <2>6, OthersPaid
<1>47. ASSUME NEW w \in Workers, CompleteCommission(w)
      PROVE  PaymentInv'
  <2>1. PICK t \in Payouts, c \in Captains : t = jobs[w].t /\ c = jobs[w].c
    BY <1>47
    DEF CompleteCommission, CreditCommission, At, TypeInv, JobsInv, JobsOK,
        CaptainPcs
  <2>2. PaysFor(w, t)
    BY <1>47, <2>1
    DEF CompleteCommission, CreditCommission, PaysFor, At, Goto, Finish, Idle,
        PayingPcs, rowVars, rowButStatus, recordVars, faultVars, historyVars,
        TypeInv, RowOK, RecordsOK, HistoryOK, JobsInv, JobsOK, Job
  <2>3. PaidSoFar(w, t)
    BY <1>47, <2>1
    DEF CompleteCommission, CreditCommission, At, PaymentInv, PaymentOK,
        Paying, PayingPcs
  <2>4. PaymentOK(t)'
    BY <1>47, <2>1, <2>2, <2>3
    DEF CompleteCommission, CreditCommission, PaysFor, PaymentOK, Paying,
        PaidSoFar, InFull, PayingPcs, At, Goto, Finish, Idle, rowVars,
        rowButStatus, recordVars, faultVars, historyVars, TypeInv, RowOK,
        RecordsOK, HistoryOK, JobsInv, JobsOK, Job
  <2> QED
    BY <2>2, <2>4, OthersPaid
<1>48. ASSUME NEW w \in Workers, CompleteCollect(w)
      PROVE  PaymentInv'
  <2>1. PICK t \in Payouts, c \in Captains : t = jobs[w].t /\ c = jobs[w].c
    BY <1>48 DEF CompleteCollect, At, TypeInv, JobsInv, JobsOK, CaptainPcs
  <2>2. PaysFor(w, t)
    BY <1>48, <2>1
    DEF CompleteCollect, PaysFor, At, Goto, Finish, Idle, PayingPcs, rowVars,
        rowButStatus, recordVars, faultVars, historyVars, TypeInv, RowOK,
        RecordsOK, HistoryOK, JobsInv, JobsOK, Job
  <2>3. PaidSoFar(w, t)
    BY <1>48, <2>1
    DEF CompleteCollect, At, PaymentInv, PaymentOK, Paying, PayingPcs
  <2>4. PaymentOK(t)'
    BY <1>48, <2>1, <2>2, <2>3
    DEF CompleteCollect, PaysFor, PaymentOK, Paying, PaidSoFar, InFull,
        PayingPcs, At, Goto, Finish, Idle, rowVars, rowButStatus, recordVars,
        faultVars, historyVars, TypeInv, RowOK, RecordsOK, HistoryOK, JobsInv,
        JobsOK, Job
  <2> QED
    BY <2>2, <2>4, OthersPaid
<1>49. ASSUME NEW w \in Workers, CompleteReimburse(w)
      PROVE  PaymentInv'
  <2>1. PICK t \in Payouts, c \in Captains : t = jobs[w].t /\ c = jobs[w].c
    BY <1>49
    DEF CompleteReimburse, ReimburseCaptain, At, TypeInv, JobsInv, JobsOK,
        CaptainPcs
  <2>2. PaysFor(w, t)
    BY <1>49, <2>1
    DEF CompleteReimburse, ReimburseCaptain, PaysFor, At, Goto, Finish, Idle,
        PayingPcs, rowVars, rowButStatus, recordVars, faultVars, historyVars,
        TypeInv, RowOK, RecordsOK, HistoryOK, JobsInv, JobsOK, Job
  <2>3. PaidSoFar(w, t)
    BY <1>49, <2>1
    DEF CompleteReimburse, ReimburseCaptain, At, PaymentInv, PaymentOK,
        Paying, PayingPcs
  <2>4. reimbursed[t] = 0
    BY <1>49, <2>1
    DEF CompleteReimburse, ReimburseCaptain, At, SettleInv, Settling,
        SettlingPcs, Unsettled
  <2>5. PaymentOK(t)'
    BY <1>49, <2>1, <2>2, <2>3, <2>4
    DEF CompleteReimburse, ReimburseCaptain, PaysFor, PaymentOK, Paying,
        PaidSoFar, InFull, PayingPcs, At, Goto, Finish, Idle, rowVars,
        rowButStatus, recordVars, faultVars, historyVars, TypeInv, RowOK,
        RecordsOK, HistoryOK, JobsInv, JobsOK, Job
  <2> QED
    BY <2>2, <2>5, OthersPaid
<1>50. ASSUME NEW w \in Workers, CompletePayShare(w)
      PROVE  PaymentInv'
  <2>1. PICK t \in Payouts, c \in Captains : t = jobs[w].t /\ c = jobs[w].c
    BY <1>50 DEF CompletePayShare, At, TypeInv, JobsInv, JobsOK, CaptainPcs
  <2>2. PaysFor(w, t)
    BY <1>50, <2>1
    DEF CompletePayShare, PaysFor, At, Goto, Finish, Idle, PayingPcs, rowVars,
        rowButStatus, recordVars, faultVars, historyVars, TypeInv, RowOK,
        RecordsOK, HistoryOK, JobsInv, JobsOK, Job
  <2>3. PaidSoFar(w, t)
    BY <1>50, <2>1
    DEF CompletePayShare, At, PaymentInv, PaymentOK, Paying, PayingPcs
  <2>4. PaymentOK(t)'
    BY <1>50, <2>1, <2>2, <2>3
    DEF CompletePayShare, PaysFor, PaymentOK, Paying, PaidSoFar, InFull,
        PayingPcs, At, Goto, Finish, Idle, rowVars, rowButStatus, recordVars,
        faultVars, historyVars, TypeInv, RowOK, RecordsOK, HistoryOK, JobsInv,
        JobsOK, Job
  <2> QED
    BY <2>2, <2>4, OthersPaid
<1>51. ASSUME NEW w \in Workers, CompleteAllocateCaptain(w)
      PROVE  PaymentInv'
  <2>1. PICK t \in Payouts : t = jobs[w].t
    BY <1>51 DEF CompleteAllocateCaptain, At, TypeInv, JobsInv, JobsOK
  <2>2. PaysFor(w, t)
    BY <1>51, <2>1
    DEF CompleteAllocateCaptain, PaysFor, At, Goto, Finish, Idle, PayingPcs,
        rowVars, rowButStatus, recordVars, faultVars, historyVars, TypeInv,
        RowOK, RecordsOK, HistoryOK, JobsInv, JobsOK, Job
  <2>3. PaidSoFar(w, t)
    BY <1>51, <2>1
    DEF CompleteAllocateCaptain, At, PaymentInv, PaymentOK, Paying, PayingPcs
  <2>4. PaymentOK(t)'
    BY <1>51, <2>1, <2>2, <2>3
    DEF CompleteAllocateCaptain, PaysFor, PaymentOK, Paying, PaidSoFar,
        InFull, PayingPcs, At, Goto, Finish, Idle, rowVars, rowButStatus,
        recordVars, faultVars, historyVars, TypeInv, RowOK, RecordsOK,
        HistoryOK, JobsInv, JobsOK, Job
  <2> QED
    BY <2>2, <2>4, OthersPaid
<1>52. ASSUME NEW w \in Workers, CompleteAllocatePlatform(w)
      PROVE  PaymentInv'
  <2>1. PICK t \in Payouts : t = jobs[w].t
    BY <1>52
    DEF CompleteAllocatePlatform, AllocationOwners, At, TypeInv, JobsInv,
        JobsOK
  <2>2. PaysFor(w, t)
    BY <1>52, <2>1
    DEF CompleteAllocatePlatform, AllocationOwners, PaysFor, At, Goto, Finish,
        Idle, PayingPcs, rowVars, rowButStatus, recordVars, faultVars,
        historyVars, TypeInv, RowOK, RecordsOK, HistoryOK, JobsInv, JobsOK,
        Job
  <2>3. PaidSoFar(w, t)
    BY <1>52, <2>1
    DEF CompleteAllocatePlatform, AllocationOwners, At, PaymentInv, PaymentOK,
        Paying, PayingPcs
  <2>4. PaymentOK(t)'
    BY <1>52, <2>1, <2>2, <2>3
    DEF CompleteAllocatePlatform, AllocationOwners, PaysFor, PaymentOK,
        Paying, PaidSoFar, InFull, PayingPcs, At, Goto, Finish, Idle, rowVars,
        rowButStatus, recordVars, faultVars, historyVars, TypeInv, RowOK,
        RecordsOK, HistoryOK, JobsInv, JobsOK, Job
  <2> QED
    BY <2>2, <2>4, OthersPaid
<1> QED
  BY <1>1, <1>2, <1>3, <1>4, <1>5, <1>6, <1>7, <1>8, <1>9, <1>10, <1>11,
     <1>12, <1>13, <1>14, <1>15, <1>16, <1>17, <1>18, <1>19, <1>20, <1>21,
     <1>22, <1>23, <1>24, <1>25, <1>26, <1>27, <1>28, <1>29, <1>30, <1>31,
     <1>32, <1>33, <1>34, <1>35, <1>36, <1>37, <1>38, <1>39, <1>40, <1>41,
     <1>42, <1>43, <1>44, <1>45, <1>46, <1>47, <1>48, <1>49, <1>50, <1>51,
     <1>52, PaysNothingStep
  DEF Next, Request, Decision, Sweep, JobStep, ConfirmReceived,
      ConfirmNotReceived, AutoApproveOnTimeout, CancelStale, RejectExpired,
      ReclaimExpired, Workers

\* As long as no payout changes hands under a request that has read it, and a
\* server without transactions is not stopped half way, a completed payout has
\* paid its captain and its records say so, once nothing runs on it.
THEOREM CompletionPaysInFull ==
  ASSUME PromptRequests, MaxCrashes[FALSE] = 0
  PROVE  Spec => []CompletedInFull
<1>1. Init => TypeInv /\ SettleInv /\ HoldersKnown
  BY TypeInit, SettleInit, HoldersInit
<1>2. Init => PaymentInv
  BY DEF Init, PaymentInv, PaymentOK, CopyKnowsPart, Paying, PayingPcs, Idle
<1>3. TypeInv /\ SettleInv /\ HoldersKnown /\ PaymentInv /\ [Next]_vars
        => SettleInv' /\ HoldersKnown' /\ PaymentInv'
  BY SettleStep, HoldersKnownStep, PaymentStep
<1>4. PaymentInv => CompletedInFull
  BY DEF PaymentInv, PaymentOK, Paying, InFull, CompletedInFull, NeverHalfway
<1> QED
  BY <1>1, <1>2, <1>3, <1>4, TypeInvariant, PTL DEF Spec

-----------------------------------------------------------------------------
(* Exclusion *)

\* A claim that is under way was not barred when it was read, and has not
\* been barred since.
ClaimsAreOpen ==
  \A w \in Workers :
    jobs[w].pc \in ClaimingPcs => jobs[w].c \notin previousCaptainIds[jobs[w].t]

\* What one step does to the captain of t and to the list of those barred.
Excludes(t) == captainId'[t] # captainId[t] => captainId'[t] \notin previousCaptainIds[t]

\* A step that starts no claim and leaves captains and exclusions alone.
NoClaim ==
  /\ UNCHANGED <<captainId, previousCaptainIds>>
  /\ \A w \in Workers : jobs'[w] = jobs[w] \/ jobs'[w].pc \notin ClaimingPcs

LEMMA NoClaimStep ==
  ASSUME TypeInv, ClaimsAreOpen, NoClaim
  PROVE  ClaimsAreOpen' /\ \A u \in Payouts : Excludes(u)
BY DEF ClaimsAreOpen, NoClaim, Excludes

LEMMA ExclusionStep ==
  ASSUME PromptRequests, TypeInv, ClaimsAreOpen, [Next]_vars
  PROVE  ClaimsAreOpen' /\ \A u \in Payouts : Excludes(u)
<1> DEFINE Goal == ClaimsAreOpen' /\ \A u \in Payouts : Excludes(u)
<1>1. ASSUME NEW w \in Workers, NEW t \in Payouts,
             CreateDebit(w, t)
      PROVE  NoClaim
  BY <1>1 DEF CreateDebit, NoClaim, TypeInv, JobsInv, JobsOK, Job, At, Begin,
     Goto, Finish, Idle, Read, ClaimingPcs, rowVars, rowButStatus
<1>2. ASSUME NEW w \in Workers,
             CreateInsert(w) \/ CreateDuplicate(w) \/
               CreateRefundDebit(w)
      PROVE  NoClaim
  BY <1>2 DEF CreateInsert, CreateDuplicate, CreateRefundDebit, NoClaim,
     TypeInv, JobsInv, JobsOK, Job, At, Begin, Goto, Finish, Idle, Read,
     ClaimingPcs, rowVars, rowButStatus
<1>3. ASSUME NEW w \in Workers, NEW t \in Payouts, NEW c \in Captains,
             ProofRead(w, t, c)
      PROVE  NoClaim
  BY <1>3 DEF ProofRead, NoClaim, TypeInv, JobsInv, JobsOK, Job, At, Begin,
     Goto, Finish, Idle, Read, ClaimingPcs, rowVars, rowButStatus
<1>4. ASSUME NEW w \in Workers,
             ClaimLost(w) \/ ClaimRefused(w)
      PROVE  NoClaim
  BY <1>4 DEF ClaimLost, ClaimRefused, NoClaim, TypeInv, JobsInv, JobsOK, Job,
     At, Begin, Goto, Finish, Idle, Read, ClaimingPcs, rowVars, rowButStatus
<1>5. ASSUME NEW w \in Workers,
             ProofClaim(w) \/ ProofCreate(w) \/ ProofQueue(w) \/
               ProofAsk(w)
      PROVE  NoClaim
  BY <1>5 DEF ProofClaim, ProofCreate, ProofQueue, ProofAsk, NoClaim, TypeInv,
     JobsInv, JobsOK, Job, At, Begin, Goto, Finish, Idle, Read, ClaimingPcs,
     rowVars, rowButStatus
<1>6. ASSUME NEW w \in Workers, NEW t \in Payouts, NEW next \in {"approve", "reject"},
             ClearDeadline(w, t, next)
      PROVE  NoClaim
  BY <1>6 DEF ClearDeadline, NoClaim, TypeInv, JobsInv, JobsOK, Job, At,
     Begin, Goto, Finish, Idle, Read, ClaimingPcs, rowVars, rowButStatus
<1>7. ASSUME NEW w \in Workers,
             ApproveAfterClear(w) \/ RejectAfterClear(w)
      PROVE  NoClaim
  BY <1>7 DEF ApproveAfterClear, RejectAfterClear, MarkRejected, NoClaim,
     TypeInv, JobsInv, JobsOK, Job, At, Begin, Goto, Finish, Idle, Read,
     ClaimingPcs, rowVars, rowButStatus
<1>8. ASSUME NEW w \in Workers, NEW t \in Payouts,
             ApproveRead(w, t) \/ OverruleRead(w, t) \/ ReassignRead(w,
               t)
      PROVE  NoClaim
  BY <1>8 DEF ApproveRead, OverruleRead, ReassignRead, NoClaim, TypeInv,
     JobsInv, JobsOK, Job, At, Begin, Goto, Finish, Idle, Read, ClaimingPcs,
     rowVars, rowButStatus
<1>9. ASSUME NEW w \in Workers,
             CompleteInTransaction(w) \/ CompleteWrite(w) \/
               CompleteLost(w)
      PROVE  NoClaim
  BY <1>9 DEF CompleteInTransaction, MarkCompleted, CreditCommission,
     ReimburseCaptain, AllocationOwners, CompleteWrite, CompleteLost, NoClaim,
     TypeInv, JobsInv, JobsOK, Job, At, Begin, Goto, Finish, Idle, Read,
     ClaimingPcs, rowVars, rowButStatus
<1>10. ASSUME NEW w \in Workers,
             CompleteCommission(w) \/ CompleteCollect(w) \/
               CompleteReimburse(w)
      PROVE  NoClaim
  BY <1>10 DEF CompleteCommission, CreditCommission, CompleteCollect,
     CompleteReimburse, ReimburseCaptain, NoClaim, TypeInv, JobsInv, JobsOK,
     Job, At, Begin, Goto, Finish, Idle, Read, ClaimingPcs, rowVars,
     rowButStatus
<1>11. ASSUME NEW w \in Workers,
             CompletePayShare(w) \/ CompleteAllocateCaptain(w) \/
               CompleteAllocatePlatform(w)
      PROVE  NoClaim
  BY <1>11 DEF CompletePayShare, CompleteAllocateCaptain,
     CompleteAllocatePlatform, AllocationOwners, NoClaim, TypeInv, JobsInv,
     JobsOK, Job, At, Begin, Goto, Finish, Idle, Read, ClaimingPcs, rowVars,
     rowButStatus
<1>12. ASSUME NEW w \in Workers,
             ReassignLost(w) \/ ReassignSupersede(w) \/ Release(w)
      PROVE  NoClaim
  BY <1>12 DEF ReassignLost, ReassignSupersede, Release, ReleaseHold, NoClaim,
     TypeInv, JobsInv, JobsOK, Job, At, Begin, Goto, Finish, Idle, Read,
     ClaimingPcs, rowVars, rowButStatus
<1>13. ASSUME NEW w \in Workers, NEW t \in Payouts,
             CancelUnclaimed(w, t) \/ ApproveCancellation(w, t)
      PROVE  NoClaim
  BY <1>13 DEF CancelUnclaimed, ApproveCancellation, NoClaim, TypeInv,
     JobsInv, JobsOK, Job, At, Begin, Goto, Finish, Idle, Read, ClaimingPcs,
     rowVars, rowButStatus
<1>14. ASSUME NEW w \in Workers,
             ReleaseCancelled(w) \/ RefundParty(w)
      PROVE  NoClaim
  BY <1>14 DEF ReleaseCancelled, ReleaseHold, RefundParty, NoClaim, TypeInv,
     JobsInv, JobsOK, Job, At, Begin, Goto, Finish, Idle, Read, ClaimingPcs,
     rowVars, rowButStatus
<1>15. ASSUME NEW w \in Workers, NEW t \in Payouts,
             ExpireRead(w, t) \/ ReturnRead(w, t)
      PROVE  NoClaim
  BY <1>15 DEF ExpireRead, ReturnRead, NoClaim, TypeInv, JobsInv, JobsOK, Job,
     At, Begin, Goto, Finish, Idle, Read, ClaimingPcs, rowVars, rowButStatus
<1>16. ASSUME NEW w \in Workers,
             ExpireWrite(w) \/ ExpireLost(w) \/ ReturnLost(w)
      PROVE  NoClaim
  BY <1>16 DEF ExpireWrite, ExpireLost, ReturnLost, NoClaim, TypeInv, JobsInv,
     JobsOK, Job, At, Begin, Goto, Finish, Idle, Read, ClaimingPcs, rowVars,
     rowButStatus
<1>17. ASSUME NEW t \in Payouts, NEW c \in Captains,
             StartTask(t, c)
      PROVE  NoClaim
  BY <1>17 DEF StartTask, NoClaim, TypeInv, JobsInv, JobsOK, Job, At, Begin,
     Goto, Finish, Idle, Read, ClaimingPcs, rowVars, rowButStatus
<1>18. ASSUME NEW t \in Payouts,
             RejectTask(t) \/ RequestCancellation(t) \/
               DisputeCancellation(t) \/ RestoreDisputed(t)
      PROVE  NoClaim
  BY <1>18 DEF RejectTask, MarkRejected, RequestCancellation,
     DisputeCancellation, RestoreDisputed, NoClaim, TypeInv, JobsInv, JobsOK,
     Job, At, Begin, Goto, Finish, Idle, Read, ClaimingPcs, rowVars,
     rowButStatus
<1>19. ASSUME NEW t \in Payouts, NEW k \in Clocks,
             ClockLapses(t, k)
      PROVE  NoClaim
  BY <1>19 DEF ClockLapses, Running, NoClaim, TypeInv, JobsInv, JobsOK, Job,
     At, Begin, Goto, Finish, Idle, Read, ClaimingPcs, rowVars, rowButStatus
<1>20. ASSUME Crash
      PROVE  NoClaim
  BY <1>20 DEF Crash, NoClaim, TypeInv, JobsInv, JobsOK, Job, At, Begin, Goto,
     Finish, Idle, Read, ClaimingPcs, rowVars, rowButStatus
<1>21. ASSUME UNCHANGED vars
      PROVE  NoClaim
  BY <1>21 DEF vars, rowVars, rowButStatus, NoClaim
<1>22. ASSUME NEW w \in Workers, NEW t \in Payouts, NEW c \in Captains, ClaimRead(w, t, c)
      PROVE  Goal
  BY <1>22
  DEF ClaimRead, Begin, At, Read, ClaimsAreOpen, Excludes, TypeInv, JobsInv, JobsOK,
      Job, rowVars, rowButStatus
<1>23. ASSUME NEW w \in Workers, ClaimHold(w)
      PROVE  Goal
  BY <1>23
  DEF ClaimHold, Goto, At, ClaimsAreOpen, Excludes, TypeInv, JobsInv, JobsOK, Job,
      ClaimingPcs, rowVars, rowButStatus
<1>24. ASSUME NEW w \in Workers, ClaimInTransaction(w) \/ ClaimWrite(w)
      PROVE  Goal
  <2> DEFINE t == jobs[w].t
             c == jobs[w].c
  <2>1. t \in Payouts /\ c \notin previousCaptainIds[t]
    BY <1>24
    DEF ClaimInTransaction, ClaimWrite, At, ClaimsAreOpen, ClaimingPcs, TypeInv,
        JobsInv, JobsOK
  <2>2. captainId' = [captainId EXCEPT ![t] = c] /\ UNCHANGED previousCaptainIds
    BY <1>24 DEF ClaimInTransaction, ClaimWrite, AssignTo
  <2>3. \A u \in Payouts : Excludes(u)
    BY <2>1, <2>2 DEF Excludes, TypeInv, RowOK
  <2>4. jobs' = [jobs EXCEPT ![w] = Idle]
    BY <1>24 DEF ClaimInTransaction, ClaimWrite, Finish
  <2>5. ClaimsAreOpen'
    BY <2>2, <2>4 DEF ClaimsAreOpen, Idle, ClaimingPcs, TypeInv, JobsInv, JobsOK
  <2> QED
    BY <2>3, <2>5
<1>25. ASSUME NEW w \in Workers, ReassignWrite(w) \/ ReturnWrite(w)
      PROVE  Goal
  <2> DEFINE t == jobs[w].t
  <2>1. t \in Payouts /\ jobs \in [Workers -> Job]
    BY <1>25 DEF ReassignWrite, ReturnWrite, At, TypeInv, JobsInv, JobsOK
  <2>2. /\ captainId' = [captainId EXCEPT ![t] = None]
        /\ \E c : previousCaptainIds' = [previousCaptainIds EXCEPT ![t] = @ \cup ({c} \ {None})]
    BY <1>25 DEF ReassignWrite, ReturnWrite, ReturnToPool
  <2>3. None \notin previousCaptainIds[t]
    BY <2>1, ConstantsAssumption DEF TypeInv, RowOK
  <2>4. \A u \in Payouts : Excludes(u)
    BY <2>1, <2>2, <2>3 DEF Excludes, TypeInv, RowOK
  <2>5. jobs'[w].pc \notin ClaimingPcs /\ \A v \in Workers \ {w} : jobs'[v] = jobs[v]
    BY <1>25, <2>1 DEF ReassignWrite, ReturnWrite, Goto, Finish, Idle, Job, ClaimingPcs
  <2>6. \A v \in Workers \ {w} : jobs[v].t = t => jobs[v].pc \notin ClaimingPcs
    BY <1>25 DEF ReassignWrite, ReturnWrite, HandsOver
  <2>7. ClaimsAreOpen'
    <3> SUFFICES ASSUME NEW v \in Workers, jobs'[v].pc \in ClaimingPcs
                 PROVE  jobs'[v].c \notin previousCaptainIds'[jobs'[v].t]
      BY DEF ClaimsAreOpen
    <3>1. v # w /\ jobs'[v] = jobs[v] /\ jobs[v].t # t
      BY <2>5, <2>6
    <3>2. jobs[v].t \in Payouts
      BY <3>1 DEF TypeInv, JobsInv, JobsOK, ClaimingPcs
    <3> QED
      BY <2>2, <3>1, <3>2 DEF ClaimsAreOpen, TypeInv, RowOK
  <2> QED
    BY <2>4, <2>7
<1> QED
  BY <1>1, <1>2, <1>3, <1>4, <1>5, <1>6, <1>7, <1>8, <1>9, <1>10, <1>11,
     <1>12, <1>13, <1>14, <1>15, <1>16, <1>17, <1>18, <1>19, <1>20, <1>21,
     <1>22, <1>23, <1>24, <1>25, NoClaimStep DEF Next, Request, Decision,
     Sweep, JobStep, ConfirmReceived, ConfirmNotReceived,
     AutoApproveOnTimeout, CancelStale, RejectExpired, ReclaimExpired, Workers

\* As long as no payout changes hands under a request that has read it, a
\* captain who lost a payout never holds it again.
THEOREM ExclusionHolds ==
  ASSUME PromptRequests
  PROVE  Spec => ExclusionIsPermanent
<1>1. Init => ClaimsAreOpen
  BY DEF Init, ClaimsAreOpen, Idle, ClaimingPcs
<1>2. TypeInv /\ ClaimsAreOpen /\ [Next]_vars => ClaimsAreOpen'
  BY ExclusionStep
<1>3. TypeInv /\ ClaimsAreOpen /\ [Next]_vars => [\A t \in Payouts : Excludes(t)]_vars
  BY ExclusionStep
<1>4. ExclusionIsPermanent <=> [][\A t \in Payouts : Excludes(t)]_vars
  BY PTL DEF ExclusionIsPermanent, Excludes
<1> QED
  BY <1>1, <1>2, <1>3, <1>4, TypeInvariant, PTL DEF Spec

-----------------------------------------------------------------------------
(* The promise *)

\* What the promise knows of t does not change.
EscrowStill(t) ==
  /\ Stage(status'[t]) = Stage(status[t])
  /\ captainId'[t] = captainId[t] /\ previousCaptainIds'[t] = previousCaptainIds[t]
  /\ Credited(t)' = Credited(t)

\* Nor of any other payout.
OnlyFor(t) == \A u \in Payouts \ {t} : EscrowStill(u)

PromiseKept == [Escrowed!Next]_(Escrowed!vars)

LEMMA StillKeeps ==
  ASSUME TypeInv, TypeInv', \A t \in Payouts : EscrowStill(t)
  PROVE  PromiseKept
<1>1. captainId' = captainId /\ previousCaptainIds' = previousCaptainIds
  BY DEF EscrowStill, TypeInv, RowOK
<1>2. [t \in Payouts |-> Stage(status'[t])] = [t \in Payouts |-> Stage(status[t])]
  BY DEF EscrowStill
<1>3. [t \in Payouts |-> Credited(t)'] = [t \in Payouts |-> Credited(t)]
  BY DEF EscrowStill
<1> QED
  BY <1>1, <1>2, <1>3 DEF PromiseKept, Escrowed!vars

\* The stages of the promise, the holders, those barred and the credits.
LEMMA ForOne ==
  ASSUME TypeInv, TypeInv', NEW t \in Payouts, OnlyFor(t)
  PROVE  /\ [u \in Payouts |-> Stage(status'[u])]
              = [[u \in Payouts |-> Stage(status[u])] EXCEPT ![t] = Stage(status'[t])]
         /\ captainId' = [captainId EXCEPT ![t] = captainId'[t]]
         /\ previousCaptainIds' = [previousCaptainIds EXCEPT ![t] = previousCaptainIds'[t]]
         /\ [u \in Payouts |-> Credited(u)']
              = [[u \in Payouts |-> Credited(u)] EXCEPT ![t] = Credited(t)']
<1>1. \A u \in Payouts \ {t} : EscrowStill(u)
  BY DEF OnlyFor
<1>2. captainId \in [Payouts -> Captains \cup {None}] /\ captainId' \in [Payouts -> Captains \cup {None}]
  BY DEF TypeInv, RowOK
<1>3. previousCaptainIds \in [Payouts -> SUBSET Captains] /\ previousCaptainIds' \in [Payouts -> SUBSET Captains]
  BY DEF TypeInv, RowOK
<1>4. [u \in Payouts |-> Stage(status'[u])]
        = [[u \in Payouts |-> Stage(status[u])] EXCEPT ![t] = Stage(status'[t])]
  BY <1>1 DEF EscrowStill
<1>5. [u \in Payouts |-> Credited(u)']
        = [[u \in Payouts |-> Credited(u)] EXCEPT ![t] = Credited(t)']
  BY <1>1 DEF EscrowStill
<1>6. captainId' = [captainId EXCEPT ![t] = captainId'[t]]
  BY <1>1, <1>2 DEF EscrowStill
<1>7. previousCaptainIds' = [previousCaptainIds EXCEPT ![t] = previousCaptainIds'[t]]
  BY <1>1, <1>3 DEF EscrowStill
<1> QED
  BY <1>4, <1>5, <1>6, <1>7

\* What is the same for t as well is the same altogether.
LEMMA SameForAll ==
  ASSUME TypeInv, TypeInv', NEW t \in Payouts, OnlyFor(t)
  PROVE  /\ captainId'[t] = captainId[t] => captainId' = captainId
         /\ previousCaptainIds'[t] = previousCaptainIds[t] => previousCaptainIds' = previousCaptainIds
         /\ Credited(t)' = Credited(t) => [u \in Payouts |-> Credited(u)'] = [u \in Payouts |-> Credited(u)]
         /\ Stage(status'[t]) = Stage(status[t]) =>
              [u \in Payouts |-> Stage(status'[u])] = [u \in Payouts |-> Stage(status[u])]
<1>1. \A u \in Payouts \ {t} : EscrowStill(u)
  BY DEF OnlyFor
<1>2. captainId \in [Payouts -> Captains \cup {None}] /\ captainId' \in [Payouts -> Captains \cup {None}]
  BY DEF TypeInv, RowOK
<1>3. previousCaptainIds \in [Payouts -> SUBSET Captains] /\ previousCaptainIds' \in [Payouts -> SUBSET Captains]
  BY DEF TypeInv, RowOK
<1>4. captainId'[t] = captainId[t] => captainId' = captainId
  BY <1>1, <1>2 DEF EscrowStill
<1>5. previousCaptainIds'[t] = previousCaptainIds[t] => previousCaptainIds' = previousCaptainIds
  BY <1>1, <1>3 DEF EscrowStill
<1>6. Credited(t)' = Credited(t) =>
        [u \in Payouts |-> Credited(u)'] = [u \in Payouts |-> Credited(u)]
  BY <1>1 DEF EscrowStill
<1>7. Stage(status'[t]) = Stage(status[t]) =>
        [u \in Payouts |-> Stage(status'[u])] = [u \in Payouts |-> Stage(status[u])]
  BY <1>1 DEF EscrowStill
<1> QED
  BY <1>4, <1>5, <1>6, <1>7

LEMMA KeepsCommit ==
  ASSUME TypeInv, TypeInv', NEW t \in Payouts, OnlyFor(t),
         Stage(status[t]) = "none",
         Stage(status'[t]) = "open",
         captainId'[t] = captainId[t],
         previousCaptainIds'[t] = previousCaptainIds[t],
         Credited(t)' = Credited(t)
  PROVE  PromiseKept
<1>1. Escrowed!Commit(t)
  BY ForOne, SameForAll DEF Escrowed!Commit, Escrowed!Move
<1> QED
  BY <1>1 DEF PromiseKept, Escrowed!Next

LEMMA KeepsTake ==
  ASSUME TypeInv, TypeInv', NEW t \in Payouts, NEW c \in Captains, OnlyFor(t),
         Stage(status[t]) = "open",
         Stage(status'[t]) = "taken",
         captainId'[t] = c,
         c \notin previousCaptainIds[t],
         previousCaptainIds'[t] = previousCaptainIds[t],
         Credited(t)' = Credited(t)
  PROVE  PromiseKept
<1>1. Escrowed!Take(t, c)
  BY ForOne, SameForAll DEF Escrowed!Take, Escrowed!Move
<1> QED
  BY <1>1 DEF PromiseKept, Escrowed!Next

LEMMA KeepsLapse ==
  ASSUME TypeInv, TypeInv', NEW t \in Payouts, OnlyFor(t),
         Stage(status[t]) = "taken",
         Stage(status'[t]) = "lapsed",
         captainId'[t] = captainId[t],
         previousCaptainIds'[t] = previousCaptainIds[t],
         Credited(t)' = Credited(t)
  PROVE  PromiseKept
<1>1. Escrowed!Lapse(t)
  BY ForOne, SameForAll DEF Escrowed!Lapse, Escrowed!Move
<1> QED
  BY <1>1 DEF PromiseKept, Escrowed!Next

LEMMA KeepsGiveUp ==
  ASSUME TypeInv, TypeInv', NEW t \in Payouts, OnlyFor(t),
         Stage(status[t]) \in {"taken", "lapsed"},
         Stage(status'[t]) = "open",
         captainId'[t] = None,
         previousCaptainIds'[t] = previousCaptainIds[t] \cup {captainId[t]},
         Credited(t)' = Credited(t)
  PROVE  PromiseKept
<1>1. Escrowed!GiveUp(t)
  BY ForOne, SameForAll DEF Escrowed!GiveUp, Escrowed!Move
<1> QED
  BY <1>1 DEF PromiseKept, Escrowed!Next

LEMMA KeepsRefund ==
  ASSUME TypeInv, TypeInv', NEW t \in Payouts, OnlyFor(t),
         Stage(status[t]) \in {"open", "taken"},
         Stage(status'[t]) = "refunded",
         captainId'[t] = captainId[t],
         previousCaptainIds'[t] = previousCaptainIds[t],
         Credited(t)' = Credited(t)
  PROVE  PromiseKept
<1>1. Escrowed!Refund(t)
  BY ForOne, SameForAll DEF Escrowed!Refund, Escrowed!Move
<1> QED
  BY <1>1 DEF PromiseKept, Escrowed!Next

LEMMA KeepsPay ==
  ASSUME TypeInv, TypeInv', NEW t \in Payouts, OnlyFor(t),
         Stage(status[t]) = "taken",
         Stage(status'[t]) = "paid",
         captainId'[t] = captainId[t],
         previousCaptainIds'[t] = previousCaptainIds[t],
         \/ Credited(t)' = Credited(t)
         \/ Credited(t) = {} /\ Credited(t)' = {<<captainId[t], 1>>}
  PROVE  PromiseKept
<1>1. Escrowed!Pay(t)
  BY ForOne, SameForAll
  DEF Escrowed!Pay, Escrowed!Move, Escrowed!CreditNow, Escrowed!Owed
<1> QED
  BY <1>1 DEF PromiseKept, Escrowed!Next

LEMMA KeepsCredit ==
  ASSUME TypeInv, TypeInv', NEW t \in Payouts, OnlyFor(t),
         Stage(status[t]) \in {"paid", "refunded"},
         Stage(status'[t]) = Stage(status[t]),
         captainId'[t] = captainId[t],
         previousCaptainIds'[t] = previousCaptainIds[t],
         Credited(t) = {},
         Credited(t)' = {IF Stage(status[t]) = "paid" THEN <<captainId[t], 1>> ELSE <<"PARTY", 1>>}
  PROVE  PromiseKept
<1>1. Escrowed!Credit(t)
  BY ForOne, SameForAll
  DEF Escrowed!Credit, Escrowed!Move, Escrowed!CreditNow, Escrowed!Owed
<1> QED
  BY <1>1 DEF PromiseKept, Escrowed!Next

\* A step that moves no payout to another stage, holder or credit.
Unmoved ==
  /\ UNCHANGED <<captainId, previousCaptainIds, refunded, reimbursed, paidCaptain>>
  /\ \A t \in Payouts : Stage(status'[t]) = Stage(status[t])

LEMMA UnmovedKeeps ==
  ASSUME TypeInv, TypeInv', Unmoved
  PROVE  PromiseKept
<1>1. \A t \in Payouts : EscrowStill(t)
  BY DEF Unmoved, EscrowStill, Credited
<1> QED
  BY <1>1, StillKeeps

\* The row and the records of settlement of u stay as they are.
SettledAsBefore(u) ==
  /\ status'[u] = status[u] /\ captainId'[u] = captainId[u]
  /\ previousCaptainIds'[u] = previousCaptainIds[u]
  /\ refunded'[u] = refunded[u] /\ reimbursed'[u] = reimbursed[u]
  /\ paidCaptain'[u] = paidCaptain[u]

LEMMA OthersStill ==
  ASSUME NEW t \in Payouts, \A u \in Payouts \ {t} : SettledAsBefore(u)
  PROVE  OnlyFor(t)
BY DEF OnlyFor, EscrowStill, SettledAsBefore, Credited

LEMMA PromiseStep ==
  ASSUME PromptRequests, TypeInv, TypeInv', CopiesAgree, SettleInv, HoldersKnown,
         PaymentInv, ClaimsAreOpen, [Next]_vars
  PROVE  PromiseKept
<1>1. ASSUME NEW w \in Workers, NEW t \in Payouts,
             CreateDebit(w, t)
      PROVE  Unmoved
  BY <1>1
  DEF CreateDebit, Unmoved, rowVars, rowButStatus, recordVars, moneyVars,
      historyVars, vars
<1>2. ASSUME NEW w \in Workers,
             CreateDuplicate(w) \/ CreateRefundDebit(w)
      PROVE  Unmoved
  BY <1>2
  DEF CreateDuplicate, CreateRefundDebit, Unmoved, rowVars, rowButStatus,
      recordVars, moneyVars, historyVars, vars
<1>3. ASSUME NEW w \in Workers, NEW t \in Payouts, NEW c \in Captains,
             ClaimRead(w, t, c) \/ ProofRead(w, t, c)
      PROVE  Unmoved
  BY <1>3
  DEF ClaimRead, ProofRead, Unmoved, rowVars, rowButStatus, recordVars,
      moneyVars, historyVars, vars
<1>4. ASSUME NEW w \in Workers,
             ClaimHold(w) \/ ClaimLost(w) \/ ClaimRefused(w)
      PROVE  Unmoved
  BY <1>4
  DEF ClaimHold, TakeHold, WithinCurrentLimit, ClaimLost, ClaimRefused,
      Unmoved, rowVars, rowButStatus, recordVars, moneyVars, historyVars, vars
<1>5. ASSUME NEW w \in Workers,
             ProofCreate(w) \/ ProofAsk(w)
      PROVE  Unmoved
  BY <1>5
  DEF ProofCreate, ProofAsk, Unmoved, rowVars, rowButStatus, recordVars,
      moneyVars, historyVars, vars
<1>6. ASSUME NEW w \in Workers, ProofClaim(w)
      PROVE  Unmoved
  BY <1>6
  DEF ProofClaim, Unmoved, rowVars, rowButStatus, recordVars, moneyVars,
      historyVars, vars, Stage, CLAIMABLE_STATES, TypeInv, RowOK
<1>7. ASSUME NEW w \in Workers, ProofQueue(w)
      PROVE  Unmoved
  BY <1>7
  DEF ProofQueue, Unmoved, rowVars, rowButStatus, recordVars, moneyVars,
      historyVars, vars, Stage, CLAIMABLE_STATES, TypeInv, RowOK
<1>8. ASSUME NEW w \in Workers, NEW t \in Payouts, NEW next \in {"approve", "reject"},
             ClearDeadline(w, t, next)
      PROVE  Unmoved
  BY <1>8
  DEF ClearDeadline, Unmoved, rowVars, rowButStatus, recordVars, moneyVars,
      historyVars, vars
<1>9. ASSUME NEW w \in Workers,
             ApproveAfterClear(w)
      PROVE  Unmoved
  BY <1>9
  DEF ApproveAfterClear, Unmoved, rowVars, rowButStatus, recordVars,
      moneyVars, historyVars, vars
<1>10. ASSUME NEW w \in Workers, RejectAfterClear(w)
      PROVE  Unmoved
  BY <1>10
  DEF RejectAfterClear, MarkRejected, Unmoved, rowVars, rowButStatus,
      recordVars, moneyVars, historyVars, vars, Stage, CLAIMABLE_STATES,
      TypeInv, RowOK
<1>11. ASSUME NEW w \in Workers, NEW t \in Payouts,
             ApproveRead(w, t) \/ OverruleRead(w, t) \/ ReassignRead(w,
             t)
      PROVE  Unmoved
  BY <1>11
  DEF ApproveRead, OverruleRead, ReassignRead, Unmoved, rowVars, rowButStatus,
      recordVars, moneyVars, historyVars, vars
<1>12. ASSUME NEW w \in Workers,
             CompleteLost(w)
      PROVE  Unmoved
  BY <1>12
  DEF CompleteLost, Unmoved, rowVars, rowButStatus, recordVars, moneyVars,
      historyVars, vars
<1>13. ASSUME NEW w \in Workers,
             CompleteCommission(w) \/ CompleteCollect(w)
      PROVE  Unmoved
  BY <1>13
  DEF CompleteCommission, CreditCommission, CompleteCollect, Unmoved, rowVars,
      rowButStatus, recordVars, moneyVars, historyVars, vars
<1>14. ASSUME NEW w \in Workers,
             CompletePayShare(w) \/ CompleteAllocateCaptain(w) \/
             CompleteAllocatePlatform(w)
      PROVE  Unmoved
  BY <1>14
  DEF CompletePayShare, CompleteAllocateCaptain, CompleteAllocatePlatform,
      AllocationOwners, Unmoved, rowVars, rowButStatus, recordVars, moneyVars,
      historyVars, vars
<1>15. ASSUME NEW w \in Workers,
             ReassignLost(w) \/ ReassignSupersede(w) \/ Release(w)
      PROVE  Unmoved
  BY <1>15
  DEF ReassignLost, ReassignSupersede, Release, ReleaseHold, Unmoved, rowVars,
      rowButStatus, recordVars, moneyVars, historyVars, vars
<1>16. ASSUME NEW w \in Workers,
             ReleaseCancelled(w)
      PROVE  Unmoved
  BY <1>16
  DEF ReleaseCancelled, ReleaseHold, Unmoved, rowVars, rowButStatus,
      recordVars, moneyVars, historyVars, vars
<1>17. ASSUME NEW w \in Workers, NEW t \in Payouts,
             ExpireRead(w, t) \/ ReturnRead(w, t)
      PROVE  Unmoved
  BY <1>17
  DEF ExpireRead, ReturnRead, Unmoved, rowVars, rowButStatus, recordVars,
      moneyVars, historyVars, vars
<1>18. ASSUME NEW w \in Workers,
             ExpireLost(w) \/ ReturnLost(w)
      PROVE  Unmoved
  BY <1>18
  DEF ExpireLost, ReturnLost, Unmoved, rowVars, rowButStatus, recordVars,
      moneyVars, historyVars, vars
<1>19. ASSUME NEW t \in Payouts, NEW c \in Captains, StartTask(t, c)
      PROVE  Unmoved
  BY <1>19
  DEF StartTask, Unmoved, rowVars, rowButStatus, recordVars, moneyVars,
      historyVars, vars, Stage, CLAIMABLE_STATES, TypeInv, RowOK
<1>20. ASSUME NEW t \in Payouts, RejectTask(t)
      PROVE  Unmoved
  BY <1>20
  DEF RejectTask, MarkRejected, Unmoved, rowVars, rowButStatus, recordVars,
      moneyVars, historyVars, vars, Stage, CLAIMABLE_STATES, TypeInv, RowOK
<1>21. ASSUME NEW t \in Payouts, RequestCancellation(t)
      PROVE  Unmoved
  BY <1>21
  DEF RequestCancellation, Unmoved, rowVars, rowButStatus, recordVars,
      moneyVars, historyVars, vars, Stage, CLAIMABLE_STATES, TypeInv, RowOK,
      CanTransition, TASK_TRANSITIONS, TaskStates
<1>22. ASSUME NEW t \in Payouts, DisputeCancellation(t)
      PROVE  Unmoved
  BY <1>22
  DEF DisputeCancellation, Unmoved, rowVars, rowButStatus, recordVars,
      moneyVars, historyVars, vars, Stage, CLAIMABLE_STATES, TypeInv, RowOK
<1>23. ASSUME NEW t \in Payouts, RestoreDisputed(t)
      PROVE  Unmoved
  BY <1>23
  DEF RestoreDisputed, Unmoved, rowVars, rowButStatus, recordVars, moneyVars,
      historyVars, vars, Stage, CLAIMABLE_STATES, TypeInv, RowOK, CopiesAgree,
      RowAgrees
<1>24. ASSUME NEW t \in Payouts, NEW k \in Clocks,
             ClockLapses(t, k)
      PROVE  Unmoved
  BY <1>24
  DEF ClockLapses, Running, Unmoved, rowVars, rowButStatus, recordVars,
      moneyVars, historyVars, vars
<1>25. ASSUME Crash
      PROVE  Unmoved
  BY <1>25
  DEF Crash, Unmoved, rowVars, rowButStatus, recordVars, moneyVars,
      historyVars, vars
<1>26. ASSUME UNCHANGED vars
      PROVE  Unmoved
  BY <1>26
  DEF Unmoved, rowVars, rowButStatus, recordVars, moneyVars, historyVars, vars
<1>27. ASSUME NEW w \in Workers, CreateInsert(w)
      PROVE  PromiseKept
  <2>1. PICK t \in Payouts : t = jobs[w].t
    BY <1>27 DEF CreateInsert, MarkCompleted, At, TypeInv, JobsInv, JobsOK
  <2>2. OnlyFor(t)
    <3>1. \A u \in Payouts \ {t} : SettledAsBefore(u)
      BY <1>27, <2>1
      DEF CreateInsert, SettledAsBefore, rowVars, rowButStatus, historyVars,
          TypeInv, RowOK, HistoryOK
    <3> QED
      BY <3>1, OthersStill
  <2>3. Stage(status[t]) = "none"
    BY <1>27, <2>1
    DEF CreateInsert, At, Stage, CLAIMABLE_STATES, TypeInv, RowOK
  <2>4. Stage(status'[t]) = "open"
    BY <1>27, <2>1
    DEF CreateInsert, At, Stage, CLAIMABLE_STATES, TypeInv, RowOK
  <2>5. captainId'[t] = captainId[t]
    BY <1>27, <2>1
    DEF CreateInsert, rowVars, rowButStatus, historyVars, recordVars, Credited
  <2>6. previousCaptainIds'[t] = previousCaptainIds[t]
    BY <1>27, <2>1
    DEF CreateInsert, rowVars, rowButStatus, historyVars, recordVars, Credited
  <2>7. Credited(t)' = Credited(t)
    BY <1>27, <2>1
    DEF CreateInsert, rowVars, rowButStatus, historyVars, recordVars, Credited
  <2> QED
    BY <2>2, <2>3, <2>4, <2>5, <2>6, <2>7, KeepsCommit
<1>28. ASSUME NEW w \in Workers, ClaimInTransaction(w)
      PROVE  PromiseKept
  <2>1. PICK t \in Payouts : t = jobs[w].t
    BY <1>28
    DEF ClaimInTransaction, MarkCompleted, At, TypeInv, JobsInv, JobsOK
  <2>2. PICK c \in Captains : c = jobs[w].c
    BY <1>28, <2>1
    DEF ClaimInTransaction, At, TypeInv, JobsInv, JobsOK, CaptainPcs,
        ClaimingPcs
  <2>3. OnlyFor(t)
    <3>1. \A u \in Payouts \ {t} : SettledAsBefore(u)
      BY <1>28, <2>1, <2>2
      DEF ClaimInTransaction, TakeHold, WithinCurrentLimit, AssignTo,
          RepricedShare, SettledAsBefore, rowVars, rowButStatus, historyVars,
          TypeInv, RowOK, HistoryOK
    <3> QED
      BY <3>1, OthersStill
  <2>4. Stage(status[t]) = "open"
    BY <1>28, <2>1, <2>2
    DEF ClaimInTransaction, TakeHold, WithinCurrentLimit, AssignTo,
        RepricedShare, At, Stage, CLAIMABLE_STATES, TypeInv, RowOK
  <2>5. Stage(status'[t]) = "taken"
    BY <1>28, <2>1, <2>2
    DEF ClaimInTransaction, TakeHold, WithinCurrentLimit, AssignTo,
        RepricedShare, At, Stage, CLAIMABLE_STATES, TypeInv, RowOK
  <2>6. captainId'[t] = c
    BY <1>28, <2>1, <2>2
    DEF ClaimInTransaction, TakeHold, WithinCurrentLimit, AssignTo,
        RepricedShare, TypeInv, RowOK
  <2>7. c \notin previousCaptainIds[t]
    BY <1>28, <2>1, <2>2
    DEF ClaimInTransaction, TakeHold, WithinCurrentLimit, AssignTo,
        RepricedShare, At, ClaimsAreOpen, ClaimingPcs
  <2>8. previousCaptainIds'[t] = previousCaptainIds[t]
    BY <1>28, <2>1, <2>2
    DEF ClaimInTransaction, TakeHold, WithinCurrentLimit, AssignTo,
        RepricedShare, rowVars, rowButStatus, historyVars, recordVars,
        Credited
  <2>9. Credited(t)' = Credited(t)
    BY <1>28, <2>1, <2>2
    DEF ClaimInTransaction, TakeHold, WithinCurrentLimit, AssignTo,
        RepricedShare, rowVars, rowButStatus, historyVars, recordVars,
        Credited
  <2> QED
    BY <2>3, <2>4, <2>5, <2>6, <2>7, <2>8, <2>9, KeepsTake
<1>29. ASSUME NEW w \in Workers, ClaimWrite(w)
      PROVE  PromiseKept
  <2>1. PICK t \in Payouts : t = jobs[w].t
    BY <1>29 DEF ClaimWrite, MarkCompleted, At, TypeInv, JobsInv, JobsOK
  <2>2. PICK c \in Captains : c = jobs[w].c
    BY <1>29, <2>1
    DEF ClaimWrite, At, TypeInv, JobsInv, JobsOK, CaptainPcs, ClaimingPcs
  <2>3. OnlyFor(t)
    <3>1. \A u \in Payouts \ {t} : SettledAsBefore(u)
      BY <1>29, <2>1, <2>2
      DEF ClaimWrite, AssignTo, RepricedShare, SettledAsBefore, rowVars,
          rowButStatus, historyVars, TypeInv, RowOK, HistoryOK
    <3> QED
      BY <3>1, OthersStill
  <2>4. Stage(status[t]) = "open"
    BY <1>29, <2>1, <2>2
    DEF ClaimWrite, AssignTo, RepricedShare, At, Stage, CLAIMABLE_STATES,
        TypeInv, RowOK
  <2>5. Stage(status'[t]) = "taken"
    BY <1>29, <2>1, <2>2
    DEF ClaimWrite, AssignTo, RepricedShare, At, Stage, CLAIMABLE_STATES,
        TypeInv, RowOK
  <2>6. captainId'[t] = c
    BY <1>29, <2>1, <2>2
    DEF ClaimWrite, AssignTo, RepricedShare, TypeInv, RowOK
  <2>7. c \notin previousCaptainIds[t]
    BY <1>29, <2>1, <2>2
    DEF ClaimWrite, AssignTo, RepricedShare, At, ClaimsAreOpen, ClaimingPcs
  <2>8. previousCaptainIds'[t] = previousCaptainIds[t]
    BY <1>29, <2>1, <2>2
    DEF ClaimWrite, AssignTo, RepricedShare, rowVars, rowButStatus,
        historyVars, recordVars, Credited
  <2>9. Credited(t)' = Credited(t)
    BY <1>29, <2>1, <2>2
    DEF ClaimWrite, AssignTo, RepricedShare, rowVars, rowButStatus,
        historyVars, recordVars, Credited
  <2> QED
    BY <2>3, <2>4, <2>5, <2>6, <2>7, <2>8, <2>9, KeepsTake
<1>30. ASSUME NEW w \in Workers, ExpireWrite(w)
      PROVE  PromiseKept
  <2>1. PICK t \in Payouts : t = jobs[w].t
    BY <1>30 DEF ExpireWrite, MarkCompleted, At, TypeInv, JobsInv, JobsOK
  <2>2. OnlyFor(t)
    <3>1. \A u \in Payouts \ {t} : SettledAsBefore(u)
      BY <1>30, <2>1
      DEF ExpireWrite, SettledAsBefore, rowVars, rowButStatus, historyVars,
          TypeInv, RowOK, HistoryOK
    <3> QED
      BY <3>1, OthersStill
  <2>3. Stage(status[t]) = "taken"
    BY <1>30, <2>1
    DEF ExpireWrite, At, JobsInv, JobFromOK, Stage, CLAIMABLE_STATES, TypeInv,
        RowOK
  <2>4. Stage(status'[t]) = "lapsed"
    BY <1>30, <2>1 DEF ExpireWrite, Stage, CLAIMABLE_STATES, TypeInv, RowOK
  <2>5. captainId'[t] = captainId[t]
    BY <1>30, <2>1
    DEF ExpireWrite, rowVars, rowButStatus, historyVars, recordVars, Credited
  <2>6. previousCaptainIds'[t] = previousCaptainIds[t]
    BY <1>30, <2>1
    DEF ExpireWrite, rowVars, rowButStatus, historyVars, recordVars, Credited
  <2>7. Credited(t)' = Credited(t)
    BY <1>30, <2>1
    DEF ExpireWrite, rowVars, rowButStatus, historyVars, recordVars, Credited
  <2> QED
    BY <2>2, <2>3, <2>4, <2>5, <2>6, <2>7, KeepsLapse
<1>31. ASSUME NEW w \in Workers, ReassignWrite(w)
      PROVE  PromiseKept
  <2>1. PICK t \in Payouts : t = jobs[w].t
    BY <1>31 DEF ReassignWrite, MarkCompleted, At, TypeInv, JobsInv, JobsOK
  <2>2. OnlyFor(t)
    <3>1. \A u \in Payouts \ {t} : SettledAsBefore(u)
      BY <1>31, <2>1
      DEF ReassignWrite, ReturnToPool, SettledAsBefore, rowVars, rowButStatus,
          historyVars, TypeInv, RowOK, HistoryOK
    <3> QED
      BY <3>1, OthersStill
  <2>3. status[t] \in {"REJECTED", "CANCEL_DISPUTED"}
    BY <1>31, <2>1
    DEF ReassignWrite, ReturnToPool, At, TypeInv, JobsInv, JobFromOK
  <2>4. captainId[t] \in Captains /\ captainId[t] = jobs[w].c
    BY <1>31, <2>1, <2>3, ConstantsAssumption
    DEF ReassignWrite, ReturnToPool, At, TypeInv, HasCaptain, DMC_HELD_STATES,
        HoldersKnown, CopyNamesHolder, DecidingPcs
  <2>5. Stage(status[t]) \in {"taken", "lapsed"}
    BY <1>31, <2>1, <2>3 DEF Stage, CLAIMABLE_STATES
  <2>6. Stage(status'[t]) = "open"
    BY <1>31, <2>1
    DEF ReassignWrite, ReturnToPool, Stage, CLAIMABLE_STATES, TypeInv, RowOK
  <2>7. captainId'[t] = None
    BY <1>31, <2>1 DEF ReassignWrite, ReturnToPool, TypeInv, RowOK
  <2>8. previousCaptainIds'[t] = previousCaptainIds[t] \cup {captainId[t]}
    BY <1>31, <2>1, <2>4, ConstantsAssumption
    DEF ReassignWrite, ReturnToPool, TypeInv, RowOK
  <2>9. Credited(t)' = Credited(t)
    BY <1>31, <2>1
    DEF ReassignWrite, ReturnToPool, rowVars, rowButStatus, historyVars,
        recordVars, Credited
  <2> QED
    BY <2>2, <2>3, <2>4, <2>5, <2>6, <2>7, <2>8, <2>9, KeepsGiveUp
<1>32. ASSUME NEW w \in Workers, ReturnWrite(w)
      PROVE  PromiseKept
  <2>1. PICK t \in Payouts : t = jobs[w].t
    BY <1>32 DEF ReturnWrite, MarkCompleted, At, TypeInv, JobsInv, JobsOK
  <2>2. OnlyFor(t)
    <3>1. \A u \in Payouts \ {t} : SettledAsBefore(u)
      BY <1>32, <2>1
      DEF ReturnWrite, ReturnToPool, SettledAsBefore, rowVars, rowButStatus,
          historyVars, TypeInv, RowOK, HistoryOK
    <3> QED
      BY <3>1, OthersStill
  <2>3. status[t] \in {"EXPIRED"}
    BY <1>32, <2>1
    DEF ReturnWrite, ReturnToPool, At, TypeInv, JobsInv, JobFromOK
  <2>4. captainId[t] \in Captains /\ captainId[t] = jobs[w].c
    BY <1>32, <2>1, <2>3, ConstantsAssumption
    DEF ReturnWrite, ReturnToPool, At, TypeInv, HasCaptain, DMC_HELD_STATES,
        HoldersKnown, CopyNamesHolder, DecidingPcs
  <2>5. Stage(status[t]) \in {"taken", "lapsed"}
    BY <1>32, <2>1, <2>3 DEF Stage, CLAIMABLE_STATES
  <2>6. Stage(status'[t]) = "open"
    BY <1>32, <2>1
    DEF ReturnWrite, ReturnToPool, Stage, CLAIMABLE_STATES, TypeInv, RowOK
  <2>7. captainId'[t] = None
    BY <1>32, <2>1 DEF ReturnWrite, ReturnToPool, TypeInv, RowOK
  <2>8. previousCaptainIds'[t] = previousCaptainIds[t] \cup {captainId[t]}
    BY <1>32, <2>1, <2>4, ConstantsAssumption
    DEF ReturnWrite, ReturnToPool, TypeInv, RowOK
  <2>9. Credited(t)' = Credited(t)
    BY <1>32, <2>1
    DEF ReturnWrite, ReturnToPool, rowVars, rowButStatus, historyVars,
        recordVars, Credited
  <2> QED
    BY <2>2, <2>3, <2>4, <2>5, <2>6, <2>7, <2>8, <2>9, KeepsGiveUp
<1>33. ASSUME NEW w \in Workers, NEW t \in Payouts, CancelUnclaimed(w, t)
      PROVE  PromiseKept
  <2>1. OnlyFor(t)
    <3>1. \A u \in Payouts \ {t} : SettledAsBefore(u)
      BY <1>33
      DEF CancelUnclaimed, SettledAsBefore, rowVars, rowButStatus,
          historyVars, TypeInv, RowOK, HistoryOK
    <3> QED
      BY <3>1, OthersStill
  <2>2. Stage(status[t]) \in {"open", "taken"}
    BY <1>33
    DEF CancelUnclaimed, CanTransition, TASK_TRANSITIONS, TaskStates, Stage,
        CLAIMABLE_STATES, TypeInv, RowOK
  <2>3. Stage(status'[t]) = "refunded"
    BY <1>33 DEF CancelUnclaimed, Stage, CLAIMABLE_STATES, TypeInv, RowOK
  <2>4. captainId'[t] = captainId[t]
    BY <1>33
    DEF CancelUnclaimed, rowVars, rowButStatus, historyVars, recordVars,
        Credited
  <2>5. previousCaptainIds'[t] = previousCaptainIds[t]
    BY <1>33
    DEF CancelUnclaimed, rowVars, rowButStatus, historyVars, recordVars,
        Credited
  <2>6. Credited(t)' = Credited(t)
    BY <1>33
    DEF CancelUnclaimed, rowVars, rowButStatus, historyVars, recordVars,
        Credited
  <2> QED
    BY <2>1, <2>2, <2>3, <2>4, <2>5, <2>6, KeepsRefund
<1>34. ASSUME NEW w \in Workers, NEW t \in Payouts, ApproveCancellation(w, t)
      PROVE  PromiseKept
  <2>1. OnlyFor(t)
    <3>1. \A u \in Payouts \ {t} : SettledAsBefore(u)
      BY <1>34
      DEF ApproveCancellation, SettledAsBefore, rowVars, rowButStatus,
          historyVars, TypeInv, RowOK, HistoryOK
    <3> QED
      BY <3>1, OthersStill
  <2>2. Stage(status[t]) \in {"open", "taken"}
    BY <1>34 DEF ApproveCancellation, Stage, CLAIMABLE_STATES, TypeInv, RowOK
  <2>3. Stage(status'[t]) = "refunded"
    BY <1>34 DEF ApproveCancellation, Stage, CLAIMABLE_STATES, TypeInv, RowOK
  <2>4. captainId'[t] = captainId[t]
    BY <1>34
    DEF ApproveCancellation, rowVars, rowButStatus, historyVars, recordVars,
        Credited
  <2>5. previousCaptainIds'[t] = previousCaptainIds[t]
    BY <1>34
    DEF ApproveCancellation, rowVars, rowButStatus, historyVars, recordVars,
        Credited
  <2>6. Credited(t)' = Credited(t)
    BY <1>34
    DEF ApproveCancellation, rowVars, rowButStatus, historyVars, recordVars,
        Credited
  <2> QED
    BY <2>1, <2>2, <2>3, <2>4, <2>5, <2>6, KeepsRefund
<1>35. ASSUME NEW w \in Workers, CompleteInTransaction(w)
      PROVE  PromiseKept
  <2>1. PICK t \in Payouts : t = jobs[w].t
    BY <1>35
    DEF CompleteInTransaction, MarkCompleted, At, TypeInv, JobsInv, JobsOK
  <2>2. PICK c \in Captains : c = jobs[w].c
    BY <1>35, <2>1
    DEF CompleteInTransaction, MarkCompleted, At, TypeInv, JobsInv, JobsOK,
        CaptainPcs
  <2>3. OnlyFor(t)
    <3>1. \A u \in Payouts \ {t} : SettledAsBefore(u)
      BY <1>35, <2>1, <2>2
      DEF CompleteInTransaction, MarkCompleted, CreditCommission,
          ReimburseCaptain, AllocationOwners, SettledAsBefore, rowVars,
          rowButStatus, historyVars, TypeInv, RowOK, HistoryOK
    <3> QED
      BY <3>1, OthersStill
  <2>4. status[t] \in {"AUDIT_PENDING", "REJECTED"}
    BY <1>35, <2>1, <2>2
    DEF CompleteInTransaction, MarkCompleted, CreditCommission,
        ReimburseCaptain, AllocationOwners, At, TypeInv, JobsInv, JobFromOK
  <2>5. captainId[t] = c
    BY <1>35, <2>1, <2>2, <2>4, ConstantsAssumption
    DEF CompleteInTransaction, MarkCompleted, CreditCommission,
        ReimburseCaptain, AllocationOwners, At, TypeInv, HasCaptain,
        DMC_HELD_STATES, HoldersKnown, CopyNamesHolder, DecidingPcs
  <2>6. refunded[t] = 0 /\ reimbursed[t] = 0
    BY <1>35, <2>1, <2>2, <2>4, OpenIsUnsettled DEF TERMINAL_STATES, Unsettled
  <2>7. refunded'[t] = 0 /\ reimbursed'[t] = 1 /\ paidCaptain'[t] = c
    BY <1>35, <2>1, <2>2, <2>6
    DEF CompleteInTransaction, MarkCompleted, CreditCommission,
        ReimburseCaptain, AllocationOwners, TypeInv, HistoryOK
  <2>8. Credited(t) = {} /\ Credited(t)' = {<<captainId[t], 1>>}
    BY <1>35, <2>1, <2>2, <2>5, <2>6, <2>7 DEF Credited
  <2>9. Stage(status[t]) = "taken"
    BY <1>35, <2>1, <2>2, <2>4 DEF Stage, CLAIMABLE_STATES
  <2>10. Stage(status'[t]) = "paid"
    BY <1>35, <2>1, <2>2
    DEF CompleteInTransaction, MarkCompleted, CreditCommission,
        ReimburseCaptain, AllocationOwners, Stage, CLAIMABLE_STATES, TypeInv,
        RowOK
  <2>11. captainId'[t] = captainId[t]
    BY <1>35, <2>1, <2>2
    DEF CompleteInTransaction, MarkCompleted, CreditCommission,
        ReimburseCaptain, AllocationOwners
  <2>12. previousCaptainIds'[t] = previousCaptainIds[t]
    BY <1>35, <2>1, <2>2
    DEF CompleteInTransaction, MarkCompleted, CreditCommission,
        ReimburseCaptain, AllocationOwners
  <2> QED
    BY <2>3, <2>4, <2>5, <2>6, <2>7, <2>8, <2>9, <2>10, <2>11, <2>12, KeepsPay
<1>36. ASSUME NEW w \in Workers, CompleteWrite(w)
      PROVE  PromiseKept
  <2>1. PICK t \in Payouts : t = jobs[w].t
    BY <1>36 DEF CompleteWrite, MarkCompleted, At, TypeInv, JobsInv, JobsOK
  <2>2. OnlyFor(t)
    <3>1. \A u \in Payouts \ {t} : SettledAsBefore(u)
      BY <1>36, <2>1
      DEF CompleteWrite, MarkCompleted, SettledAsBefore, rowVars,
          rowButStatus, historyVars, TypeInv, RowOK, HistoryOK
    <3> QED
      BY <3>1, OthersStill
  <2>3. status[t] \in {"AUDIT_PENDING", "REJECTED"}
    BY <1>36, <2>1
    DEF CompleteWrite, MarkCompleted, At, TypeInv, JobsInv, JobFromOK
  <2>4. Stage(status[t]) = "taken"
    BY <1>36, <2>1, <2>3 DEF Stage, CLAIMABLE_STATES
  <2>5. Stage(status'[t]) = "paid"
    BY <1>36, <2>1
    DEF CompleteWrite, MarkCompleted, Stage, CLAIMABLE_STATES, TypeInv, RowOK
  <2>6. captainId'[t] = captainId[t]
    BY <1>36, <2>1
    DEF CompleteWrite, MarkCompleted, rowVars, rowButStatus, historyVars,
        recordVars, Credited
  <2>7. previousCaptainIds'[t] = previousCaptainIds[t]
    BY <1>36, <2>1
    DEF CompleteWrite, MarkCompleted, rowVars, rowButStatus, historyVars,
        recordVars, Credited
  <2>8. Credited(t)' = Credited(t)
    BY <1>36, <2>1
    DEF CompleteWrite, MarkCompleted, rowVars, rowButStatus, historyVars,
        recordVars, Credited
  <2> QED
    BY <2>2, <2>3, <2>4, <2>5, <2>6, <2>7, <2>8, KeepsPay
<1>37. ASSUME NEW w \in Workers, CompleteReimburse(w)
      PROVE  PromiseKept
  <2>1. PICK t \in Payouts : t = jobs[w].t
    BY <1>37
    DEF CompleteReimburse, MarkCompleted, At, TypeInv, JobsInv, JobsOK
  <2>2. PICK c \in Captains : c = jobs[w].c
    BY <1>37, <2>1
    DEF CompleteReimburse, MarkCompleted, At, TypeInv, JobsInv, JobsOK,
        CaptainPcs
  <2>3. OnlyFor(t)
    <3>1. \A u \in Payouts \ {t} : SettledAsBefore(u)
      BY <1>37, <2>1, <2>2
      DEF CompleteReimburse, ReimburseCaptain, SettledAsBefore, rowVars,
          rowButStatus, historyVars, TypeInv, RowOK, HistoryOK
    <3> QED
      BY <3>1, OthersStill
  <2>4. status[t] = "COMPLETED" /\ captainId[t] = c
    BY <1>37, <2>1, <2>2
    DEF CompleteReimburse, ReimburseCaptain, At, PaymentInv, PaymentOK,
        Paying, PayingPcs, PaidSoFar
  <2>5. refunded[t] = 0 /\ reimbursed[t] = 0
    BY <1>37, <2>1, <2>2
    DEF CompleteReimburse, ReimburseCaptain, At, SettleInv, Settling,
        SettlingPcs, Unsettled
  <2>6. refunded'[t] = 0 /\ reimbursed'[t] = 1 /\ paidCaptain'[t] = c
    BY <1>37, <2>1, <2>2, <2>5
    DEF CompleteReimburse, ReimburseCaptain, TypeInv, HistoryOK
  <2>7. Stage(status[t]) = "paid"
    BY <1>37, <2>1, <2>2, <2>4 DEF Stage, CLAIMABLE_STATES
  <2>8. Stage(status'[t]) = Stage(status[t])
    BY <1>37, <2>1, <2>2 DEF CompleteReimburse, ReimburseCaptain, rowVars
  <2>9. /\ Credited(t) = {}
        /\ Credited(t)' = {IF Stage(status[t]) = "paid" THEN <<captainId[t], 1>> ELSE <<"PARTY", 1>>}
    BY <1>37, <2>1, <2>2, <2>4, <2>5, <2>6, <2>7 DEF Credited
  <2>10. captainId'[t] = captainId[t]
    BY <1>37, <2>1, <2>2
    DEF CompleteReimburse, ReimburseCaptain, rowVars, rowButStatus
  <2>11. previousCaptainIds'[t] = previousCaptainIds[t]
    BY <1>37, <2>1, <2>2
    DEF CompleteReimburse, ReimburseCaptain, rowVars, rowButStatus
  <2> QED
    BY <2>3, <2>4, <2>5, <2>6, <2>7, <2>8, <2>9, <2>10, <2>11, KeepsCredit
<1>38. ASSUME NEW w \in Workers, RefundParty(w)
      PROVE  PromiseKept
  <2>1. PICK t \in Payouts : t = jobs[w].t
    BY <1>38 DEF RefundParty, MarkCompleted, At, TypeInv, JobsInv, JobsOK
  <2>2. OnlyFor(t)
    <3>1. \A u \in Payouts \ {t} : SettledAsBefore(u)
      BY <1>38, <2>1
      DEF RefundParty, SettledAsBefore, rowVars, rowButStatus, historyVars,
          TypeInv, RowOK, HistoryOK
    <3> QED
      BY <3>1, OthersStill
  <2>3. status[t] = "CANCELLED" /\ refunded[t] = 0 /\ reimbursed[t] = 0
    BY <1>38, <2>1
    DEF RefundParty, At, SettleInv, Settling, SettlingPcs, Unsettled
  <2>4. refunded'[t] = 1 /\ reimbursed'[t] = 0
    BY <1>38, <2>1, <2>3 DEF RefundParty, TypeInv, HistoryOK
  <2>5. Stage(status[t]) = "refunded"
    BY <1>38, <2>1, <2>3 DEF Stage, CLAIMABLE_STATES
  <2>6. Stage(status'[t]) = Stage(status[t])
    BY <1>38, <2>1 DEF RefundParty, rowVars
  <2>7. /\ Credited(t) = {}
        /\ Credited(t)' = {IF Stage(status[t]) = "paid" THEN <<captainId[t], 1>> ELSE <<"PARTY", 1>>}
    BY <1>38, <2>1, <2>3, <2>4, <2>5 DEF Credited
  <2>8. captainId'[t] = captainId[t]
    BY <1>38, <2>1 DEF RefundParty, rowVars, rowButStatus
  <2>9. previousCaptainIds'[t] = previousCaptainIds[t]
    BY <1>38, <2>1 DEF RefundParty, rowVars, rowButStatus
  <2> QED
    BY <2>2, <2>3, <2>4, <2>5, <2>6, <2>7, <2>8, <2>9, KeepsCredit
<1> QED
  BY <1>1, <1>2, <1>3, <1>4, <1>5, <1>6, <1>7, <1>8, <1>9, <1>10, <1>11,
     <1>12, <1>13, <1>14, <1>15, <1>16, <1>17, <1>18, <1>19, <1>20, <1>21,
     <1>22, <1>23, <1>24, <1>25, <1>26, <1>27, <1>28, <1>29, <1>30, <1>31,
     <1>32, <1>33, <1>34, <1>35, <1>36, <1>37, <1>38, UnmovedKeeps
  DEF Next, Request, Decision, Sweep, JobStep, ConfirmReceived,
      ConfirmNotReceived, AutoApproveOnTimeout, CancelStale, RejectExpired,
      ReclaimExpired, Workers

\* As long as no payout changes hands under a request that has read it, the
\* workflow keeps the promise of PayoutEscrow: its writes commit, hand over,
\* give up, pay and refund each payout as promised there, and credit exactly
\* whom the end decided, once.
THEOREM WorkflowKeepsTheEscrow ==
  ASSUME PromptRequests
  PROVE  Spec => KeepsTheEscrow
<1>1. Init => Escrowed!Init
  BY DEF Init, Escrowed!Init, Stage, Credited, CLAIMABLE_STATES
<1>2. Init => TypeInv /\ CopiesAgree /\ SettleInv /\ HoldersKnown
  BY TypeInit, CopiesAgreeInit, SettleInit, HoldersInit
<1>3. Init => PaymentInv /\ ClaimsAreOpen
  BY DEF Init, PaymentInv, PaymentOK, CopyKnowsPart, Paying, PayingPcs, Idle, ClaimsAreOpen, ClaimingPcs
<1>4. TypeInv /\ CopiesAgree /\ SettleInv /\ HoldersKnown /\ PaymentInv /\ ClaimsAreOpen /\ [Next]_vars
        => CopiesAgree' /\ SettleInv' /\ HoldersKnown' /\ PaymentInv' /\ ClaimsAreOpen'
  BY CopiesAgreeStep, SettleStep, HoldersKnownStep, PaymentStep, ExclusionStep
<1>5. TypeInv /\ TypeInv' /\ CopiesAgree /\ SettleInv /\ HoldersKnown /\ PaymentInv /\ ClaimsAreOpen
        /\ [Next]_vars => [Escrowed!Next]_(Escrowed!vars)
  BY PromiseStep DEF PromiseKept
<1> QED
  BY <1>1, <1>2, <1>3, <1>4, <1>5, TypeInvariant, PTL DEF Spec, KeepsTheEscrow, Escrowed!Spec

=============================================================================
