---------------------------- MODULE PayIn_proofs ----------------------------
(***************************************************************************)
(* What holds of PayIn for every number of pay-ins, captains and           *)
(* overlapping requests, whatever the amounts; and, as long as nobody acts *)
(* on a claim before its hold is taken and the process does not stop, that *)
(* the books balance and a captain's DMC is committed exactly while they   *)
(* carry a pay-in.                                                         *)
(***************************************************************************)
EXTENDS PayInLedger, Totals_proofs

USE PayInAssumption

-----------------------------------------------------------------------------
(* Types *)

RowsOK ==
  /\ status \in [Payments -> Statuses]
  /\ captainId \in [Payments -> Captains \cup {None}]
  /\ previousCaptainIds \in [Payments -> SUBSET Captains]
  /\ commissionPaise \in [Payments -> Nat]
  /\ \A t \in Payments : commissionPaise[t] <= Charge[t]
  /\ commissionPaid \in [Payments -> BOOLEAN]
  /\ windowClosed \in [Payments -> BOOLEAN]

MoneyOK ==
  /\ dmc \in [Captains -> Int]
  /\ earned \in [Captains -> Nat]
  /\ \A c \in Captains : earned[c] <= dmc[c]
  /\ partyDmc \in Nat
  /\ pool \in Nat

HistoryOK ==
  /\ crashes \in Nat /\ failures \in [Payments -> Nat]
  /\ drawn \in Nat /\ funded \in Nat /\ minted \in Nat
  /\ hold \in [Payments -> [Captains -> Int]]
  /\ credited \in [Payments -> Nat]

\* A job is about a pay-in, knows the captain whose DMC it moves, and decides
\* only from a status that its handler accepts.
JobOK(w) ==
  /\ jobs[w].pc # "idle" => jobs[w].t \in Payments
  /\ jobs[w].pc \in UnheldPcs \cup {"assign", "open", "release"} => jobs[w].c \in Captains
  /\ jobs[w].pc = "settleClaim" => jobs[w].from \in {"CONFIRMED", "DISPUTED"}
  /\ jobs[w].pc = "expireClaim" =>
       jobs[w].from \in {"CREATED", "ASSIGNED", "AWAITING_CUSTOMER", "DISPUTED"}

JobsOK == jobs \in [Workers -> Job] /\ \A w \in Workers : JobOK(w)

TypeInv == RowsOK /\ MoneyOK /\ HistoryOK /\ JobsOK

LEMMA TypeInit == Init => TypeInv
BY DEF Init, TypeInv, RowsOK, MoneyOK, HistoryOK, JobsOK, JobOK, Job, Pcs, UnheldPcs, Idle,
       Statuses

LEMMA KeepRows ==
  ASSUME RowsOK, UNCHANGED rowVars
  PROVE  RowsOK'
BY DEF RowsOK, rowVars, rowButStatus

LEMMA KeepMoney ==
  ASSUME MoneyOK, UNCHANGED moneyVars
  PROVE  MoneyOK'
BY DEF MoneyOK, moneyVars

LEMMA KeepHistory ==
  ASSUME HistoryOK, UNCHANGED <<envVars, historyVars>>
  PROVE  HistoryOK'
BY DEF HistoryOK, historyVars, envVars

LEMMA KeepJobs ==
  ASSUME JobsOK, UNCHANGED jobs
  PROVE  JobsOK'
BY DEF JobsOK, JobOK

LEMMA FinishJob ==
  ASSUME JobsOK, NEW w \in Workers, Finish(w)
  PROVE  JobsOK'
BY DEF JobsOK, JobOK, Job, Pcs, UnheldPcs, Finish, Idle, Statuses

\* The next write of a job that has its pay-in and, if it needs one, its captain.
LEMMA GotoJob ==
  ASSUME JobsOK, NEW w \in Workers, NEW p \in Pcs \ {"settleClaim", "expireClaim"},
         jobs[w].pc # "idle", Goto(w, p),
         p \in UnheldPcs \cup {"assign", "open", "release"} => jobs[w].c \in Captains
  PROVE  JobsOK'
BY DEF JobsOK, JobOK, Job, Goto

LEMMA StartJob ==
  ASSUME JobsOK, NEW w \in Workers, NEW t \in Payments, NEW p \in {"route", "settle"},
         Begin(w, p, t)
  PROVE  JobsOK'
<1>1. jobs[w] \in Job
  BY DEF JobsOK
<1>2. jobs' \in [Workers -> Job] /\ \A v \in Workers \ {w} : jobs'[v] = jobs[v]
  BY <1>1 DEF JobsOK, Job, Pcs, UnheldPcs, Begin
<1>3. jobs'[w].pc = p /\ jobs'[w].t = t
  BY <1>1 DEF JobsOK, Job, Begin
<1>4. JobOK(w)'
  BY <1>3 DEF JobsOK, JobOK, UnheldPcs
<1> QED
  BY <1>2, <1>4 DEF JobsOK, JobOK

\* The sweep or an admin has a pay-in expired.
LEMMA StartExpiry ==
  ASSUME JobsOK, NEW w \in Workers, NEW t \in Payments, NEW by \in {"sweep", "admin"},
         jobs' = [jobs EXCEPT ![w].pc = "expire", ![w].t = t, ![w].by = by]
  PROVE  JobsOK'
<1>1. jobs[w] \in Job
  BY DEF JobsOK
<1>2. jobs' \in [Workers -> Job] /\ \A v \in Workers \ {w} : jobs'[v] = jobs[v]
  BY <1>1 DEF JobsOK, Job, Pcs, UnheldPcs
<1>3. jobs'[w].pc = "expire" /\ jobs'[w].t = t
  BY <1>1 DEF JobsOK, Job
<1>4. JobOK(w)'
  BY <1>3 DEF JobsOK, JobOK, UnheldPcs
<1> QED
  BY <1>2, <1>4 DEF JobsOK, JobOK

LEMMA StartRelease ==
  ASSUME JobsOK, NEW w \in Workers, NEW t \in Payments, NEW c \in Captains,
         jobs' = [jobs EXCEPT ![w].pc = "release", ![w].t = t, ![w].c = c]
  PROVE  JobsOK'
<1>1. jobs[w] \in Job
  BY DEF JobsOK
<1>2. jobs' \in [Workers -> Job] /\ \A v \in Workers \ {w} : jobs'[v] = jobs[v]
  BY <1>1 DEF JobsOK, Job, Pcs, UnheldPcs
<1>3. jobs'[w].pc = "release" /\ jobs'[w].t = t /\ jobs'[w].c = c
  BY <1>1 DEF JobsOK, Job
<1>4. JobOK(w)'
  BY <1>3 DEF JobsOK, JobOK, UnheldPcs
<1> QED
  BY <1>2, <1>4 DEF JobsOK, JobOK

LEMMA NameCaptain ==
  ASSUME JobsOK, NEW w \in Workers, NEW c \in Captains, NEW p \in {"assign", "release"},
         jobs[w].pc # "idle", jobs' = [jobs EXCEPT ![w].pc = p, ![w].c = c]
  PROVE  JobsOK'
<1>1. jobs[w] \in Job
  BY DEF JobsOK
<1>2. jobs' \in [Workers -> Job] /\ \A v \in Workers \ {w} : jobs'[v] = jobs[v]
  BY <1>1 DEF JobsOK, Job, Pcs, UnheldPcs
<1>3. jobs'[w].pc = p /\ jobs'[w].t = jobs[w].t /\ jobs'[w].c = c
  BY <1>1 DEF JobsOK, Job
<1>4. JobOK(w)'
  BY <1>3 DEF JobsOK, JobOK, UnheldPcs
<1> QED
  BY <1>2, <1>4 DEF JobsOK, JobOK

LEMMA ReadFrom ==
  ASSUME JobsOK, NEW w \in Workers, NEW p \in {"settleClaim", "expireClaim"}, NEW from,
         from \in IF p = "settleClaim" THEN {"CONFIRMED", "DISPUTED"}
                  ELSE {"CREATED", "ASSIGNED", "AWAITING_CUSTOMER", "DISPUTED"},
         jobs[w].pc # "idle", jobs' = [jobs EXCEPT ![w].pc = p, ![w].from = from]
  PROVE  JobsOK'
<1>1. from \in Statuses
  BY DEF Statuses, TRANSACTION_STATES
<1>2. jobs[w] \in Job /\ jobs[w].t \in Payments
  BY DEF JobsOK, JobOK
<1>3. jobs' \in [Workers -> Job]
  BY <1>1, <1>2 DEF JobsOK, Job, Pcs
<1>4. \A v \in Workers \ {w} : jobs'[v] = jobs[v]
  BY DEF JobsOK
<1>5. jobs'[w].pc = p /\ jobs'[w].t = jobs[w].t /\ jobs'[w].from = from
  BY <1>2 DEF JobsOK, Job
<1>6. JobOK(w)'
  BY <1>2, <1>5 DEF JobOK, UnheldPcs
<1>7. \A v \in Workers \ {w} : JobOK(v)'
  BY <1>4 DEF JobsOK, JobOK
<1> QED
  BY <1>3, <1>6, <1>7 DEF JobsOK

\* A captain's hold is taken or given back.
LEMMA HoldMoved ==
  ASSUME HistoryOK, NEW t \in Payments, NEW c \in Captains, NEW d \in {-1, 1},
         hold' = [hold EXCEPT ![t][c] = @ + d], UNCHANGED <<envVars, credited>>
  PROVE  HistoryOK'
<1>1. PICK i \in Int : i = hold[t][c]
  BY DEF HistoryOK, envVars
<1>2. [hold[t] EXCEPT ![c] = @ + d] \in [Captains -> Int]
  BY <1>1 DEF HistoryOK, envVars
<1>3. hold' = [hold EXCEPT ![t] = [hold[t] EXCEPT ![c] = @ + d]]
  OBVIOUS
<1> QED
  BY <1>2, <1>3 DEF HistoryOK, envVars

LEMMA AmountTaken ==
  ASSUME MoneyOK, NEW t \in Payments, NEW c \in Captains, WithinCurrentLimit(c, Amount[t]),
         dmc' = [dmc EXCEPT ![c] = @ - Amount[t]], UNCHANGED <<earned, partyDmc, pool>>
  PROVE  MoneyOK'
<1>1. PICK i \in Int, j \in Nat, a \in Nat : i = dmc[c] /\ j = earned[c] /\ a = Amount[t]
  BY DEF MoneyOK
<1>2. a <= i - j
  BY <1>1 DEF WithinCurrentLimit
<1>3. dmc' \in [Captains -> Int] /\ dmc'[c] = i - a /\ \A d \in Captains \ {c} : dmc'[d] = dmc[d]
  BY <1>1 DEF MoneyOK
<1>4. j <= i - a
  BY <1>2
<1> QED
  BY <1>1, <1>3, <1>4 DEF MoneyOK

LEMMA AmountGivenBack ==
  ASSUME MoneyOK, NEW t \in Payments, NEW c \in Captains,
         dmc' = [dmc EXCEPT ![c] = @ + Amount[t]], UNCHANGED <<earned, partyDmc, pool>>
  PROVE  MoneyOK'
<1>1. PICK i \in Int, j \in Nat, a \in Nat : i = dmc[c] /\ j = earned[c] /\ a = Amount[t]
  BY DEF MoneyOK
<1>2. dmc' \in [Captains -> Int] /\ dmc'[c] = i + a /\ \A d \in Captains \ {c} : dmc'[d] = dmc[d]
  BY <1>1 DEF MoneyOK
<1>3. j <= i + a
  BY <1>1 DEF MoneyOK
<1> QED
  BY <1>1, <1>2, <1>3 DEF MoneyOK

\* A share is capital and commission earned at once, so it is not capital that
\* can be held.
LEMMA ShareReceived ==
  ASSUME MoneyOK, NEW c \in Captains \cup {None}, NEW x \in Nat,
         dmc' = [dmc EXCEPT ![c] = @ + x], earned' = [earned EXCEPT ![c] = @ + x],
         partyDmc' \in Nat, pool' \in Nat
  PROVE  MoneyOK'
<1>1. CASE c = None
  <2>1. dmc' = dmc /\ earned' = earned
    BY <1>1 DEF MoneyOK
  <2> QED
    BY <2>1 DEF MoneyOK
<1>2. CASE c \in Captains
  <2>1. PICK i \in Int, j \in Nat : i = dmc[c] /\ j = earned[c]
    BY <1>2 DEF MoneyOK
  <2>2. /\ dmc' \in [Captains -> Int] /\ dmc'[c] = i + x
        /\ earned' \in [Captains -> Nat] /\ earned'[c] = j + x
        /\ \A d \in Captains \ {c} : dmc'[d] = dmc[d] /\ earned'[d] = earned[d]
    BY <1>2, <2>1 DEF MoneyOK
  <2>3. j + x <= i + x
    BY <1>2, <2>1 DEF MoneyOK
  <2> QED
    BY <1>2, <2>2, <2>3 DEF MoneyOK
<1> QED
  BY <1>1, <1>2

LEMMA HoldTaken ==
  ASSUME MoneyOK, HistoryOK, JobsOK, NEW w \in Workers, NEW t \in Payments, NEW c \in Captains,
         jobs[w].pc # "idle", jobs[w].c = c, TakeHold(w, t, c),
         UNCHANGED <<earned, partyDmc, pool, envVars, credited>>
  PROVE  MoneyOK' /\ HistoryOK' /\ JobsOK'
<1>1. CASE WithinCurrentLimit(c, Amount[t])
  <2>1. /\ dmc' = [dmc EXCEPT ![c] = @ - Amount[t]]
        /\ hold' = [hold EXCEPT ![t][c] = @ + 1] /\ Goto(w, "open")
    BY <1>1 DEF TakeHold
  <2>2. JobsOK'
    BY <2>1, GotoJob DEF Pcs
  <2> QED
    BY <1>1, <2>1, <2>2, AmountTaken, HoldMoved
<1>2. CASE ~WithinCurrentLimit(c, Amount[t])
  <2>1. dmc' = dmc /\ hold' = hold /\ Goto(w, "putBack")
    BY <1>2 DEF TakeHold
  <2>2. JobsOK'
    BY <2>1, GotoJob DEF Pcs, UnheldPcs
  <2> QED
    BY <2>1, <2>2 DEF MoneyOK, HistoryOK, envVars
<1> QED
  BY <1>1, <1>2

LEMMA GivenBack ==
  ASSUME MoneyOK, HistoryOK, NEW t \in Payments, NEW c \in Captains, GiveBack(t, c),
         UNCHANGED <<earned, partyDmc, pool, envVars, credited>>
  PROVE  MoneyOK' /\ HistoryOK'
<1>1. hold' = [hold EXCEPT ![t][c] = @ + (-1)]
  <2>1. PICK i \in Int : i = hold[t][c]
    BY DEF HistoryOK
  <2>2. i - 1 = i + (-1)
    OBVIOUS
  <2> QED
    BY <2>1, <2>2 DEF GiveBack
<1> QED
  BY <1>1, HoldMoved, AmountGivenBack DEF GiveBack

LEMMA TypeStep ==
  ASSUME TypeInv, [Next]_vars
  PROVE  TypeInv'
<1>1. ASSUME NEW w \in Workers, NEW t \in Payments, Create(w, t)
      PROVE  TypeInv'
  <2>1. RowsOK'
    BY <1>1
    DEF TypeInv, Create, RowsOK, Statuses, TRANSACTION_STATES, JobsOK, JobOK,
        At, UnheldPcs, rowVars, rowButStatus, moneyVars, historyVars
  <2>2. MoneyOK'
    BY <1>1, KeepMoney
    DEF TypeInv, Create, rowVars, rowButStatus, moneyVars, historyVars
  <2>3. HistoryOK'
    BY <1>1, KeepHistory
    DEF TypeInv, Create, rowVars, rowButStatus, moneyVars, historyVars
  <2>4. JobsOK'
    BY <1>1, StartJob DEF TypeInv, Create, Eligible, At, JobsOK, JobOK
  <2> QED
    BY <2>1, <2>2, <2>3, <2>4 DEF TypeInv
<1>2. ASSUME NEW w \in Workers, NEW c \in Captains, Route(w, c)
      PROVE  TypeInv'
  <2>1. RowsOK'
    BY <1>2, KeepRows
    DEF TypeInv, Route, Eligible, rowVars, rowButStatus, moneyVars,
        historyVars
  <2>2. MoneyOK'
    BY <1>2, KeepMoney
    DEF TypeInv, Route, Eligible, rowVars, rowButStatus, moneyVars,
        historyVars
  <2>3. HistoryOK'
    BY <1>2, KeepHistory
    DEF TypeInv, Route, Eligible, rowVars, rowButStatus, moneyVars,
        historyVars
  <2>4. JobsOK'
    BY <1>2, NameCaptain DEF TypeInv, Route, Eligible, At, JobsOK, JobOK
  <2> QED
    BY <2>1, <2>2, <2>3, <2>4 DEF TypeInv
<1>3. ASSUME NEW w \in Workers, NotRouted(w)
      PROVE  TypeInv'
  <2>1. RowsOK'
    BY <1>3, KeepRows
    DEF TypeInv, NotRouted, rowVars, rowButStatus, moneyVars, historyVars
  <2>2. MoneyOK'
    BY <1>3, KeepMoney
    DEF TypeInv, NotRouted, rowVars, rowButStatus, moneyVars, historyVars
  <2>3. HistoryOK'
    BY <1>3, KeepHistory
    DEF TypeInv, NotRouted, rowVars, rowButStatus, moneyVars, historyVars
  <2>4. JobsOK'
    BY <1>3, FinishJob, GotoJob
    DEF TypeInv, NotRouted, JobsOK, JobOK, At, Pcs, UnheldPcs
  <2> QED
    BY <2>1, <2>2, <2>3, <2>4 DEF TypeInv
<1>4. ASSUME NEW w \in Workers, AssignInTransaction(w)
      PROVE  TypeInv'
  <2>1. PICK t \in Payments, c \in Captains : t = jobs[w].t /\ c = jobs[w].c
    BY <1>4
    DEF TypeInv, JobsOK, JobOK, UnheldPcs, At, AssignInTransaction, AssignTo,
        TakeHold, RepricedShare, WithinCurrentLimit
  <2>2. MoneyOK' /\ HistoryOK' /\ JobsOK'
    BY <1>4, <2>1, HoldTaken DEF TypeInv, AssignInTransaction, At
  <2>3. RowsOK'
    BY <1>4, <2>1
    DEF TypeInv, AssignInTransaction, AssignTo, TakeHold, RepricedShare,
        WithinCurrentLimit, RowsOK, Statuses, TRANSACTION_STATES, JobsOK,
        JobOK, At, UnheldPcs, rowVars, rowButStatus, moneyVars, historyVars
  <2> QED
    BY <2>2, <2>3 DEF TypeInv
<1>5. ASSUME NEW w \in Workers, AssignClaim(w)
      PROVE  TypeInv'
  <2>1. PICK t \in Payments, c \in Captains : t = jobs[w].t /\ c = jobs[w].c
    BY <1>5
    DEF TypeInv, JobsOK, JobOK, UnheldPcs, At, AssignClaim, AssignTo,
        RepricedShare
  <2>2. RowsOK'
    BY <1>5, <2>1
    DEF TypeInv, AssignClaim, AssignTo, RepricedShare, RowsOK, Statuses,
        TRANSACTION_STATES, JobsOK, JobOK, At, UnheldPcs, rowVars,
        rowButStatus, moneyVars, historyVars
  <2>3. MoneyOK'
    BY <1>5, KeepMoney
    DEF TypeInv, AssignClaim, AssignTo, RepricedShare, rowVars, rowButStatus,
        moneyVars, historyVars
  <2>4. HistoryOK'
    BY <1>5, KeepHistory
    DEF TypeInv, AssignClaim, AssignTo, RepricedShare, rowVars, rowButStatus,
        moneyVars, historyVars
  <2>5. JobsOK'
    BY <1>5, <2>1, FinishJob, GotoJob
    DEF TypeInv, AssignClaim, AssignTo, RepricedShare, JobsOK, JobOK, At, Pcs,
        UnheldPcs
  <2> QED
    BY <2>2, <2>3, <2>4, <2>5 DEF TypeInv
<1>6. ASSUME NEW w \in Workers, AssignHold(w)
      PROVE  TypeInv'
  <2>1. PICK t \in Payments, c \in Captains : t = jobs[w].t /\ c = jobs[w].c
    BY <1>6
    DEF TypeInv, JobsOK, JobOK, UnheldPcs, At, AssignHold, TakeHold,
        WithinCurrentLimit
  <2>2. MoneyOK' /\ HistoryOK' /\ JobsOK'
    BY <1>6, <2>1, HoldTaken DEF TypeInv, AssignHold, At
  <2>3. RowsOK'
    BY <1>6, KeepRows
    DEF TypeInv, AssignHold, TakeHold, WithinCurrentLimit, rowVars,
        rowButStatus, moneyVars, historyVars
  <2> QED
    BY <2>2, <2>3 DEF TypeInv
<1>7. ASSUME NEW w \in Workers, AssignLost(w)
      PROVE  TypeInv'
  <2>1. RowsOK'
    BY <1>7, KeepRows
    DEF TypeInv, AssignLost, rowVars, rowButStatus, moneyVars, historyVars
  <2>2. MoneyOK'
    BY <1>7, KeepMoney
    DEF TypeInv, AssignLost, rowVars, rowButStatus, moneyVars, historyVars
  <2>3. HistoryOK'
    BY <1>7, KeepHistory
    DEF TypeInv, AssignLost, rowVars, rowButStatus, moneyVars, historyVars
  <2>4. JobsOK'
    BY <1>7, FinishJob, GotoJob
    DEF TypeInv, AssignLost, JobsOK, JobOK, At, Pcs, UnheldPcs
  <2> QED
    BY <2>1, <2>2, <2>3, <2>4 DEF TypeInv
<1>8. ASSUME NEW w \in Workers, PutBack(w)
      PROVE  TypeInv'
  <2>1. PICK t \in Payments, c \in Captains : t = jobs[w].t /\ c = jobs[w].c
    BY <1>8 DEF TypeInv, JobsOK, JobOK, UnheldPcs, At, PutBack, HandBack
  <2>2. RowsOK'
    BY <1>8, <2>1
    DEF TypeInv, PutBack, HandBack, RowsOK, Statuses, TRANSACTION_STATES,
        JobsOK, JobOK, At, UnheldPcs, rowVars, rowButStatus, moneyVars,
        historyVars
  <2>3. MoneyOK'
    BY <1>8, KeepMoney
    DEF TypeInv, PutBack, HandBack, rowVars, rowButStatus, moneyVars,
        historyVars
  <2>4. HistoryOK'
    BY <1>8, KeepHistory
    DEF TypeInv, PutBack, HandBack, rowVars, rowButStatus, moneyVars,
        historyVars
  <2>5. JobsOK'
    BY <1>8, <2>1, FinishJob, GotoJob
    DEF TypeInv, PutBack, HandBack, JobsOK, JobOK, At, Pcs, UnheldPcs
  <2> QED
    BY <2>2, <2>3, <2>4, <2>5 DEF TypeInv
<1>9. ASSUME NEW w \in Workers, Open(w)
      PROVE  TypeInv'
  <2>1. RowsOK'
    BY <1>9
    DEF TypeInv, Open, RowsOK, Statuses, TRANSACTION_STATES, JobsOK, JobOK,
        At, UnheldPcs, rowVars, rowButStatus, moneyVars, historyVars
  <2>2. MoneyOK'
    BY <1>9, KeepMoney
    DEF TypeInv, Open, rowVars, rowButStatus, moneyVars, historyVars
  <2>3. HistoryOK'
    BY <1>9, KeepHistory
    DEF TypeInv, Open, rowVars, rowButStatus, moneyVars, historyVars
  <2>4. JobsOK'
    BY <1>9, FinishJob, GotoJob
    DEF TypeInv, Open, JobsOK, JobOK, At, Pcs, UnheldPcs
  <2> QED
    BY <2>1, <2>2, <2>3, <2>4 DEF TypeInv
<1>10. ASSUME NEW t \in Payments, NEW c \in Captains, DeclineInTransaction(t, c)
      PROVE  TypeInv'
  <2>1. RowsOK'
    BY <1>10
    DEF TypeInv, DeclineInTransaction, Declined, HandBack, GiveBack, RowsOK,
        Statuses, TRANSACTION_STATES, JobsOK, JobOK, At, UnheldPcs, rowVars,
        rowButStatus, moneyVars, historyVars
  <2>2. MoneyOK'
    BY <1>10, GivenBack DEF TypeInv, DeclineInTransaction
  <2>3. HistoryOK'
    BY <1>10, GivenBack DEF TypeInv, DeclineInTransaction
  <2>4. JobsOK'
    BY <1>10, KeepJobs
    DEF TypeInv, DeclineInTransaction, Declined, HandBack, GiveBack
  <2> QED
    BY <2>1, <2>2, <2>3, <2>4 DEF TypeInv
<1>11. ASSUME NEW w \in Workers, NEW t \in Payments, NEW c \in Captains, Decline(w, t, c)
      PROVE  TypeInv'
  <2>1. RowsOK'
    BY <1>11
    DEF TypeInv, Decline, Declined, HandBack, RowsOK, Statuses,
        TRANSACTION_STATES, JobsOK, JobOK, At, UnheldPcs, rowVars,
        rowButStatus, moneyVars, historyVars
  <2>2. MoneyOK'
    BY <1>11, KeepMoney
    DEF TypeInv, Decline, Declined, HandBack, rowVars, rowButStatus,
        moneyVars, historyVars
  <2>3. HistoryOK'
    BY <1>11, KeepHistory
    DEF TypeInv, Decline, Declined, HandBack, rowVars, rowButStatus,
        moneyVars, historyVars
  <2>4. JobsOK'
    BY <1>11, StartRelease
    DEF TypeInv, Decline, Declined, HandBack, Eligible, At, JobsOK, JobOK
  <2> QED
    BY <2>1, <2>2, <2>3, <2>4 DEF TypeInv
<1>12. ASSUME NEW w \in Workers, Release(w)
      PROVE  TypeInv'
  <2>1. PICK t \in Payments, c \in Captains : t = jobs[w].t /\ c = jobs[w].c
    BY <1>12 DEF TypeInv, JobsOK, JobOK, UnheldPcs, At, Release, GiveBack
  <2>2. RowsOK'
    BY <1>12, KeepRows
    DEF TypeInv, Release, GiveBack, rowVars, rowButStatus, moneyVars,
        historyVars
  <2>3. MoneyOK'
    BY <1>12, <2>1, GivenBack DEF TypeInv, Release
  <2>4. HistoryOK'
    BY <1>12, <2>1, GivenBack DEF TypeInv, Release
  <2>5. JobsOK'
    BY <1>12, <2>1, FinishJob, GotoJob
    DEF TypeInv, Release, GiveBack, JobsOK, JobOK, At, Pcs, UnheldPcs
  <2> QED
    BY <2>2, <2>3, <2>4, <2>5 DEF TypeInv
<1>13. ASSUME NEW w \in Workers, NEW t \in Payments, Webhook(w, t)
      PROVE  TypeInv'
  <2>1. RowsOK'
    BY <1>13
    DEF TypeInv, Webhook, RowsOK, Statuses, TRANSACTION_STATES, JobsOK, JobOK,
        At, UnheldPcs, rowVars, rowButStatus, moneyVars, historyVars
  <2>2. MoneyOK'
    BY <1>13, KeepMoney
    DEF TypeInv, Webhook, rowVars, rowButStatus, moneyVars, historyVars
  <2>3. HistoryOK'
    BY <1>13, KeepHistory
    DEF TypeInv, Webhook, rowVars, rowButStatus, moneyVars, historyVars
  <2>4. JobsOK'
    BY <1>13, StartJob DEF TypeInv, Webhook, Eligible, At, JobsOK, JobOK
  <2> QED
    BY <2>1, <2>2, <2>3, <2>4 DEF TypeInv
<1>14. ASSUME NEW w \in Workers, SettleRead(w)
      PROVE  TypeInv'
  <2>1. PICK t \in Payments : t = jobs[w].t
    BY <1>14 DEF TypeInv, JobsOK, JobOK, At, SettleRead
  <2>2. RowsOK'
    BY <1>14, KeepRows
    DEF TypeInv, SettleRead, rowVars, rowButStatus, moneyVars, historyVars
  <2>3. MoneyOK'
    BY <1>14, KeepMoney
    DEF TypeInv, SettleRead, rowVars, rowButStatus, moneyVars, historyVars
  <2>4. HistoryOK'
    BY <1>14, KeepHistory
    DEF TypeInv, SettleRead, rowVars, rowButStatus, moneyVars, historyVars
  <2>5. JobsOK'
    BY <1>14, <2>1, ReadFrom DEF TypeInv, SettleRead, At
  <2> QED
    BY <2>2, <2>3, <2>4, <2>5 DEF TypeInv
<1>15. ASSUME NEW w \in Workers, SettleInTransaction(w)
      PROVE  TypeInv'
  <2>1. PICK t \in Payments : t = jobs[w].t
    BY <1>15 DEF TypeInv, JobsOK, JobOK, At, SettleInTransaction, MarkSettled
  <2>2. PICK p \in Nat, q \in Nat, a \in Nat, z \in Nat, x \in Nat :
          /\ p = partyDmc /\ q = pool /\ a = Amount[t] /\ z = Charge[t] /\ x = commissionPaise[t]
          /\ z <= a /\ x <= z
    BY DEF TypeInv, MoneyOK, RowsOK
  <2>3. x <= q + z /\ q + z - x \in Nat /\ p + a - z \in Nat
    BY <2>2
  <2>4. RowsOK'
    BY <1>15, <2>1, <2>2, <2>3
    DEF TypeInv, SettleInTransaction, MarkSettled, RowsOK, Statuses,
        TRANSACTION_STATES, JobsOK, JobOK, At, UnheldPcs, rowVars,
        rowButStatus, moneyVars, historyVars
  <2>5. MoneyOK'
    <3>1. /\ partyDmc' = p + a - z /\ pool' = q + z - x
          /\ dmc' = [dmc EXCEPT ![captainId[t]] = @ + x]
          /\ earned' = [earned EXCEPT ![captainId[t]] = @ + x]
      BY <1>15, <2>1, <2>2, <2>3 DEF SettleInTransaction
    <3> QED
      BY <2>2, <2>3, <3>1, ShareReceived DEF TypeInv, RowsOK
  <2>6. HistoryOK'
    BY <1>15, <2>1, <2>2, <2>3
    DEF TypeInv, SettleInTransaction, MarkSettled, HistoryOK, JobsOK, JobOK,
        At, rowVars, rowButStatus, moneyVars, historyVars, envVars
  <2>7. JobsOK'
    BY <1>15, <2>1, <2>2, <2>3, FinishJob, GotoJob
    DEF TypeInv, SettleInTransaction, MarkSettled, JobsOK, JobOK, At, Pcs,
        UnheldPcs
  <2> QED
    BY <2>4, <2>5, <2>6, <2>7 DEF TypeInv
<1>16. ASSUME NEW w \in Workers, SettleClaim(w)
      PROVE  TypeInv'
  <2>1. PICK t \in Payments : t = jobs[w].t
    BY <1>16 DEF TypeInv, JobsOK, JobOK, At, SettleClaim, MarkSettled
  <2>2. RowsOK'
    BY <1>16, <2>1
    DEF TypeInv, SettleClaim, MarkSettled, RowsOK, Statuses,
        TRANSACTION_STATES, JobsOK, JobOK, At, UnheldPcs, rowVars,
        rowButStatus, moneyVars, historyVars
  <2>3. MoneyOK'
    BY <1>16, KeepMoney
    DEF TypeInv, SettleClaim, MarkSettled, rowVars, rowButStatus, moneyVars,
        historyVars
  <2>4. HistoryOK'
    BY <1>16, KeepHistory
    DEF TypeInv, SettleClaim, MarkSettled, rowVars, rowButStatus, moneyVars,
        historyVars
  <2>5. JobsOK'
    BY <1>16, <2>1, FinishJob, GotoJob
    DEF TypeInv, SettleClaim, MarkSettled, JobsOK, JobOK, At, Pcs, UnheldPcs
  <2> QED
    BY <2>2, <2>3, <2>4, <2>5 DEF TypeInv
<1>17. ASSUME NEW w \in Workers, SettleLost(w)
      PROVE  TypeInv'
  <2>1. RowsOK'
    BY <1>17, KeepRows
    DEF TypeInv, SettleLost, rowVars, rowButStatus, moneyVars, historyVars
  <2>2. MoneyOK'
    BY <1>17, KeepMoney
    DEF TypeInv, SettleLost, rowVars, rowButStatus, moneyVars, historyVars
  <2>3. HistoryOK'
    BY <1>17, KeepHistory
    DEF TypeInv, SettleLost, rowVars, rowButStatus, moneyVars, historyVars
  <2>4. JobsOK'
    BY <1>17, FinishJob, GotoJob
    DEF TypeInv, SettleLost, JobsOK, JobOK, At, Pcs, UnheldPcs
  <2> QED
    BY <2>1, <2>2, <2>3, <2>4 DEF TypeInv
<1>18. ASSUME NEW w \in Workers, SettleCredit(w)
      PROVE  TypeInv'
  <2>1. PICK t \in Payments : t = jobs[w].t
    BY <1>18 DEF TypeInv, JobsOK, JobOK, At, SettleCredit
  <2>2. RowsOK'
    BY <1>18, KeepRows
    DEF TypeInv, SettleCredit, rowVars, rowButStatus, moneyVars, historyVars
  <2>3. MoneyOK'
    BY <1>18, <2>1 DEF TypeInv, SettleCredit, MoneyOK, RowsOK, JobsOK, JobOK, At
  <2>4. HistoryOK'
    BY <1>18, <2>1
    DEF TypeInv, SettleCredit, HistoryOK, JobsOK, JobOK, At, rowVars,
        rowButStatus, moneyVars, historyVars, envVars
  <2>5. JobsOK'
    BY <1>18, <2>1, FinishJob, GotoJob
    DEF TypeInv, SettleCredit, JobsOK, JobOK, At, Pcs, UnheldPcs
  <2> QED
    BY <2>2, <2>3, <2>4, <2>5 DEF TypeInv
<1>19. ASSUME NEW w \in Workers, SettleCollect(w)
      PROVE  TypeInv'
  <2>1. PICK t \in Payments : t = jobs[w].t
    BY <1>19 DEF TypeInv, JobsOK, JobOK, At, SettleCollect
  <2>2. RowsOK'
    BY <1>19, KeepRows
    DEF TypeInv, SettleCollect, rowVars, rowButStatus, moneyVars, historyVars
  <2>3. MoneyOK'
    BY <1>19, <2>1 DEF TypeInv, SettleCollect, MoneyOK, RowsOK, JobsOK, JobOK, At
  <2>4. HistoryOK'
    BY <1>19, KeepHistory
    DEF TypeInv, SettleCollect, rowVars, rowButStatus, moneyVars, historyVars
  <2>5. JobsOK'
    BY <1>19, <2>1, FinishJob, GotoJob
    DEF TypeInv, SettleCollect, JobsOK, JobOK, At, Pcs, UnheldPcs
  <2> QED
    BY <2>2, <2>3, <2>4, <2>5 DEF TypeInv
<1>20. ASSUME NEW w \in Workers, SettlePayShare(w)
      PROVE  TypeInv'
  <2>1. PICK t \in Payments : t = jobs[w].t
    BY <1>20 DEF TypeInv, JobsOK, JobOK, At, SettlePayShare
  <2>2. RowsOK'
    BY <1>20, KeepRows
    DEF TypeInv, SettlePayShare, rowVars, rowButStatus, moneyVars, historyVars
  <2>3. MoneyOK'
    BY <1>20, <2>1
    DEF TypeInv, SettlePayShare, MoneyOK, RowsOK, JobsOK, JobOK, At
  <2>4. HistoryOK'
    BY <1>20, KeepHistory
    DEF TypeInv, SettlePayShare, rowVars, rowButStatus, moneyVars, historyVars
  <2>5. JobsOK'
    <3>1. ASSUME NEW p \in {"flag", "creditShare"}, Goto(w, p)
          PROVE  JobsOK'
      BY <1>20, <3>1, GotoJob DEF TypeInv, SettlePayShare, At, Pcs, UnheldPcs
    <3>2. CASE Finish(w)
      BY <3>2, FinishJob DEF TypeInv
    <3> QED
      BY <1>20, <3>1, <3>2 DEF SettlePayShare
  <2> QED
    BY <2>2, <2>3, <2>4, <2>5 DEF TypeInv
<1>21. ASSUME NEW w \in Workers, SettleCreditShare(w)
      PROVE  TypeInv'
  <2>1. PICK t \in Payments : t = jobs[w].t
    BY <1>21 DEF TypeInv, JobsOK, JobOK, At, SettleCreditShare
  <2>2. RowsOK'
    BY <1>21, <2>1
    DEF TypeInv, SettleCreditShare, RowsOK, Statuses, TRANSACTION_STATES,
        JobsOK, JobOK, At, UnheldPcs, rowVars, rowButStatus, moneyVars,
        historyVars
  <2>3. MoneyOK'
    BY <1>21, <2>1, ShareReceived DEF TypeInv, SettleCreditShare, RowsOK, MoneyOK
  <2>4. HistoryOK'
    BY <1>21, KeepHistory
    DEF TypeInv, SettleCreditShare, rowVars, rowButStatus, moneyVars,
        historyVars
  <2>5. JobsOK'
    BY <1>21, <2>1, FinishJob, GotoJob
    DEF TypeInv, SettleCreditShare, JobsOK, JobOK, At, Pcs, UnheldPcs
  <2> QED
    BY <2>2, <2>3, <2>4, <2>5 DEF TypeInv
<1>22. ASSUME NEW w \in Workers, NEW t \in Payments, SweepList(w, t)
      PROVE  TypeInv'
  <2>1. RowsOK'
    BY <1>22, KeepRows
    DEF TypeInv, SweepList, rowVars, rowButStatus, moneyVars, historyVars
  <2>2. MoneyOK'
    BY <1>22, KeepMoney
    DEF TypeInv, SweepList, rowVars, rowButStatus, moneyVars, historyVars
  <2>3. HistoryOK'
    BY <1>22, KeepHistory
    DEF TypeInv, SweepList, rowVars, rowButStatus, moneyVars, historyVars
  <2>4. JobsOK'
    BY <1>22, StartExpiry DEF TypeInv, SweepList, Eligible, At, JobsOK, JobOK
  <2> QED
    BY <2>1, <2>2, <2>3, <2>4 DEF TypeInv
<1>23. ASSUME NEW w \in Workers, ExpireRead(w)
      PROVE  TypeInv'
  <2>1. PICK t \in Payments : t = jobs[w].t
    BY <1>23 DEF TypeInv, JobsOK, JobOK, At, ExpireRead
  <2>2. RowsOK'
    BY <1>23, KeepRows
    DEF TypeInv, ExpireRead, rowVars, rowButStatus, moneyVars, historyVars
  <2>3. MoneyOK'
    BY <1>23, KeepMoney
    DEF TypeInv, ExpireRead, rowVars, rowButStatus, moneyVars, historyVars
  <2>4. HistoryOK'
    BY <1>23, KeepHistory
    DEF TypeInv, ExpireRead, rowVars, rowButStatus, moneyVars, historyVars
  <2>5. JobsOK'
    <3>1. CASE CanTransition(status[t], "EXPIRED")
      <4>1. status[t] \in {"CREATED", "ASSIGNED", "AWAITING_CUSTOMER", "DISPUTED"}
        BY <3>1 DEF CanTransition, TRANSACTION_TRANSITIONS, TRANSACTION_STATES
      <4> QED
        BY <1>23, <2>1, <3>1, <4>1, ReadFrom DEF TypeInv, ExpireRead, At
    <3>2. CASE ~CanTransition(status[t], "EXPIRED")
      BY <1>23, <2>1, <3>2, FinishJob DEF TypeInv, ExpireRead
    <3> QED
      BY <3>1, <3>2
  <2> QED
    BY <2>2, <2>3, <2>4, <2>5 DEF TypeInv
<1>24. ASSUME NEW w \in Workers, ExpireInTransaction(w)
      PROVE  TypeInv'
  <2>1. PICK t \in Payments : t = jobs[w].t
    BY <1>24
    DEF TypeInv, JobsOK, JobOK, At, ExpireInTransaction, MarkExpired, WasHeld,
        GiveBack
  <2>2. RowsOK'
    BY <1>24, <2>1
    DEF TypeInv, ExpireInTransaction, MarkExpired, WasHeld, GiveBack, RowsOK,
        Statuses, TRANSACTION_STATES, JobsOK, JobOK, At, UnheldPcs, rowVars,
        rowButStatus, moneyVars, historyVars
  <2>3. MoneyOK'
    <3>1. CASE WasHeld(w)
      <4>1. captainId[t] \in Captains
        BY <2>1, <3>1 DEF WasHeld, TypeInv, RowsOK
      <4> QED
        BY <1>24, <2>1, <3>1, <4>1, GivenBack DEF TypeInv, ExpireInTransaction
    <3>2. CASE ~WasHeld(w)
      BY <1>24, <2>1, <3>2, KeepMoney DEF TypeInv, ExpireInTransaction, moneyVars, historyVars
    <3> QED
      BY <3>1, <3>2
  <2>4. HistoryOK'
    <3>1. CASE WasHeld(w)
      <4>1. captainId[t] \in Captains
        BY <2>1, <3>1 DEF WasHeld, TypeInv, RowsOK
      <4> QED
        BY <1>24, <2>1, <3>1, <4>1, GivenBack DEF TypeInv, ExpireInTransaction
    <3>2. CASE ~WasHeld(w)
      BY <1>24, <2>1, <3>2, KeepHistory DEF TypeInv, ExpireInTransaction, moneyVars, historyVars
    <3> QED
      BY <3>1, <3>2
  <2>5. JobsOK'
    BY <1>24, <2>1, FinishJob, GotoJob
    DEF TypeInv, ExpireInTransaction, MarkExpired, WasHeld, GiveBack, JobsOK,
        JobOK, At, Pcs, UnheldPcs
  <2> QED
    BY <2>2, <2>3, <2>4, <2>5 DEF TypeInv
<1>25. ASSUME NEW w \in Workers, ExpireClaim(w)
      PROVE  TypeInv'
  <2>1. PICK t \in Payments : t = jobs[w].t
    BY <1>25 DEF TypeInv, JobsOK, JobOK, At, ExpireClaim, MarkExpired, WasHeld
  <2>2. RowsOK'
    BY <1>25, <2>1
    DEF TypeInv, ExpireClaim, MarkExpired, WasHeld, RowsOK, Statuses,
        TRANSACTION_STATES, JobsOK, JobOK, At, UnheldPcs, rowVars,
        rowButStatus, moneyVars, historyVars
  <2>3. MoneyOK'
    BY <1>25, KeepMoney
    DEF TypeInv, ExpireClaim, MarkExpired, WasHeld, rowVars, rowButStatus,
        moneyVars, historyVars
  <2>4. HistoryOK'
    BY <1>25, KeepHistory
    DEF TypeInv, ExpireClaim, MarkExpired, WasHeld, rowVars, rowButStatus,
        moneyVars, historyVars
  <2>5. JobsOK'
    <3>1. CASE WasHeld(w)
      <4>1. captainId[t] \in Captains
        BY <2>1, <3>1 DEF WasHeld, TypeInv, RowsOK
      <4> QED
        BY <1>25, <2>1, <3>1, <4>1, NameCaptain DEF TypeInv, ExpireClaim, MarkExpired, At
    <3>2. CASE ~WasHeld(w)
      BY <1>25, <2>1, <3>2, FinishJob DEF TypeInv, ExpireClaim
    <3> QED
      BY <3>1, <3>2
  <2> QED
    BY <2>2, <2>3, <2>4, <2>5 DEF TypeInv
<1>26. ASSUME NEW w \in Workers, ExpireLost(w)
      PROVE  TypeInv'
  <2>1. RowsOK'
    BY <1>26, KeepRows
    DEF TypeInv, ExpireLost, rowVars, rowButStatus, moneyVars, historyVars
  <2>2. MoneyOK'
    BY <1>26, KeepMoney
    DEF TypeInv, ExpireLost, rowVars, rowButStatus, moneyVars, historyVars
  <2>3. HistoryOK'
    BY <1>26, KeepHistory
    DEF TypeInv, ExpireLost, rowVars, rowButStatus, moneyVars, historyVars
  <2>4. JobsOK'
    BY <1>26, FinishJob, GotoJob
    DEF TypeInv, ExpireLost, JobsOK, JobOK, At, Pcs, UnheldPcs
  <2> QED
    BY <2>1, <2>2, <2>3, <2>4 DEF TypeInv
<1>27. ASSUME NEW t \in Payments, Dispute(t)
      PROVE  TypeInv'
  <2>1. RowsOK'
    BY <1>27
    DEF TypeInv, Dispute, RowsOK, Statuses, TRANSACTION_STATES, JobsOK, JobOK,
        At, UnheldPcs, rowVars, rowButStatus, moneyVars, historyVars
  <2>2. MoneyOK'
    BY <1>27, KeepMoney
    DEF TypeInv, Dispute, rowVars, rowButStatus, moneyVars, historyVars
  <2>3. HistoryOK'
    BY <1>27, KeepHistory
    DEF TypeInv, Dispute, rowVars, rowButStatus, moneyVars, historyVars
  <2>4. JobsOK'
    BY <1>27, KeepJobs DEF TypeInv, Dispute
  <2> QED
    BY <2>1, <2>2, <2>3, <2>4 DEF TypeInv
<1>28. ASSUME NEW w \in Workers, NEW t \in Payments, ResolveSettle(w, t)
      PROVE  TypeInv'
  <2>1. RowsOK'
    BY <1>28, KeepRows
    DEF TypeInv, ResolveSettle, rowVars, rowButStatus, moneyVars, historyVars
  <2>2. MoneyOK'
    BY <1>28, KeepMoney
    DEF TypeInv, ResolveSettle, rowVars, rowButStatus, moneyVars, historyVars
  <2>3. HistoryOK'
    BY <1>28, KeepHistory
    DEF TypeInv, ResolveSettle, rowVars, rowButStatus, moneyVars, historyVars
  <2>4. JobsOK'
    BY <1>28, StartJob DEF TypeInv, ResolveSettle, Eligible, At, JobsOK, JobOK
  <2> QED
    BY <2>1, <2>2, <2>3, <2>4 DEF TypeInv
<1>29. ASSUME NEW w \in Workers, NEW t \in Payments, ResolveRelease(w, t)
      PROVE  TypeInv'
  <2>1. RowsOK'
    BY <1>29, KeepRows
    DEF TypeInv, ResolveRelease, rowVars, rowButStatus, moneyVars, historyVars
  <2>2. MoneyOK'
    BY <1>29, KeepMoney
    DEF TypeInv, ResolveRelease, rowVars, rowButStatus, moneyVars, historyVars
  <2>3. HistoryOK'
    BY <1>29, KeepHistory
    DEF TypeInv, ResolveRelease, rowVars, rowButStatus, moneyVars, historyVars
  <2>4. JobsOK'
    BY <1>29, StartExpiry
    DEF TypeInv, ResolveRelease, Eligible, At, JobsOK, JobOK
  <2> QED
    BY <2>1, <2>2, <2>3, <2>4 DEF TypeInv
<1>30. ASSUME NEW t \in Payments, WindowCloses(t)
      PROVE  TypeInv'
  <2>1. RowsOK'
    BY <1>30
    DEF TypeInv, WindowCloses, RowsOK, Statuses, TRANSACTION_STATES, JobsOK,
        JobOK, At, UnheldPcs, rowVars, rowButStatus, moneyVars, historyVars
  <2>2. MoneyOK'
    BY <1>30, KeepMoney
    DEF TypeInv, WindowCloses, rowVars, rowButStatus, moneyVars, historyVars
  <2>3. HistoryOK'
    BY <1>30, KeepHistory
    DEF TypeInv, WindowCloses, rowVars, rowButStatus, moneyVars, historyVars
  <2>4. JobsOK'
    BY <1>30, KeepJobs DEF TypeInv, WindowCloses
  <2> QED
    BY <2>1, <2>2, <2>3, <2>4 DEF TypeInv
<1>31. ASSUME Crash
      PROVE  TypeInv'
  <2>1. RowsOK'
    BY <1>31, KeepRows
    DEF TypeInv, Crash, rowVars, rowButStatus, moneyVars, historyVars
  <2>2. MoneyOK'
    BY <1>31, KeepMoney
    DEF TypeInv, Crash, rowVars, rowButStatus, moneyVars, historyVars
  <2>3. HistoryOK'
    BY <1>31
    DEF TypeInv, Crash, HistoryOK, JobsOK, JobOK, At, rowVars, rowButStatus,
        moneyVars, historyVars
  <2>4. JobsOK'
    BY <1>31 DEF Crash, JobsOK, JobOK, Job, Idle, Pcs, UnheldPcs, Statuses
  <2> QED
    BY <2>1, <2>2, <2>3, <2>4 DEF TypeInv
<1>32. ASSUME UNCHANGED vars
      PROVE  TypeInv'
  BY <1>32, KeepRows, KeepMoney, KeepHistory, KeepJobs DEF vars, TypeInv
<1>33. ASSUME NEW w \in Workers, SettleCreditFails(w)
      PROVE  TypeInv'
  <2>1. PICK t \in Payments : t = jobs[w].t
    BY <1>33 DEF TypeInv, JobsOK, JobOK, At, SettleCreditFails
  <2>2. RowsOK'
    BY <1>33, KeepRows
    DEF TypeInv, SettleCreditFails, rowVars, rowButStatus, moneyVars, historyVars
  <2>3. MoneyOK'
    BY <1>33, KeepMoney DEF TypeInv, SettleCreditFails, moneyVars
  <2>4. HistoryOK'
    BY <1>33, <2>1
    DEF TypeInv, SettleCreditFails, WriteFails, HistoryOK, RowsOK, envVars, historyVars
  <2>5. JobsOK'
    BY <1>33, <2>1, FinishJob, GotoJob
    DEF TypeInv, SettleCreditFails, JobsOK, JobOK, At, Pcs, UnheldPcs
  <2> QED
    BY <2>2, <2>3, <2>4, <2>5 DEF TypeInv
<1>34. ASSUME NEW w \in Workers, SettleEntryFails(w)
      PROVE  TypeInv'
  <2>1. PICK t \in Payments : t = jobs[w].t
    BY <1>34 DEF TypeInv, JobsOK, JobOK, At, SettleEntryFails
  <2>2. RowsOK'
    BY <1>34, KeepRows
    DEF TypeInv, SettleEntryFails, rowVars, rowButStatus, moneyVars, historyVars
  <2>3. MoneyOK'
    BY <1>34, KeepMoney DEF TypeInv, SettleEntryFails, moneyVars
  <2>4. HistoryOK'
    BY <1>34, <2>1
    DEF TypeInv, SettleEntryFails, WriteFails, HistoryOK, RowsOK, envVars, historyVars
  <2>5. JobsOK'
    BY <1>34, <2>1, FinishJob, GotoJob
    DEF TypeInv, SettleEntryFails, JobsOK, JobOK, At, Pcs, UnheldPcs
  <2> QED
    BY <2>2, <2>3, <2>4, <2>5 DEF TypeInv
<1>35. ASSUME NEW w \in Workers, SettleCollectBack(w)
      PROVE  TypeInv'
  <2>1. PICK t \in Payments : t = jobs[w].t
    BY <1>35 DEF TypeInv, JobsOK, JobOK, At, SettleCollectBack
  <2>2. RowsOK'
    BY <1>35, KeepRows
    DEF TypeInv, SettleCollectBack, rowVars, rowButStatus, moneyVars, historyVars
  <2>3. MoneyOK'
    BY <1>35, <2>1 DEF TypeInv, SettleCollectBack, MoneyOK, RowsOK, JobsOK, JobOK, At
  <2>4. HistoryOK'
    BY <1>35, KeepHistory
    DEF TypeInv, SettleCollectBack, rowVars, rowButStatus, moneyVars, historyVars
  <2>5. JobsOK'
    BY <1>35, <2>1, FinishJob, GotoJob
    DEF TypeInv, SettleCollectBack, JobsOK, JobOK, At, Pcs, UnheldPcs
  <2> QED
    BY <2>2, <2>3, <2>4, <2>5 DEF TypeInv
<1>36. ASSUME NEW w \in Workers, SettleFlag(w)
      PROVE  TypeInv'
  <2>1. PICK t \in Payments : t = jobs[w].t
    BY <1>36 DEF TypeInv, JobsOK, JobOK, At, SettleFlag
  <2>2. RowsOK'
    BY <1>36, <2>1 DEF TypeInv, SettleFlag, RowsOK
  <2>3. MoneyOK'
    BY <1>36, KeepMoney DEF TypeInv, SettleFlag, moneyVars
  <2>4. HistoryOK'
    BY <1>36, KeepHistory
    DEF TypeInv, SettleFlag, rowVars, rowButStatus, moneyVars, historyVars
  <2>5. JobsOK'
    BY <1>36, <2>1, FinishJob, GotoJob
    DEF TypeInv, SettleFlag, JobsOK, JobOK, At, Pcs, UnheldPcs
  <2> QED
    BY <2>2, <2>3, <2>4, <2>5 DEF TypeInv
<1>37. ASSUME NEW w \in Workers, SettleAborts(w)
      PROVE  TypeInv'
  <2>1. PICK t \in Payments : t = jobs[w].t
    BY <1>37 DEF TypeInv, JobsOK, JobOK, At, SettleAborts
  <2>2. RowsOK'
    BY <1>37, KeepRows
    DEF TypeInv, SettleAborts, rowVars, rowButStatus, moneyVars, historyVars
  <2>3. MoneyOK'
    BY <1>37, KeepMoney DEF TypeInv, SettleAborts, moneyVars
  <2>4. HistoryOK'
    BY <1>37, <2>1
    DEF TypeInv, SettleAborts, WriteFails, HistoryOK, RowsOK, envVars, historyVars
  <2>5. JobsOK'
    BY <1>37, <2>1, FinishJob, GotoJob
    DEF TypeInv, SettleAborts, JobsOK, JobOK, At, Pcs, UnheldPcs
  <2> QED
    BY <2>2, <2>3, <2>4, <2>5 DEF TypeInv
<1>38. ASSUME NEW amount \in Withdrawals, DebitPool(amount)
      PROVE  TypeInv'
  <2>1. RowsOK'
    BY <1>38, KeepRows DEF TypeInv, DebitPool
  <2>2. MoneyOK'
    BY <1>38 DEF TypeInv, DebitPool, MoneyOK
  <2>3. HistoryOK'
    BY <1>38 DEF TypeInv, DebitPool, HistoryOK, historyVars
  <2>4. JobsOK'
    BY <1>38, KeepJobs DEF TypeInv, DebitPool
  <2> QED
    BY <2>1, <2>2, <2>3, <2>4 DEF TypeInv
<1>39. ASSUME NEW amount \in Fundings, FundPool(amount)
      PROVE  TypeInv'
  <2>1. RowsOK'
    BY <1>39, KeepRows DEF TypeInv, FundPool
  <2>2. MoneyOK'
    BY <1>39 DEF TypeInv, FundPool, MoneyOK
  <2>3. HistoryOK'
    BY <1>39 DEF TypeInv, FundPool, HistoryOK, historyVars
  <2>4. JobsOK'
    BY <1>39, KeepJobs DEF TypeInv, FundPool
  <2> QED
    BY <2>1, <2>2, <2>3, <2>4 DEF TypeInv
<1> QED
  BY <1>1, <1>2, <1>3, <1>4, <1>5, <1>6, <1>7, <1>8, <1>9, <1>10, <1>11,
     <1>12, <1>13, <1>14, <1>15, <1>16, <1>17, <1>18, <1>19, <1>20, <1>21,
     <1>22, <1>23, <1>24, <1>25, <1>26, <1>27, <1>28, <1>29, <1>30, <1>31,
     <1>32, <1>33, <1>34, <1>35, <1>36, <1>37, <1>38, <1>39
  DEF Next, Request, Decision, JobStep, Workers

LEMMA TypeInvariant == Spec => []TypeInv
<1>1. Init => TypeInv
  BY TypeInit
<1>2. TypeInv /\ [Next]_vars => TypeInv'
  BY TypeStep
<1> QED
  BY <1>1, <1>2, PTL DEF Spec

\* Rows, balances and jobs keep their types; a captain's share stays within
\* what the party is charged, no captain is overdrawn or claims with commission
\* already earned, and neither party nor pool owes anything.
THEOREM TypeCorrect == Spec => []TypeOK
<1>1. TypeInv => TypeOK
  BY DEF TypeInv, RowsOK, MoneyOK, HistoryOK, JobsOK, TypeOK
<1> QED
  BY <1>1, TypeInvariant, PTL

-----------------------------------------------------------------------------
(* Ends *)

EndStays == \A t \in Payments : status[t] \in TRANSACTION_TERMINAL_STATES => status'[t] = status[t]

LEMMA EndsStep ==
  ASSUME TypeInv, [Next]_vars
  PROVE  EndStays
<1>1. ASSUME NEW w \in Workers, NEW c \in Captains,
             Route(w, c)
      PROVE  EndStays
  BY <1>1
  DEF Route, Eligible, EndStays, rowVars, rowButStatus, moneyVars, historyVars
<1>2. ASSUME NEW w \in Workers,
             NotRouted(w) \/ AssignHold(w) \/ AssignLost(w) \/ Release(w)
             \/ SettleRead(w) \/ SettleLost(w) \/
             SettleCredit(w) \/ SettleCollect(w) \/
             SettlePayShare(w) \/ SettleCreditShare(w) \/
             SettleCreditFails(w) \/ SettleEntryFails(w) \/
             SettleCollectBack(w) \/ SettleFlag(w) \/ SettleAborts(w) \/
             ExpireRead(w) \/ ExpireLost(w)
      PROVE  EndStays
  BY <1>2
  DEF NotRouted, AssignHold, TakeHold, WithinCurrentLimit, AssignLost,
      Release, GiveBack, SettleRead, SettleLost, SettleCredit, SettleCollect,
      SettlePayShare, SettleCreditShare, SettleCreditFails, SettleEntryFails,
      SettleCollectBack, SettleFlag, SettleAborts, ExpireRead, ExpireLost, EndStays,
      rowVars, rowButStatus, moneyVars, historyVars
<1>3. ASSUME NEW w \in Workers, NEW t \in Payments,
             SweepList(w, t) \/ ResolveSettle(w, t) \/ ResolveRelease(w,
             t)
      PROVE  EndStays
  BY <1>3
  DEF SweepList, ResolveSettle, ResolveRelease, EndStays, rowVars,
      rowButStatus, moneyVars, historyVars
<1>4. ASSUME NEW t \in Payments,
             WindowCloses(t)
      PROVE  EndStays
  BY <1>4
  DEF WindowCloses, EndStays, rowVars, rowButStatus, moneyVars, historyVars
<1>5. ASSUME Crash
      PROVE  EndStays
  BY <1>5 DEF Crash, EndStays, rowVars, rowButStatus, moneyVars, historyVars
<1>6. ASSUME NEW w \in Workers, NEW t \in Payments,
             Create(w, t)
      PROVE  EndStays
  BY <1>6
  DEF Create, EndStays, TRANSACTION_TERMINAL_STATES, TypeInv, RowsOK, At,
      rowVars, rowButStatus, moneyVars, historyVars
<1>7. ASSUME NEW w \in Workers,
             AssignInTransaction(w)
      PROVE  EndStays
  BY <1>7
  DEF AssignInTransaction, AssignTo, TakeHold, RepricedShare,
      WithinCurrentLimit, EndStays, TRANSACTION_TERMINAL_STATES, TypeInv,
      RowsOK, At, rowVars, rowButStatus, moneyVars, historyVars
<1>8. ASSUME NEW w \in Workers,
             AssignClaim(w)
      PROVE  EndStays
  BY <1>8
  DEF AssignClaim, AssignTo, RepricedShare, EndStays,
      TRANSACTION_TERMINAL_STATES, TypeInv, RowsOK, At, rowVars, rowButStatus,
      moneyVars, historyVars
<1>9. ASSUME NEW w \in Workers,
             PutBack(w)
      PROVE  EndStays
  BY <1>9
  DEF PutBack, HandBack, EndStays, TRANSACTION_TERMINAL_STATES, TypeInv,
      RowsOK, At, rowVars, rowButStatus, moneyVars, historyVars
<1>10. ASSUME NEW w \in Workers,
             Open(w)
      PROVE  EndStays
  BY <1>10
  DEF Open, EndStays, TRANSACTION_TERMINAL_STATES, TypeInv, RowsOK, At,
      rowVars, rowButStatus, moneyVars, historyVars
<1>11. ASSUME NEW t \in Payments, NEW c \in Captains,
             DeclineInTransaction(t, c)
      PROVE  EndStays
  BY <1>11
  DEF DeclineInTransaction, Declined, HandBack, GiveBack, EndStays,
      TRANSACTION_TERMINAL_STATES, TypeInv, RowsOK, At, rowVars, rowButStatus,
      moneyVars, historyVars
<1>12. ASSUME NEW w \in Workers, NEW t \in Payments, NEW c \in Captains,
             Decline(w, t, c)
      PROVE  EndStays
  BY <1>12
  DEF Decline, Declined, HandBack, EndStays, TRANSACTION_TERMINAL_STATES,
      TypeInv, RowsOK, At, rowVars, rowButStatus, moneyVars, historyVars
<1>13. ASSUME NEW w \in Workers, NEW t \in Payments,
             Webhook(w, t)
      PROVE  EndStays
  BY <1>13
  DEF Webhook, EndStays, TRANSACTION_TERMINAL_STATES, TypeInv, RowsOK, At,
      rowVars, rowButStatus, moneyVars, historyVars
<1>14. ASSUME NEW w \in Workers,
             SettleInTransaction(w)
      PROVE  EndStays
  BY <1>14
  DEF SettleInTransaction, MarkSettled, EndStays, TRANSACTION_TERMINAL_STATES,
      TypeInv, RowsOK, At, rowVars, rowButStatus, moneyVars, historyVars,
      JobsOK, JobOK
<1>15. ASSUME NEW w \in Workers,
             SettleClaim(w)
      PROVE  EndStays
  BY <1>15
  DEF SettleClaim, MarkSettled, EndStays, TRANSACTION_TERMINAL_STATES,
      TypeInv, RowsOK, At, rowVars, rowButStatus, moneyVars, historyVars,
      JobsOK, JobOK
<1>16. ASSUME NEW w \in Workers,
             ExpireInTransaction(w)
      PROVE  EndStays
  BY <1>16
  DEF ExpireInTransaction, MarkExpired, WasHeld, GiveBack, EndStays,
      TRANSACTION_TERMINAL_STATES, TypeInv, RowsOK, At, rowVars, rowButStatus,
      moneyVars, historyVars, JobsOK, JobOK
<1>17. ASSUME NEW w \in Workers,
             ExpireClaim(w)
      PROVE  EndStays
  BY <1>17
  DEF ExpireClaim, MarkExpired, WasHeld, EndStays,
      TRANSACTION_TERMINAL_STATES, TypeInv, RowsOK, At, rowVars, rowButStatus,
      moneyVars, historyVars, JobsOK, JobOK
<1>18. ASSUME NEW t \in Payments,
             Dispute(t)
      PROVE  EndStays
  BY <1>18
  DEF Dispute, EndStays, TRANSACTION_TERMINAL_STATES, TypeInv, RowsOK, At,
      rowVars, rowButStatus, moneyVars, historyVars, CanTransition,
      TRANSACTION_TRANSITIONS, TRANSACTION_STATES
<1>19. ASSUME UNCHANGED vars
      PROVE  EndStays
  BY <1>19 DEF EndStays, vars, rowVars
<1>20. ASSUME NEW amount \in Withdrawals,
             DebitPool(amount)
      PROVE  EndStays
  BY <1>20
  DEF DebitPool, EndStays, rowVars, rowButStatus, moneyVars, historyVars
<1>21. ASSUME NEW amount \in Fundings,
             FundPool(amount)
      PROVE  EndStays
  BY <1>21
  DEF FundPool, EndStays, rowVars, rowButStatus, moneyVars, historyVars
<1> QED
  BY <1>1, <1>2, <1>3, <1>4, <1>5, <1>6, <1>7, <1>8, <1>9, <1>10, <1>11,
     <1>12, <1>13, <1>14, <1>15, <1>16, <1>17, <1>18, <1>19, <1>20, <1>21
  DEF Next, Request, Decision, JobStep, Workers

\* A pay-in that has ended stays as it ended, whatever a late job had read.
THEOREM EndsAreFinal == Spec => EndedIsFinal
<1>1. TypeInv /\ [Next]_vars
        => [\A t \in Payments :
              status[t] \in TRANSACTION_TERMINAL_STATES => status'[t] = status[t]]_vars
  BY EndsStep DEF EndStays
<1> QED
  BY <1>1, TypeInvariant, PTL DEF Spec, EndedIsFinal

-----------------------------------------------------------------------------
(* The captain of a pay-in *)

AssigningPcs == {"route", "assign", "open"} \cup UnheldPcs

\* The job of w finds t a captain, or gives back what was held for it.
Assigns(w, t) == jobs[w].t = t /\ jobs[w].pc \in AssigningPcs
Releases(w, t) == jobs[w].t = t /\ jobs[w].pc = "release"

\* Nothing has been held for t, from anyone, and nobody has it.
Untouched(t) ==
  /\ captainId[t] = None
  /\ \A c \in Captains : hold[t][c] = 0
  /\ \A w \in Workers : ~Releases(w, t)

\* A captain has t, and n times its amount was held from them.
HeldFrom(t, n) ==
  /\ captainId[t] \in Captains
  /\ hold[t][captainId[t]] = n
  /\ \A w \in Workers : ~Releases(w, t)

\* The one job that assigns t, as far as it has come.
AssignmentOK(w, t) ==
  /\ status[t] \in {"CREATED", "ASSIGNED", "EXPIRED"}
  /\ jobs[w].pc \in {"route", "assign"} => status[t] # "ASSIGNED" /\ Untouched(t)
  /\ status[t] = "ASSIGNED" =>
       captainId[t] = jobs[w].c /\ HeldFrom(t, IF jobs[w].pc = "open" THEN 1 ELSE 0)

PaidStates == {"AWAITING_CUSTOMER", "CONFIRMED", "DISPUTED", "SETTLED"}

\* A pay-in is assigned by one job, which the customer waits for; from when it
\* is opened to the customer its captain's amount is held until it expires.
CarriedOf(t) ==
  /\ status[t] = "ABSENT" => Untouched(t)
  /\ status[t] \in TRANSACTION_HELD_STATES => captainId[t] \in Captains
  /\ status[t] \in PaidStates => HeldFrom(t, 1)
  /\ \A w \in Workers : Assigns(w, t) => AssignmentOK(w, t)
  /\ \A v, w \in Workers : Assigns(v, t) /\ Assigns(w, t) => v = w

CarriedInv == \A t \in Payments : CarriedOf(t)

LEMMA CarriedInit == Init => CarriedInv
<1> SUFFICES ASSUME Init, NEW t \in Payments
             PROVE  CarriedOf(t)
  BY DEF CarriedInv
<1>1. /\ status[t] = "ABSENT" /\ captainId[t] = None
      /\ \A c \in Captains : hold[t][c] = 0
  BY DEF Init
<1>2. \A w \in Workers : ~Assigns(w, t) /\ ~Releases(w, t)
  BY DEF Init, Idle, Assigns, AssigningPcs, UnheldPcs, Releases
<1> QED
  BY <1>1, <1>2 DEF CarriedOf, Untouched, PaidStates, TRANSACTION_HELD_STATES

\* A step leaves the row of t, or what the job of w does for t, as it is.
RowStays(t) ==
  /\ status'[t] = status[t] /\ captainId'[t] = captainId[t]
  /\ hold'[t] = hold[t]

JobStays(w, t) ==
  /\ Assigns(w, t)' => Assigns(w, t) /\ jobs'[w].pc = jobs[w].pc /\ jobs'[w].c = jobs[w].c
  /\ Releases(w, t)' => Releases(w, t)

LEMMA UntouchedStays ==
  ASSUME NEW t \in Payments, Untouched(t), captainId'[t] = captainId[t], hold'[t] = hold[t],
         \A w \in Workers : Releases(w, t)' => Releases(w, t)
  PROVE  Untouched(t)'
BY DEF Untouched

LEMMA HeldStays ==
  ASSUME NEW t \in Payments, NEW n, HeldFrom(t, n), captainId'[t] = captainId[t],
         hold'[t] = hold[t], \A w \in Workers : Releases(w, t)' => Releases(w, t)
  PROVE  captainId'[t] \in Captains /\ hold'[t][captainId'[t]] = n
         /\ \A w \in Workers : ~(Releases(w, t)')
BY DEF HeldFrom

LEMMA HeldAfter ==
  ASSUME NEW t \in Payments, captainId'[t] \in Captains, hold'[t][captainId'[t]] = 1,
         \A w \in Workers : ~(Releases(w, t)')
  PROVE  HeldFrom(t, 1)'
BY DEF HeldFrom

LEMMA AssignmentStays ==
  ASSUME NEW w \in Workers, NEW t \in Payments, AssignmentOK(w, t), RowStays(t),
         \A v \in Workers : JobStays(v, t), Assigns(w, t)'
  PROVE  AssignmentOK(w, t)'
<1>1. jobs'[w].pc = jobs[w].pc /\ jobs'[w].c = jobs[w].c
  BY DEF JobStays
<1>2. \A v \in Workers : Releases(v, t)' => Releases(v, t)
  BY DEF JobStays
<1>3. Untouched(t) => Untouched(t)'
  BY <1>2, UntouchedStays DEF RowStays
<1>4. ASSUME status[t] = "ASSIGNED"
      PROVE  captainId'[t] = jobs'[w].c
             /\ HeldFrom(t, IF jobs[w].pc = "open" THEN 1 ELSE 0)'
  BY <1>1, <1>2, <1>4 DEF AssignmentOK, HeldFrom, RowStays
<1> QED
  BY <1>1, <1>3, <1>4 DEF AssignmentOK, RowStays

LEMMA CarriedStays ==
  ASSUME NEW t \in Payments, CarriedOf(t), RowStays(t), \A w \in Workers : JobStays(w, t)
  PROVE  CarriedOf(t)'
<1>1. \A w \in Workers : Releases(w, t)' => Releases(w, t)
  BY DEF JobStays
<1>2. status'[t] = "ABSENT" => Untouched(t)'
  BY <1>1, UntouchedStays DEF CarriedOf, RowStays
<1>3. status'[t] \in TRANSACTION_HELD_STATES => captainId'[t] \in Captains
  BY DEF CarriedOf, RowStays
<1>4. status'[t] \in PaidStates => HeldFrom(t, 1)'
  BY <1>1, HeldStays, HeldAfter DEF CarriedOf, RowStays
<1>5. \A w \in Workers : Assigns(w, t)' => AssignmentOK(w, t)'
  BY AssignmentStays DEF CarriedOf, JobStays
<1>6. \A v, w \in Workers : Assigns(v, t)' /\ Assigns(w, t)' => v = w
  BY DEF CarriedOf, JobStays
<1> QED
  BY <1>2, <1>3, <1>4, <1>5, <1>6 DEF CarriedOf

\* A step that concerns one pay-in.
LEMMA CarriedElsewhere ==
  ASSUME CarriedInv, NEW t \in Payments, CarriedOf(t)',
         \A u \in Payments \ {t} : RowStays(u) /\ \A w \in Workers : JobStays(w, u)
  PROVE  CarriedInv'
<1>1. \A u \in Payments \ {t} : CarriedOf(u)'
  BY CarriedStays DEF CarriedInv
<1> QED
  BY <1>1 DEF CarriedInv

\* A step that assigns nobody, takes and gives back no hold, and moves no row.
LEMMA CarriedEverywhere ==
  ASSUME CarriedInv, \A u \in Payments : RowStays(u) /\ \A w \in Workers : JobStays(w, u)
  PROVE  CarriedInv'
BY CarriedStays DEF CarriedInv

\* The job of w is the only one that a step concerns, and it is about t.
LEMMA OtherJobsStay ==
  ASSUME NEW w \in Workers, NEW t, \A v \in Workers \ {w} : jobs'[v] = jobs[v],
         jobs'[w].t = t \/ jobs'[w].pc = "idle"
  PROVE  /\ \A u \in Payments \ {t}, v \in Workers : JobStays(v, u)
         /\ \A v \in Workers \ {w} : JobStays(v, t)
BY DEF JobStays, Assigns, Releases, AssigningPcs, UnheldPcs

\* The job of w leaves off, or turns to something that assigns and releases nothing.
LEMMA JobsStay ==
  ASSUME NEW w \in Workers, \A v \in Workers \ {w} : jobs'[v] = jobs[v],
         jobs'[w].pc \notin AssigningPcs \cup {"release"}
  PROVE  \A u \in Payments, v \in Workers : JobStays(v, u)
BY DEF JobStays, Assigns, Releases

\* The hold is taken and the pay-in goes on to the customer, or neither.
LEMMA TakenOrNot ==
  ASSUME TypeInv, NEW w \in Workers, NEW t \in Payments, NEW c \in Captains, TakeHold(w, t, c)
  PROVE  \E p \in {"open", "putBack"} :
           /\ jobs' = [jobs EXCEPT ![w].pc = p]
           /\ hold[t][c] = 0 => IF p = "open" THEN hold'[t][c] = 1 ELSE hold'[t][c] = 0
           /\ \A u \in Payments \ {t} : hold'[u] = hold[u]
<1>1. CASE WithinCurrentLimit(c, Amount[t])
  BY <1>1 DEF TakeHold, Goto, TypeInv, HistoryOK
<1>2. CASE ~WithinCurrentLimit(c, Amount[t])
  BY <1>2 DEF TakeHold, Goto, TypeInv, HistoryOK
<1> QED
  BY <1>1, <1>2

\* The job of w claims t for c, with the hold taken (p = "open") or not.
Claims(w, t, c, p) ==
  /\ jobs[w].t = t /\ jobs[w].c = c
  /\ jobs' = [jobs EXCEPT ![w].pc = p]
  /\ status'[t] = "ASSIGNED" /\ captainId'[t] = c
  /\ hold'[t][c] = IF p = "open" THEN 1 ELSE 0
  /\ \A u \in Payments \ {t} : RowStays(u)

LEMMA ClaimCarries ==
  ASSUME TypeInv, CarriedInv, NEW w \in Workers, NEW t \in Payments, NEW c \in Captains,
         NEW p \in {"hold", "open", "putBack"}, Claims(w, t, c, p),
         Untouched(t), \A v \in Workers : Assigns(v, t) => v = w
  PROVE  CarriedInv'
<1>0. /\ status'[t] = "ASSIGNED" /\ captainId'[t] = c
      /\ hold'[t][c] = IF p = "open" THEN 1 ELSE 0
      /\ \A u \in Payments \ {t} : RowStays(u)
  BY DEF Claims
<1>1. /\ jobs'[w].pc = p /\ jobs'[w].t = t /\ jobs'[w].c = c
      /\ \A v \in Workers \ {w} : jobs'[v] = jobs[v]
  BY DEF Claims, TypeInv, JobsOK, Job
<1>2. \A v \in Workers : ~(Releases(v, t)')
  BY <1>1 DEF Untouched, Releases
<1>3. AssignmentOK(w, t)'
  BY <1>0, <1>1, <1>2 DEF AssignmentOK, HeldFrom
<1>4. \A v \in Workers : Assigns(v, t)' => v = w
  BY <1>1 DEF Assigns
<1>5. CarriedOf(t)'
  BY <1>0, <1>3, <1>4 DEF CarriedOf, PaidStates
<1> QED
  BY <1>0, <1>1, <1>5, OtherJobsStay, CarriedElsewhere

\* A captain declines.
LEMMA HandedBack ==
  ASSUME NEW t \in Payments, CarriedOf(t), status[t] = "ASSIGNED", status'[t] = "CREATED",
         \A v \in Workers : Assigns(v, t)' => Assigns(v, t) /\ jobs'[v] = jobs[v]
  PROVE  CarriedOf(t)'
<1>1. \A v \in Workers : Assigns(v, t)' => AssignmentOK(v, t)'
  BY DEF CarriedOf, AssignmentOK
<1>2. \A v, w \in Workers : Assigns(v, t)' /\ Assigns(w, t)' => v = w
  BY DEF CarriedOf
<1> QED
  BY <1>1, <1>2 DEF CarriedOf, PaidStates, TRANSACTION_HELD_STATES

\* The customer has paid, or says so.
LEMMA PaidStays ==
  ASSUME NEW t \in Payments, CarriedOf(t), status[t] \in PaidStates, status'[t] \in PaidStates,
         captainId' = captainId, hold' = hold, \A v \in Workers : JobStays(v, t)
  PROVE  CarriedOf(t)'
<1>1. \A v \in Workers : ~(Assigns(v, t)')
  BY DEF JobStays, CarriedOf, AssignmentOK, PaidStates
<1>2. HeldFrom(t, 1)
  BY DEF CarriedOf
<1>3. HeldFrom(t, 1)' /\ captainId'[t] \in Captains
  BY <1>2 DEF HeldFrom, JobStays
<1> QED
  BY <1>1, <1>3 DEF CarriedOf, PaidStates

\* A pay-in expires; if no captain had it, nothing is given back.
LEMMA ExpiredStays ==
  ASSUME NEW t \in Payments, CarriedOf(t), status'[t] = "EXPIRED", captainId' = captainId,
         status[t] = "CREATED" \/ status[t] \in TRANSACTION_HELD_STATES,
         \A v \in Workers : Assigns(v, t)' => Assigns(v, t) /\ jobs'[v] = jobs[v],
         status[t] = "CREATED" =>
           hold'[t] = hold[t] /\ \A v \in Workers : Releases(v, t)' => Releases(v, t)
  PROVE  CarriedOf(t)'
<1>1. ASSUME NEW v \in Workers, Assigns(v, t)'
      PROVE  AssignmentOK(v, t)'
  <2>1. AssignmentOK(v, t) /\ jobs'[v] = jobs[v]
    BY <1>1 DEF CarriedOf
  <2>2. jobs[v].pc \in {"route", "assign"} => Untouched(t)'
    BY <2>1, UntouchedStays DEF AssignmentOK, TRANSACTION_HELD_STATES
  <2> QED
    BY <2>1, <2>2 DEF AssignmentOK
<1>2. \A v, w \in Workers : Assigns(v, t)' /\ Assigns(w, t)' => v = w
  BY DEF CarriedOf
<1> QED
  BY <1>1, <1>2 DEF CarriedOf, PaidStates, TRANSACTION_HELD_STATES

LEMMA CarriedStep ==
  ASSUME TypeInv, CarriedInv, [Next]_vars
  PROVE  CarriedInv'
<1>1. ASSUME NEW w \in Workers, NotRouted(w)
      PROVE  CarriedInv'
  <2>1. \A u \in Payments : RowStays(u)
    BY <1>1
    DEF RowStays, NotRouted, rowVars, rowButStatus, moneyVars, historyVars
  <2>2. /\ \A v \in Workers \ {w} : jobs'[v] = jobs[v]
        /\ jobs'[w].pc \notin AssigningPcs \cup {"release"}
    BY <1>1
    DEF TypeInv, JobsOK, Job, NotRouted, At, Begin, Goto, Finish, Idle,
        AssigningPcs, UnheldPcs
  <2> QED
    BY <2>1, <2>2, JobsStay, CarriedEverywhere
<1>2. ASSUME NEW w \in Workers, AssignLost(w)
      PROVE  CarriedInv'
  <2>1. \A u \in Payments : RowStays(u)
    BY <1>2
    DEF RowStays, AssignLost, rowVars, rowButStatus, moneyVars, historyVars
  <2>2. /\ \A v \in Workers \ {w} : jobs'[v] = jobs[v]
        /\ jobs'[w].pc \notin AssigningPcs \cup {"release"}
    BY <1>2
    DEF TypeInv, JobsOK, Job, AssignLost, At, Begin, Goto, Finish, Idle,
        AssigningPcs, UnheldPcs
  <2> QED
    BY <2>1, <2>2, JobsStay, CarriedEverywhere
<1>3. ASSUME NEW w \in Workers, SettleRead(w)
      PROVE  CarriedInv'
  <2>1. \A u \in Payments : RowStays(u)
    BY <1>3
    DEF RowStays, SettleRead, rowVars, rowButStatus, moneyVars, historyVars
  <2>2. /\ \A v \in Workers \ {w} : jobs'[v] = jobs[v]
        /\ jobs'[w].pc \notin AssigningPcs \cup {"release"}
    BY <1>3
    DEF TypeInv, JobsOK, Job, SettleRead, At, Begin, Goto, Finish, Idle,
        AssigningPcs, UnheldPcs
  <2> QED
    BY <2>1, <2>2, JobsStay, CarriedEverywhere
<1>4. ASSUME NEW w \in Workers, SettleLost(w)
      PROVE  CarriedInv'
  <2>1. \A u \in Payments : RowStays(u)
    BY <1>4
    DEF RowStays, SettleLost, rowVars, rowButStatus, moneyVars, historyVars
  <2>2. /\ \A v \in Workers \ {w} : jobs'[v] = jobs[v]
        /\ jobs'[w].pc \notin AssigningPcs \cup {"release"}
    BY <1>4
    DEF TypeInv, JobsOK, Job, SettleLost, At, Begin, Goto, Finish, Idle,
        AssigningPcs, UnheldPcs
  <2> QED
    BY <2>1, <2>2, JobsStay, CarriedEverywhere
<1>5. ASSUME NEW w \in Workers, SettleCredit(w)
      PROVE  CarriedInv'
  <2>1. \A u \in Payments : RowStays(u)
    BY <1>5
    DEF RowStays, SettleCredit, rowVars, rowButStatus, moneyVars, historyVars
  <2>2. /\ \A v \in Workers \ {w} : jobs'[v] = jobs[v]
        /\ jobs'[w].pc \notin AssigningPcs \cup {"release"}
    BY <1>5
    DEF TypeInv, JobsOK, Job, SettleCredit, At, Begin, Goto, Finish, Idle,
        AssigningPcs, UnheldPcs
  <2> QED
    BY <2>1, <2>2, JobsStay, CarriedEverywhere
<1>6. ASSUME NEW w \in Workers, SettleCollect(w)
      PROVE  CarriedInv'
  <2>1. \A u \in Payments : RowStays(u)
    BY <1>6
    DEF RowStays, SettleCollect, rowVars, rowButStatus, moneyVars, historyVars
  <2>2. /\ \A v \in Workers \ {w} : jobs'[v] = jobs[v]
        /\ jobs'[w].pc \notin AssigningPcs \cup {"release"}
    BY <1>6
    DEF TypeInv, JobsOK, Job, SettleCollect, At, Begin, Goto, Finish, Idle,
        AssigningPcs, UnheldPcs
  <2> QED
    BY <2>1, <2>2, JobsStay, CarriedEverywhere
<1>7. ASSUME NEW w \in Workers, SettlePayShare(w)
      PROVE  CarriedInv'
  <2>1. \A u \in Payments : RowStays(u)
    BY <1>7
    DEF RowStays, SettlePayShare, rowVars, rowButStatus, moneyVars,
        historyVars
  <2>2. /\ \A v \in Workers \ {w} : jobs'[v] = jobs[v]
        /\ jobs'[w].pc \notin AssigningPcs \cup {"release"}
    BY <1>7
    DEF TypeInv, JobsOK, Job, SettlePayShare, At, Begin, Goto, Finish, Idle,
        AssigningPcs, UnheldPcs
  <2> QED
    BY <2>1, <2>2, JobsStay, CarriedEverywhere
<1>8. ASSUME NEW w \in Workers, SettleCreditShare(w)
      PROVE  CarriedInv'
  <2>1. \A u \in Payments : RowStays(u)
    BY <1>8
    DEF RowStays, SettleCreditShare, rowVars, rowButStatus, moneyVars,
        historyVars
  <2>2. /\ \A v \in Workers \ {w} : jobs'[v] = jobs[v]
        /\ jobs'[w].pc \notin AssigningPcs \cup {"release"}
    BY <1>8
    DEF TypeInv, JobsOK, Job, SettleCreditShare, At, Begin, Goto, Finish,
        Idle, AssigningPcs, UnheldPcs
  <2> QED
    BY <2>1, <2>2, JobsStay, CarriedEverywhere
<1>9. ASSUME NEW w \in Workers, NEW t \in Payments, SweepList(w, t)
      PROVE  CarriedInv'
  <2>1. \A u \in Payments : RowStays(u)
    BY <1>9
    DEF RowStays, SweepList, rowVars, rowButStatus, moneyVars, historyVars
  <2>2. /\ \A v \in Workers \ {w} : jobs'[v] = jobs[v]
        /\ jobs'[w].pc \notin AssigningPcs \cup {"release"}
    BY <1>9
    DEF TypeInv, JobsOK, Job, SweepList, At, Begin, Goto, Finish, Idle,
        AssigningPcs, UnheldPcs
  <2> QED
    BY <2>1, <2>2, JobsStay, CarriedEverywhere
<1>10. ASSUME NEW w \in Workers, ExpireRead(w)
      PROVE  CarriedInv'
  <2>1. \A u \in Payments : RowStays(u)
    BY <1>10
    DEF RowStays, ExpireRead, rowVars, rowButStatus, moneyVars, historyVars
  <2>2. /\ \A v \in Workers \ {w} : jobs'[v] = jobs[v]
        /\ jobs'[w].pc \notin AssigningPcs \cup {"release"}
    BY <1>10
    DEF TypeInv, JobsOK, Job, ExpireRead, At, Begin, Goto, Finish, Idle,
        AssigningPcs, UnheldPcs
  <2> QED
    BY <2>1, <2>2, JobsStay, CarriedEverywhere
<1>11. ASSUME NEW w \in Workers, ExpireLost(w)
      PROVE  CarriedInv'
  <2>1. \A u \in Payments : RowStays(u)
    BY <1>11
    DEF RowStays, ExpireLost, rowVars, rowButStatus, moneyVars, historyVars
  <2>2. /\ \A v \in Workers \ {w} : jobs'[v] = jobs[v]
        /\ jobs'[w].pc \notin AssigningPcs \cup {"release"}
    BY <1>11
    DEF TypeInv, JobsOK, Job, ExpireLost, At, Begin, Goto, Finish, Idle,
        AssigningPcs, UnheldPcs
  <2> QED
    BY <2>1, <2>2, JobsStay, CarriedEverywhere
<1>12. ASSUME NEW w \in Workers, NEW t \in Payments, ResolveSettle(w, t)
      PROVE  CarriedInv'
  <2>1. \A u \in Payments : RowStays(u)
    BY <1>12
    DEF RowStays, ResolveSettle, rowVars, rowButStatus, moneyVars, historyVars
  <2>2. /\ \A v \in Workers \ {w} : jobs'[v] = jobs[v]
        /\ jobs'[w].pc \notin AssigningPcs \cup {"release"}
    BY <1>12
    DEF TypeInv, JobsOK, Job, ResolveSettle, At, Begin, Goto, Finish, Idle,
        AssigningPcs, UnheldPcs
  <2> QED
    BY <2>1, <2>2, JobsStay, CarriedEverywhere
<1>13. ASSUME NEW w \in Workers, NEW t \in Payments, ResolveRelease(w, t)
      PROVE  CarriedInv'
  <2>1. \A u \in Payments : RowStays(u)
    BY <1>13
    DEF RowStays, ResolveRelease, rowVars, rowButStatus, moneyVars,
        historyVars
  <2>2. /\ \A v \in Workers \ {w} : jobs'[v] = jobs[v]
        /\ jobs'[w].pc \notin AssigningPcs \cup {"release"}
    BY <1>13
    DEF TypeInv, JobsOK, Job, ResolveRelease, At, Begin, Goto, Finish, Idle,
        AssigningPcs, UnheldPcs
  <2> QED
    BY <2>1, <2>2, JobsStay, CarriedEverywhere
<1>14. ASSUME NEW t \in Payments, WindowCloses(t)
      PROVE  CarriedInv'
  BY <1>14, CarriedEverywhere
  DEF RowStays, JobStays, Assigns, Releases, WindowCloses, rowVars,
      rowButStatus, moneyVars, historyVars
<1>15. ASSUME Crash
      PROVE  CarriedInv'
  BY <1>15, CarriedEverywhere
  DEF RowStays, JobStays, Assigns, Releases, Crash, Idle, AssigningPcs,
      UnheldPcs, rowVars, rowButStatus, moneyVars, historyVars
<1>16. ASSUME UNCHANGED vars
      PROVE  CarriedInv'
  BY <1>16, CarriedEverywhere
  DEF RowStays, JobStays, Assigns, Releases, vars, rowVars, rowButStatus,
      historyVars
<1>17. ASSUME NEW w \in Workers, NEW t \in Payments, Create(w, t)
      PROVE  CarriedInv'
  <2>1. /\ status[t] = "ABSENT" /\ status'[t] = "CREATED" /\ captainId'[t] = captainId[t]
        /\ hold' = hold /\ \A u \in Payments \ {t} : RowStays(u)
    BY <1>17 DEF Create, RowStays, TypeInv, RowsOK, rowButStatus, historyVars
  <2>2. jobs'[w].pc = "route" /\ jobs'[w].t = t /\ \A v \in Workers \ {w} : jobs'[v] = jobs[v]
    BY <1>17 DEF Create, Begin, TypeInv, JobsOK, Job
  <2>3. Untouched(t) /\ \A v \in Workers : ~Assigns(v, t)
    BY <2>1 DEF CarriedInv, CarriedOf, AssignmentOK
  <2>4. \A v \in Workers : Releases(v, t)' => Releases(v, t)
    BY <2>2 DEF Releases
  <2>5. Untouched(t)'
    BY <2>1, <2>3, <2>4, UntouchedStays
  <2>6. \A v \in Workers : Assigns(v, t)' => v = w
    BY <2>2, <2>3 DEF Assigns
  <2>7. AssignmentOK(w, t)'
    BY <2>1, <2>2, <2>5 DEF AssignmentOK
  <2>8. CarriedOf(t)'
    BY <2>1, <2>6, <2>7 DEF CarriedOf, PaidStates, TRANSACTION_HELD_STATES
  <2> QED
    BY <2>1, <2>2, <2>8, OtherJobsStay, CarriedElsewhere
<1>18. ASSUME NEW w \in Workers, NEW c \in Captains, Route(w, c)
      PROVE  CarriedInv'
  <2>1. PICK t \in Payments : t = jobs[w].t
    BY <1>18 DEF Route, At, TypeInv, JobsOK, JobOK
  <2>2. status[t] = "CREATED" /\ \A u \in Payments : RowStays(u)
    BY <1>18, <2>1 DEF Route, RowStays, rowVars, rowButStatus, historyVars
  <2>3. /\ jobs[w].pc = "route" /\ jobs'[w].pc = "assign" /\ jobs'[w].t = t
        /\ \A v \in Workers \ {w} : jobs'[v] = jobs[v]
    BY <1>18, <2>1 DEF Route, At, TypeInv, JobsOK, Job
  <2>4. Assigns(w, t) /\ \A v \in Workers : Releases(v, t)' => Releases(v, t)
    BY <2>1, <2>3 DEF Assigns, AssigningPcs, Releases
  <2>5. Untouched(t)'
    BY <2>2, <2>3, <2>4, UntouchedStays DEF CarriedInv, CarriedOf, AssignmentOK, RowStays
  <2>6. \A v \in Workers : Assigns(v, t)' => v = w
    BY <2>3, <2>4 DEF Assigns, CarriedInv, CarriedOf
  <2>7. AssignmentOK(w, t)'
    BY <2>2, <2>5 DEF AssignmentOK, RowStays
  <2>8. CarriedOf(t)'
    BY <2>2, <2>6, <2>7 DEF CarriedOf, PaidStates, TRANSACTION_HELD_STATES, RowStays
  <2> QED
    BY <2>2, <2>3, <2>8, OtherJobsStay, CarriedElsewhere
<1>19. ASSUME NEW w \in Workers, AssignInTransaction(w)
      PROVE  CarriedInv'
  <2>1. PICK t \in Payments, c \in Captains : t = jobs[w].t /\ c = jobs[w].c
    BY <1>19 DEF AssignInTransaction, At, TypeInv, JobsOK, JobOK, UnheldPcs
  <2>2. /\ status[t] = "CREATED" /\ status'[t] = "ASSIGNED" /\ captainId'[t] = c
        /\ \A u \in Payments \ {t} : status'[u] = status[u] /\ captainId'[u] = captainId[u]
    BY <1>19, <2>1 DEF AssignInTransaction, AssignTo, TypeInv, RowsOK
  <2>3. jobs[w].pc = "assign" /\ Assigns(w, t)
    BY <1>19, <2>1 DEF AssignInTransaction, At, Assigns, AssigningPcs
  <2>4. Untouched(t) /\ \A v \in Workers : Assigns(v, t) => v = w
    BY <2>3 DEF CarriedInv, CarriedOf, AssignmentOK
  <2>5. TakeHold(w, t, c)
    BY <1>19, <2>1 DEF AssignInTransaction
  <2>6. PICK p \in {"open", "putBack"} :
          /\ jobs' = [jobs EXCEPT ![w].pc = p]
          /\ IF p = "open" THEN hold'[t][c] = 1 ELSE hold'[t][c] = 0
          /\ \A u \in Payments \ {t} : hold'[u] = hold[u]
    BY <2>4, <2>5, TakenOrNot DEF Untouched
  <2>7. Claims(w, t, c, p)
    BY <2>1, <2>2, <2>4, <2>6 DEF Claims, RowStays, Untouched
  <2>8. p \in {"hold", "open", "putBack"}
    OBVIOUS
  <2> QED
    BY <2>4, <2>7, <2>8, ClaimCarries
<1>20. ASSUME NEW w \in Workers, AssignClaim(w)
      PROVE  CarriedInv'
  <2>1. PICK t \in Payments, c \in Captains : t = jobs[w].t /\ c = jobs[w].c
    BY <1>20 DEF AssignClaim, At, TypeInv, JobsOK, JobOK, UnheldPcs
  <2>2. /\ status[t] = "CREATED" /\ status'[t] = "ASSIGNED" /\ captainId'[t] = c
        /\ \A u \in Payments \ {t} : status'[u] = status[u] /\ captainId'[u] = captainId[u]
    BY <1>20, <2>1 DEF AssignClaim, AssignTo, TypeInv, RowsOK
  <2>3. jobs[w].pc = "assign" /\ Assigns(w, t)
    BY <1>20, <2>1 DEF AssignClaim, At, Assigns, AssigningPcs
  <2>4. Untouched(t) /\ \A v \in Workers : Assigns(v, t) => v = w
    BY <2>3 DEF CarriedInv, CarriedOf, AssignmentOK
  <2>5. jobs' = [jobs EXCEPT ![w].pc = "hold"] /\ hold' = hold
    BY <1>20 DEF AssignClaim, Goto, historyVars
  <2>6. Claims(w, t, c, "hold")
    BY <2>1, <2>2, <2>4, <2>5 DEF Claims, RowStays, Untouched
  <2> QED
    BY <2>4, <2>6, ClaimCarries
<1>21. ASSUME NEW w \in Workers, AssignHold(w)
      PROVE  CarriedInv'
  <2>1. PICK t \in Payments, c \in Captains : t = jobs[w].t /\ c = jobs[w].c
    BY <1>21 DEF AssignHold, At, TypeInv, JobsOK, JobOK, UnheldPcs
  <2>2. \A u \in Payments : status'[u] = status[u] /\ captainId'[u] = captainId[u]
    BY <1>21 DEF AssignHold, rowVars, rowButStatus
  <2>3. jobs[w].pc = "hold" /\ Assigns(w, t)
    BY <1>21, <2>1 DEF AssignHold, At, Assigns, AssigningPcs, UnheldPcs
  <2>4. AssignmentOK(w, t) /\ \A v \in Workers : Assigns(v, t) => v = w
    BY <2>3 DEF CarriedInv, CarriedOf
  <2>5. TakeHold(w, t, c)
    BY <1>21, <2>1 DEF AssignHold
  <2>6. PICK p \in {"open", "putBack"} :
          /\ jobs' = [jobs EXCEPT ![w].pc = p]
          /\ hold[t][c] = 0 => IF p = "open" THEN hold'[t][c] = 1 ELSE hold'[t][c] = 0
          /\ \A u \in Payments \ {t} : hold'[u] = hold[u]
    BY <2>5, TakenOrNot DEF TypeInv, HistoryOK
  <2>7. /\ jobs'[w].pc = p /\ jobs'[w].t = t /\ jobs'[w].c = c
        /\ \A v \in Workers \ {w} : jobs'[v] = jobs[v]
    BY <2>1, <2>6 DEF TypeInv, JobsOK, Job
  <2>8. \A v \in Workers : Releases(v, t)' => Releases(v, t)
    BY <2>7 DEF Releases
  <2>9. ASSUME status[t] = "ASSIGNED"
        PROVE  captainId'[t] = c /\ HeldFrom(t, IF p = "open" THEN 1 ELSE 0)'
    <3>1. captainId[t] = c /\ hold[t][c] = 0 /\ \A v \in Workers : ~Releases(v, t)
      BY <2>1, <2>3, <2>4, <2>9 DEF AssignmentOK, HeldFrom
    <3> QED
      BY <2>2, <2>6, <2>8, <3>1 DEF HeldFrom
  <2>10. AssignmentOK(w, t)'
    <3>1. status'[t] \in {"CREATED", "ASSIGNED", "EXPIRED"}
      BY <2>2, <2>4 DEF AssignmentOK
    <3> QED
      BY <2>2, <2>7, <2>9, <3>1 DEF AssignmentOK
  <2>11. \A v \in Workers : Assigns(v, t)' => v = w
    BY <2>4, <2>7 DEF Assigns
  <2>12. CarriedOf(t)'
    BY <2>2, <2>4, <2>10, <2>11 DEF CarriedInv, CarriedOf, AssignmentOK, PaidStates
  <2>13. \A u \in Payments \ {t} : RowStays(u)
    BY <2>2, <2>6 DEF RowStays
  <2> QED
    BY <2>7, <2>12, <2>13, OtherJobsStay, CarriedElsewhere
<1>22. ASSUME NEW w \in Workers, PutBack(w)
      PROVE  CarriedInv'
  <2>1. PICK t \in Payments, c \in Captains : t = jobs[w].t /\ c = jobs[w].c
    BY <1>22 DEF PutBack, At, TypeInv, JobsOK, JobOK, UnheldPcs
  <2>2. /\ jobs'[w].pc = "idle" /\ \A v \in Workers \ {w} : jobs'[v] = jobs[v]
        /\ hold' = hold
    BY <1>22 DEF PutBack, Finish, Idle, TypeInv, JobsOK, historyVars
  <2>3. /\ status[t] = "ASSIGNED" => status'[t] = "CREATED"
        /\ status[t] # "ASSIGNED" => RowStays(t)
        /\ \A u \in Payments \ {t} : RowStays(u)
    BY <1>22, <2>1 DEF PutBack, HandBack, RowStays, TypeInv, RowsOK, rowVars, rowButStatus, historyVars
  <2>4. \A u \in Payments, v \in Workers : JobStays(v, u)
    BY <2>2, JobsStay DEF AssigningPcs, UnheldPcs
  <2>5. CASE status[t] # "ASSIGNED"
    BY <2>3, <2>4, <2>5, CarriedEverywhere
  <2>6. CASE status[t] = "ASSIGNED"
    <3>1. \A v \in Workers : ~(Assigns(v, t)')
      <4>1. Assigns(w, t)
        BY <1>22, <2>1 DEF PutBack, At, Assigns, AssigningPcs, UnheldPcs
      <4> QED
        BY <2>2, <4>1 DEF CarriedInv, CarriedOf, Assigns, AssigningPcs, UnheldPcs
    <3>2. CarriedOf(t)'
      BY <2>3, <2>6, <3>1 DEF CarriedOf, PaidStates, TRANSACTION_HELD_STATES
    <3> QED
      BY <2>3, <2>4, <3>2, CarriedElsewhere
  <2> QED
    BY <2>5, <2>6
<1>23. ASSUME NEW w \in Workers, Open(w)
      PROVE  CarriedInv'
  <2>1. PICK t \in Payments : t = jobs[w].t
    BY <1>23 DEF Open, At, TypeInv, JobsOK, JobOK
  <2>2. /\ jobs'[w].pc = "idle" /\ \A v \in Workers \ {w} : jobs'[v] = jobs[v]
        /\ hold' = hold /\ captainId' = captainId
    BY <1>23 DEF Open, Finish, Idle, TypeInv, JobsOK, historyVars, rowButStatus
  <2>3. /\ status[t] = "ASSIGNED" => status'[t] = "AWAITING_CUSTOMER"
        /\ status[t] # "ASSIGNED" => RowStays(t)
        /\ \A u \in Payments \ {t} : RowStays(u)
    BY <1>23, <2>1, <2>2 DEF Open, RowStays, TypeInv, RowsOK
  <2>4. \A u \in Payments, v \in Workers : JobStays(v, u)
    BY <2>2, JobsStay DEF AssigningPcs, UnheldPcs
  <2>5. CASE status[t] # "ASSIGNED"
    BY <2>3, <2>4, <2>5, CarriedEverywhere
  <2>6. CASE status[t] = "ASSIGNED"
    <3>1. Assigns(w, t) /\ jobs[w].pc = "open"
      BY <1>23, <2>1 DEF Open, At, Assigns, AssigningPcs
    <3>2. HeldFrom(t, 1) /\ \A v \in Workers : Assigns(v, t) => v = w
      BY <2>6, <3>1 DEF CarriedInv, CarriedOf, AssignmentOK
    <3>3. HeldFrom(t, 1)' /\ \A v \in Workers : ~(Assigns(v, t)')
      BY <2>2, <3>2 DEF HeldFrom, Releases, Assigns, AssigningPcs, UnheldPcs
    <3>4. captainId'[t] \in Captains
      BY <2>2, <3>2 DEF HeldFrom
    <3>5. CarriedOf(t)'
      BY <2>3, <2>6, <3>3, <3>4 DEF CarriedOf
    <3> QED
      BY <2>3, <2>4, <3>5, CarriedElsewhere
  <2> QED
    BY <2>5, <2>6
<1>24. ASSUME NEW t \in Payments, NEW c \in Captains, DeclineInTransaction(t, c)
      PROVE  CarriedInv'
  <2>1. /\ status[t] = "ASSIGNED" /\ status'[t] = "CREATED" /\ jobs' = jobs
        /\ \A u \in Payments \ {t} : RowStays(u)
    BY <1>24 DEF DeclineInTransaction, Declined, HandBack, GiveBack, RowStays, TypeInv, RowsOK, HistoryOK
  <2>2. \A u \in Payments, v \in Workers : JobStays(v, u)
    BY <2>1 DEF JobStays, Assigns, Releases
  <2>3. CarriedOf(t)'
    BY <2>1, HandedBack DEF CarriedInv, Assigns, Releases
  <2> QED
    BY <2>1, <2>2, <2>3, CarriedElsewhere
<1>25. ASSUME NEW w \in Workers, NEW t \in Payments, NEW c \in Captains, Decline(w, t, c)
      PROVE  CarriedInv'
  <2>1. /\ status[t] = "ASSIGNED" /\ status'[t] = "CREATED"
        /\ \A u \in Payments \ {t} : RowStays(u)
    BY <1>25 DEF Decline, Declined, HandBack, RowStays, TypeInv, RowsOK, historyVars
  <2>2. /\ jobs'[w].pc = "release" /\ jobs'[w].t = t
        /\ \A v \in Workers \ {w} : jobs'[v] = jobs[v]
    BY <1>25 DEF Decline, At, TypeInv, JobsOK, Job
  <2>3. \A v \in Workers : Assigns(v, t)' => Assigns(v, t) /\ jobs'[v] = jobs[v]
    BY <2>2 DEF Assigns, AssigningPcs, UnheldPcs
  <2>4. CarriedOf(t)'
    BY <2>1, <2>3, HandedBack DEF CarriedInv
  <2> QED
    BY <2>1, <2>2, <2>4, OtherJobsStay, CarriedElsewhere
<1>26. ASSUME NEW w \in Workers, Release(w)
      PROVE  CarriedInv'
  <2>1. PICK t \in Payments, c \in Captains : t = jobs[w].t /\ c = jobs[w].c
    BY <1>26 DEF Release, At, TypeInv, JobsOK, JobOK, UnheldPcs
  <2>2. /\ jobs'[w].pc = "idle" /\ \A v \in Workers \ {w} : jobs'[v] = jobs[v]
        /\ status' = status /\ captainId' = captainId
    BY <1>26 DEF Release, Finish, Idle, TypeInv, JobsOK, rowVars, rowButStatus
  <2>3. \A u \in Payments \ {t} : RowStays(u)
    BY <1>26, <2>1, <2>2 DEF Release, GiveBack, RowStays, TypeInv, HistoryOK
  <2>4. \A u \in Payments, v \in Workers : JobStays(v, u)
    BY <2>2, JobsStay DEF AssigningPcs, UnheldPcs
  <2>5. Releases(w, t)
    BY <1>26, <2>1 DEF Release, At, Releases
  <2>6. /\ status[t] # "ABSENT" /\ status[t] \notin PaidStates
        /\ \A v \in Workers : Assigns(v, t) =>
             jobs[v].pc \notin {"route", "assign"} /\ status[t] # "ASSIGNED"
    BY <2>5 DEF CarriedInv, CarriedOf, Untouched, HeldFrom, AssignmentOK
  <2>7. \A v \in Workers : Assigns(v, t)' => AssignmentOK(v, t)'
    <3> SUFFICES ASSUME NEW v \in Workers, Assigns(v, t)'
                 PROVE  AssignmentOK(v, t)'
      OBVIOUS
    <3>1. Assigns(v, t) /\ jobs'[v].pc = jobs[v].pc
      BY <2>4 DEF JobStays
    <3>2. AssignmentOK(v, t)
      BY <3>1 DEF CarriedInv, CarriedOf
    <3> QED
      BY <2>2, <2>6, <3>1, <3>2 DEF AssignmentOK
  <2>8. \A v, x \in Workers : Assigns(v, t)' /\ Assigns(x, t)' => v = x
    BY <2>4 DEF JobStays, CarriedInv, CarriedOf
  <2>9. CarriedOf(t)'
    BY <2>2, <2>6, <2>7, <2>8 DEF CarriedInv, CarriedOf
  <2> QED
    BY <2>3, <2>4, <2>9, CarriedElsewhere
<1>27. ASSUME NEW w \in Workers, NEW t \in Payments, Webhook(w, t)
      PROVE  CarriedInv'
  <2>1. jobs[w] \in Job
    BY <1>27 DEF Webhook, At, TypeInv, JobsOK, JobOK
  <2>2. /\ status[t] \in PaidStates /\ status'[t] \in PaidStates
        /\ captainId' = captainId /\ hold' = hold
        /\ \A u \in Payments \ {t} : RowStays(u)
    BY <1>27, <2>1
    DEF Webhook, PaidStates, RowStays, TypeInv, RowsOK, JobsOK, JobOK, At,
        rowVars, rowButStatus, moneyVars, historyVars
  <2>3. \A u \in Payments, v \in Workers : JobStays(v, u)
    <3>1. /\ \A v \in Workers \ {w} : jobs'[v] = jobs[v]
          /\ jobs'[w].pc \notin AssigningPcs \cup {"release"}
      BY <1>27
      DEF Webhook, TypeInv, JobsOK, Job, Begin, Goto, Finish, Idle,
          AssigningPcs, UnheldPcs
    <3> QED
      BY <3>1, JobsStay
  <2>4. CarriedOf(t)'
    BY <2>2, <2>3, PaidStays DEF CarriedInv
  <2> QED
    BY <2>2, <2>3, <2>4, CarriedElsewhere
<1>28. ASSUME NEW w \in Workers, SettleInTransaction(w)
      PROVE  CarriedInv'
  <2>1. PICK t \in Payments : t = jobs[w].t
    BY <1>28 DEF SettleInTransaction, MarkSettled, At, TypeInv, JobsOK, JobOK
  <2>2. /\ status[t] \in PaidStates /\ status'[t] \in PaidStates
        /\ captainId' = captainId /\ hold' = hold
        /\ \A u \in Payments \ {t} : RowStays(u)
    BY <1>28, <2>1
    DEF SettleInTransaction, MarkSettled, PaidStates, RowStays, TypeInv,
        RowsOK, JobsOK, JobOK, At, rowVars, rowButStatus, moneyVars,
        historyVars
  <2>3. \A u \in Payments, v \in Workers : JobStays(v, u)
    <3>1. /\ \A v \in Workers \ {w} : jobs'[v] = jobs[v]
          /\ jobs'[w].pc \notin AssigningPcs \cup {"release"}
      BY <1>28
      DEF SettleInTransaction, MarkSettled, TypeInv, JobsOK, Job, Begin, Goto,
          Finish, Idle, AssigningPcs, UnheldPcs
    <3> QED
      BY <3>1, JobsStay
  <2>4. CarriedOf(t)'
    BY <2>2, <2>3, PaidStays DEF CarriedInv
  <2> QED
    BY <2>2, <2>3, <2>4, CarriedElsewhere
<1>29. ASSUME NEW w \in Workers, SettleClaim(w)
      PROVE  CarriedInv'
  <2>1. PICK t \in Payments : t = jobs[w].t
    BY <1>29 DEF SettleClaim, MarkSettled, At, TypeInv, JobsOK, JobOK
  <2>2. /\ status[t] \in PaidStates /\ status'[t] \in PaidStates
        /\ captainId' = captainId /\ hold' = hold
        /\ \A u \in Payments \ {t} : RowStays(u)
    BY <1>29, <2>1
    DEF SettleClaim, MarkSettled, PaidStates, RowStays, TypeInv, RowsOK,
        JobsOK, JobOK, At, rowVars, rowButStatus, moneyVars, historyVars
  <2>3. \A u \in Payments, v \in Workers : JobStays(v, u)
    <3>1. /\ \A v \in Workers \ {w} : jobs'[v] = jobs[v]
          /\ jobs'[w].pc \notin AssigningPcs \cup {"release"}
      BY <1>29
      DEF SettleClaim, MarkSettled, TypeInv, JobsOK, Job, Begin, Goto, Finish,
          Idle, AssigningPcs, UnheldPcs
    <3> QED
      BY <3>1, JobsStay
  <2>4. CarriedOf(t)'
    BY <2>2, <2>3, PaidStays DEF CarriedInv
  <2> QED
    BY <2>2, <2>3, <2>4, CarriedElsewhere
<1>30. ASSUME NEW t \in Payments, Dispute(t)
      PROVE  CarriedInv'
  <2>1. jobs' = jobs
    BY <1>30 DEF Dispute, At, TypeInv, JobsOK, JobOK
  <2>2. /\ status[t] \in PaidStates /\ status'[t] \in PaidStates
        /\ captainId' = captainId /\ hold' = hold
        /\ \A u \in Payments \ {t} : RowStays(u)
    BY <1>30, <2>1
    DEF Dispute, PaidStates, RowStays, TypeInv, RowsOK, JobsOK, JobOK, At,
        CanTransition, TRANSACTION_TRANSITIONS, TRANSACTION_STATES, rowVars,
        rowButStatus, moneyVars, historyVars
  <2>3. \A u \in Payments, v \in Workers : JobStays(v, u)
    BY <2>1 DEF JobStays, Assigns, Releases
  <2>4. CarriedOf(t)'
    BY <2>2, <2>3, PaidStays DEF CarriedInv
  <2> QED
    BY <2>2, <2>3, <2>4, CarriedElsewhere
<1>31. ASSUME NEW w \in Workers, ExpireInTransaction(w)
      PROVE  CarriedInv'
  <2>1. PICK t \in Payments : t = jobs[w].t
    BY <1>31 DEF ExpireInTransaction, MarkExpired, At, TypeInv, JobsOK, JobOK
  <2>2. /\ status[t] = jobs[w].from /\ status'[t] = "EXPIRED" /\ captainId' = captainId
        /\ \A u \in Payments \ {t} : status'[u] = status[u]
    BY <1>31, <2>1 DEF ExpireInTransaction, MarkExpired, TypeInv, RowsOK, rowButStatus
  <2>3. ~Assigns(w, t)
    BY <1>31 DEF ExpireInTransaction, MarkExpired, At, Assigns, AssigningPcs, UnheldPcs
  <2>4. jobs'[w].pc = "idle" /\ \A v \in Workers \ {w} : jobs'[v] = jobs[v]
    BY <1>31 DEF ExpireInTransaction, Finish, Idle, TypeInv, JobsOK
  <2>5. /\ \A u \in Payments \ {t} : hold'[u] = hold[u]
        /\ ~WasHeld(w) => hold' = hold
    BY <1>31, <2>1 DEF ExpireInTransaction, GiveBack, TypeInv, HistoryOK
  <2>6. \A u \in Payments, v \in Workers : JobStays(v, u)
    BY <2>4, JobsStay DEF AssigningPcs, UnheldPcs
  <2>7. CarriedOf(t)'
    <3>1. \A v \in Workers : Assigns(v, t)' => Assigns(v, t) /\ jobs'[v] = jobs[v]
      BY <2>4 DEF Assigns, AssigningPcs, UnheldPcs
    <3>2. status[t] = "CREATED" \/ status[t] \in TRANSACTION_HELD_STATES
      BY <1>31, <2>1, <2>2 DEF ExpireInTransaction, MarkExpired, At, TypeInv, JobsOK, JobOK,
                            TRANSACTION_HELD_STATES
    <3>3. ~WasHeld(w) => status[t] = "CREATED"
      BY <2>1, <2>2, <3>2 DEF WasHeld, CarriedInv, CarriedOf
    <3>4. ~WasHeld(w) => hold'[t] = hold[t] /\ \A v \in Workers : Releases(v, t)' => Releases(v, t)
      BY <2>5, <2>6 DEF JobStays
    <3>5. status[t] = "CREATED" => ~WasHeld(w)
      BY <2>1, <2>2 DEF WasHeld, TRANSACTION_HELD_STATES
    <3> QED
      BY <2>2, <3>1, <3>2, <3>3, <3>4, <3>5, ExpiredStays DEF CarriedInv
  <2>8. \A u \in Payments \ {t} : RowStays(u)
    BY <2>2, <2>5 DEF RowStays
  <2> QED
    BY <2>6, <2>7, <2>8, CarriedElsewhere
<1>32. ASSUME NEW w \in Workers, ExpireClaim(w)
      PROVE  CarriedInv'
  <2>1. PICK t \in Payments : t = jobs[w].t
    BY <1>32 DEF ExpireClaim, MarkExpired, At, TypeInv, JobsOK, JobOK
  <2>2. /\ status[t] = jobs[w].from /\ status'[t] = "EXPIRED" /\ captainId' = captainId
        /\ \A u \in Payments \ {t} : status'[u] = status[u]
    BY <1>32, <2>1 DEF ExpireClaim, MarkExpired, TypeInv, RowsOK, rowButStatus
  <2>3. ~Assigns(w, t)
    BY <1>32 DEF ExpireClaim, MarkExpired, At, Assigns, AssigningPcs, UnheldPcs
  <2>4. /\ \A v \in Workers \ {w} : jobs'[v] = jobs[v]
        /\ jobs'[w].pc \in {"idle", "release"}
        /\ jobs'[w].pc = "release" => jobs'[w].t = t
        /\ ~WasHeld(w) => jobs'[w].pc = "idle"
    BY <1>32, <2>1 DEF ExpireClaim, Finish, Idle, TypeInv, JobsOK, Job
  <2>5. hold' = hold
    BY <1>32 DEF ExpireClaim, historyVars
  <2>6. /\ \A u \in Payments \ {t}, v \in Workers : JobStays(v, u)
        /\ \A v \in Workers \ {w} : JobStays(v, t)
    BY <2>4, OtherJobsStay
  <2>7. CarriedOf(t)'
    <3>1. \A v \in Workers : Assigns(v, t)' => Assigns(v, t) /\ jobs'[v] = jobs[v]
      BY <2>4 DEF Assigns, AssigningPcs, UnheldPcs
    <3>2. status[t] = "CREATED" \/ status[t] \in TRANSACTION_HELD_STATES
      BY <1>32, <2>1, <2>2 DEF ExpireClaim, MarkExpired, At, TypeInv, JobsOK, JobOK,
                            TRANSACTION_HELD_STATES
    <3>3. ~WasHeld(w) => status[t] = "CREATED"
      BY <2>1, <2>2, <3>2 DEF WasHeld, CarriedInv, CarriedOf
    <3>4. ~WasHeld(w) => hold'[t] = hold[t] /\ \A v \in Workers : Releases(v, t)' => Releases(v, t)
      BY <2>4, <2>5 DEF Releases
    <3>5. status[t] = "CREATED" => ~WasHeld(w)
      BY <2>1, <2>2 DEF WasHeld, TRANSACTION_HELD_STATES
    <3> QED
      BY <2>2, <3>1, <3>2, <3>3, <3>4, <3>5, ExpiredStays DEF CarriedInv
  <2>8. \A u \in Payments \ {t} : RowStays(u)
    BY <2>2, <2>5 DEF RowStays
  <2> QED
    BY <2>6, <2>7, <2>8, CarriedElsewhere
<1>33. ASSUME NEW w \in Workers, SettleCreditFails(w)
      PROVE  CarriedInv'
  <2>1. \A u \in Payments : RowStays(u)
    BY <1>33
    DEF RowStays, SettleCreditFails, rowVars, rowButStatus, moneyVars, historyVars
  <2>2. /\ \A v \in Workers \ {w} : jobs'[v] = jobs[v]
        /\ jobs'[w].pc \notin AssigningPcs \cup {"release"}
    BY <1>33
    DEF TypeInv, JobsOK, Job, SettleCreditFails, At, Begin, Goto, Finish, Idle,
        AssigningPcs, UnheldPcs
  <2> QED
    BY <2>1, <2>2, JobsStay, CarriedEverywhere
<1>34. ASSUME NEW w \in Workers, SettleEntryFails(w)
      PROVE  CarriedInv'
  <2>1. \A u \in Payments : RowStays(u)
    BY <1>34
    DEF RowStays, SettleEntryFails, rowVars, rowButStatus, moneyVars, historyVars
  <2>2. /\ \A v \in Workers \ {w} : jobs'[v] = jobs[v]
        /\ jobs'[w].pc \notin AssigningPcs \cup {"release"}
    BY <1>34
    DEF TypeInv, JobsOK, Job, SettleEntryFails, At, Begin, Goto, Finish, Idle,
        AssigningPcs, UnheldPcs
  <2> QED
    BY <2>1, <2>2, JobsStay, CarriedEverywhere
<1>35. ASSUME NEW w \in Workers, SettleCollectBack(w)
      PROVE  CarriedInv'
  <2>1. \A u \in Payments : RowStays(u)
    BY <1>35
    DEF RowStays, SettleCollectBack, rowVars, rowButStatus, moneyVars, historyVars
  <2>2. /\ \A v \in Workers \ {w} : jobs'[v] = jobs[v]
        /\ jobs'[w].pc \notin AssigningPcs \cup {"release"}
    BY <1>35
    DEF TypeInv, JobsOK, Job, SettleCollectBack, At, Begin, Goto, Finish, Idle,
        AssigningPcs, UnheldPcs
  <2> QED
    BY <2>1, <2>2, JobsStay, CarriedEverywhere
<1>36. ASSUME NEW w \in Workers, SettleFlag(w)
      PROVE  CarriedInv'
  <2>1. \A u \in Payments : RowStays(u)
    BY <1>36
    DEF RowStays, SettleFlag, rowVars, rowButStatus, moneyVars, historyVars
  <2>2. /\ \A v \in Workers \ {w} : jobs'[v] = jobs[v]
        /\ jobs'[w].pc \notin AssigningPcs \cup {"release"}
    BY <1>36
    DEF TypeInv, JobsOK, Job, SettleFlag, At, Begin, Goto, Finish, Idle,
        AssigningPcs, UnheldPcs
  <2> QED
    BY <2>1, <2>2, JobsStay, CarriedEverywhere
<1>37. ASSUME NEW w \in Workers, SettleAborts(w)
      PROVE  CarriedInv'
  <2>1. \A u \in Payments : RowStays(u)
    BY <1>37
    DEF RowStays, SettleAborts, rowVars, rowButStatus, moneyVars, historyVars
  <2>2. /\ \A v \in Workers \ {w} : jobs'[v] = jobs[v]
        /\ jobs'[w].pc \notin AssigningPcs \cup {"release"}
    BY <1>37
    DEF TypeInv, JobsOK, Job, SettleAborts, At, Begin, Goto, Finish, Idle,
        AssigningPcs, UnheldPcs
  <2> QED
    BY <2>1, <2>2, JobsStay, CarriedEverywhere
<1>38. ASSUME NEW amount \in Withdrawals, DebitPool(amount)
      PROVE  CarriedInv'
  BY <1>38, CarriedEverywhere
  DEF RowStays, JobStays, Assigns, Releases, DebitPool, rowVars,
      rowButStatus, moneyVars, historyVars
<1>39. ASSUME NEW amount \in Fundings, FundPool(amount)
      PROVE  CarriedInv'
  BY <1>39, CarriedEverywhere
  DEF RowStays, JobStays, Assigns, Releases, FundPool, rowVars,
      rowButStatus, moneyVars, historyVars
<1> QED
  BY <1>1, <1>2, <1>3, <1>4, <1>5, <1>6, <1>7, <1>8, <1>9, <1>10, <1>11,
     <1>12, <1>13, <1>14, <1>15, <1>16, <1>17, <1>18, <1>19, <1>20, <1>21,
     <1>22, <1>23, <1>24, <1>25, <1>26, <1>27, <1>28, <1>29, <1>30, <1>31,
     <1>32, <1>33, <1>34, <1>35, <1>36, <1>37, <1>38, <1>39
  DEF Next, Request, Decision, JobStep, Workers

LEMMA CarriedInvariant == Spec => []CarriedInv
<1>1. Init => CarriedInv
  BY CarriedInit
<1>2. TypeInv /\ CarriedInv /\ [Next]_vars => CarriedInv'
  BY CarriedStep
<1> QED
  BY <1>1, <1>2, TypeInvariant, PTL DEF Spec

-----------------------------------------------------------------------------
(* The credit of a party *)

SettlingPcs == {"credit", "collect", "payShare", "creditShare", "flag", "collectBack"}

Settles(w, t) == jobs[w].t = t /\ jobs[w].pc \in SettlingPcs

\* One job, and only on a server without transactions, pays out a settled
\* pay-in, and credits the party first.
PayoutOfOK(t) ==
  /\ credited[t] <= 1
  /\ credited[t] = 1 => status[t] = "SETTLED"
  /\ \A w \in Workers :
       Settles(w, t) =>
         /\ ~UseTransactions /\ status[t] = "SETTLED"
         /\ jobs[w].pc = "credit" => credited[t] = 0
  /\ \A v, w \in Workers : Settles(v, t) /\ Settles(w, t) => v = w

SettledInv == \A t \in Payments : PayoutOfOK(t)

LEMMA SettledInit == Init => SettledInv
<1> SUFFICES ASSUME Init, NEW t \in Payments
             PROVE  PayoutOfOK(t)
  BY DEF SettledInv
<1>1. credited[t] = 0
  BY DEF Init
<1>2. \A w \in Workers : ~Settles(w, t)
  BY DEF Init, Idle, Settles, SettlingPcs
<1> QED
  BY <1>1, <1>2 DEF PayoutOfOK

\* What the job of w does for t goes on, with the credit, if it was due, made,
\* or the job turns to something else.
SettlementGoesOn(w, t) ==
  Settles(w, t)' => Settles(w, t) /\ (jobs'[w].pc = "credit" => jobs[w].pc = "credit")

LEMMA PayoutStays ==
  ASSUME NEW t \in Payments, PayoutOfOK(t), EndStays, credited'[t] = credited[t],
         \A w \in Workers : SettlementGoesOn(w, t)
  PROVE  PayoutOfOK(t)'
BY DEF PayoutOfOK, EndStays, TRANSACTION_TERMINAL_STATES, SettlementGoesOn

LEMMA PayoutsStay ==
  ASSUME SettledInv, EndStays, credited' = credited,
         \A t \in Payments, w \in Workers : SettlementGoesOn(w, t)
  PROVE  SettledInv'
BY PayoutStays DEF SettledInv

\* The other jobs go on, and that of w settles nothing new.
LEMMA OthersSettle ==
  ASSUME NEW w \in Workers, \A v \in Workers \ {w} : jobs'[v] = jobs[v],
         \/ jobs'[w].pc \notin SettlingPcs
         \/ /\ jobs'[w].t = jobs[w].t /\ jobs[w].pc \in SettlingPcs
            /\ jobs'[w].pc # "credit"
  PROVE  \A t \in Payments, v \in Workers : SettlementGoesOn(v, t)
BY DEF SettlementGoesOn, Settles

LEMMA SettledStep ==
  ASSUME TypeInv, SettledInv, EndStays, [Next]_vars
  PROVE  SettledInv'
<1>1. ASSUME NEW w \in Workers, NEW t \in Payments, Create(w, t)
      PROVE  SettledInv'
  <2>1. credited' = credited
    BY <1>1 DEF Create, historyVars
  <2>2. \A v \in Workers \ {w} : jobs'[v] = jobs[v]
    BY <1>1 DEF TypeInv, JobsOK, Create, Begin, Goto, Finish
  <2>3. jobs'[w].pc \notin SettlingPcs
    BY <1>1
    DEF TypeInv, JobsOK, Job, Create, At, Begin, Goto, Finish, Idle,
        SettlingPcs
  <2> QED
    BY <2>1, <2>2, <2>3, OthersSettle, PayoutsStay
<1>2. ASSUME NEW w \in Workers, NEW c \in Captains, Route(w, c)
      PROVE  SettledInv'
  <2>1. credited' = credited
    BY <1>2 DEF Route, Eligible, historyVars
  <2>2. \A v \in Workers \ {w} : jobs'[v] = jobs[v]
    BY <1>2 DEF TypeInv, JobsOK, Route, Eligible, Begin, Goto, Finish
  <2>3. jobs'[w].pc \notin SettlingPcs
    BY <1>2
    DEF TypeInv, JobsOK, Job, Route, Eligible, At, Begin, Goto, Finish, Idle,
        SettlingPcs
  <2> QED
    BY <2>1, <2>2, <2>3, OthersSettle, PayoutsStay
<1>3. ASSUME NEW w \in Workers, NotRouted(w)
      PROVE  SettledInv'
  <2>1. credited' = credited
    BY <1>3 DEF NotRouted, historyVars
  <2>2. \A v \in Workers \ {w} : jobs'[v] = jobs[v]
    BY <1>3 DEF TypeInv, JobsOK, NotRouted, Begin, Goto, Finish
  <2>3. jobs'[w].pc \notin SettlingPcs
    BY <1>3
    DEF TypeInv, JobsOK, Job, NotRouted, At, Begin, Goto, Finish, Idle,
        SettlingPcs
  <2> QED
    BY <2>1, <2>2, <2>3, OthersSettle, PayoutsStay
<1>4. ASSUME NEW w \in Workers, AssignInTransaction(w)
      PROVE  SettledInv'
  <2>1. credited' = credited
    BY <1>4
    DEF AssignInTransaction, AssignTo, TakeHold, RepricedShare,
        WithinCurrentLimit, historyVars
  <2>2. \A v \in Workers \ {w} : jobs'[v] = jobs[v]
    BY <1>4
    DEF TypeInv, JobsOK, AssignInTransaction, AssignTo, TakeHold,
        RepricedShare, WithinCurrentLimit, Begin, Goto, Finish
  <2>3. jobs'[w].pc \notin SettlingPcs
    BY <1>4
    DEF TypeInv, JobsOK, Job, AssignInTransaction, AssignTo, TakeHold,
        RepricedShare, WithinCurrentLimit, At, Begin, Goto, Finish, Idle,
        SettlingPcs
  <2> QED
    BY <2>1, <2>2, <2>3, OthersSettle, PayoutsStay
<1>5. ASSUME NEW w \in Workers, AssignClaim(w)
      PROVE  SettledInv'
  <2>1. credited' = credited
    BY <1>5 DEF AssignClaim, AssignTo, RepricedShare, historyVars
  <2>2. \A v \in Workers \ {w} : jobs'[v] = jobs[v]
    BY <1>5
    DEF TypeInv, JobsOK, AssignClaim, AssignTo, RepricedShare, Begin, Goto,
        Finish
  <2>3. jobs'[w].pc \notin SettlingPcs
    BY <1>5
    DEF TypeInv, JobsOK, Job, AssignClaim, AssignTo, RepricedShare, At, Begin,
        Goto, Finish, Idle, SettlingPcs
  <2> QED
    BY <2>1, <2>2, <2>3, OthersSettle, PayoutsStay
<1>6. ASSUME NEW w \in Workers, AssignHold(w)
      PROVE  SettledInv'
  <2>1. credited' = credited
    BY <1>6 DEF AssignHold, TakeHold, WithinCurrentLimit, historyVars
  <2>2. \A v \in Workers \ {w} : jobs'[v] = jobs[v]
    BY <1>6
    DEF TypeInv, JobsOK, AssignHold, TakeHold, WithinCurrentLimit, Begin,
        Goto, Finish
  <2>3. jobs'[w].pc \notin SettlingPcs
    BY <1>6
    DEF TypeInv, JobsOK, Job, AssignHold, TakeHold, WithinCurrentLimit, At,
        Begin, Goto, Finish, Idle, SettlingPcs
  <2> QED
    BY <2>1, <2>2, <2>3, OthersSettle, PayoutsStay
<1>7. ASSUME NEW w \in Workers, AssignLost(w)
      PROVE  SettledInv'
  <2>1. credited' = credited
    BY <1>7 DEF AssignLost, historyVars
  <2>2. \A v \in Workers \ {w} : jobs'[v] = jobs[v]
    BY <1>7 DEF TypeInv, JobsOK, AssignLost, Begin, Goto, Finish
  <2>3. jobs'[w].pc \notin SettlingPcs
    BY <1>7
    DEF TypeInv, JobsOK, Job, AssignLost, At, Begin, Goto, Finish, Idle,
        SettlingPcs
  <2> QED
    BY <2>1, <2>2, <2>3, OthersSettle, PayoutsStay
<1>8. ASSUME NEW w \in Workers, PutBack(w)
      PROVE  SettledInv'
  <2>1. credited' = credited
    BY <1>8 DEF PutBack, HandBack, historyVars
  <2>2. \A v \in Workers \ {w} : jobs'[v] = jobs[v]
    BY <1>8 DEF TypeInv, JobsOK, PutBack, HandBack, Begin, Goto, Finish
  <2>3. jobs'[w].pc \notin SettlingPcs
    BY <1>8
    DEF TypeInv, JobsOK, Job, PutBack, HandBack, At, Begin, Goto, Finish,
        Idle, SettlingPcs
  <2> QED
    BY <2>1, <2>2, <2>3, OthersSettle, PayoutsStay
<1>9. ASSUME NEW w \in Workers, Open(w)
      PROVE  SettledInv'
  <2>1. credited' = credited
    BY <1>9 DEF Open, historyVars
  <2>2. \A v \in Workers \ {w} : jobs'[v] = jobs[v]
    BY <1>9 DEF TypeInv, JobsOK, Open, Begin, Goto, Finish
  <2>3. jobs'[w].pc \notin SettlingPcs
    BY <1>9
    DEF TypeInv, JobsOK, Job, Open, At, Begin, Goto, Finish, Idle, SettlingPcs
  <2> QED
    BY <2>1, <2>2, <2>3, OthersSettle, PayoutsStay
<1>10. ASSUME NEW w \in Workers, NEW t \in Payments, NEW c \in Captains, Decline(w, t, c)
      PROVE  SettledInv'
  <2>1. credited' = credited
    BY <1>10 DEF Decline, Declined, HandBack, historyVars
  <2>2. \A v \in Workers \ {w} : jobs'[v] = jobs[v]
    BY <1>10
    DEF TypeInv, JobsOK, Decline, Declined, HandBack, Begin, Goto, Finish
  <2>3. jobs'[w].pc \notin SettlingPcs
    BY <1>10
    DEF TypeInv, JobsOK, Job, Decline, Declined, HandBack, At, Begin, Goto,
        Finish, Idle, SettlingPcs
  <2> QED
    BY <2>1, <2>2, <2>3, OthersSettle, PayoutsStay
<1>11. ASSUME NEW w \in Workers, Release(w)
      PROVE  SettledInv'
  <2>1. credited' = credited
    BY <1>11 DEF Release, GiveBack, historyVars
  <2>2. \A v \in Workers \ {w} : jobs'[v] = jobs[v]
    BY <1>11 DEF TypeInv, JobsOK, Release, GiveBack, Begin, Goto, Finish
  <2>3. jobs'[w].pc \notin SettlingPcs
    BY <1>11
    DEF TypeInv, JobsOK, Job, Release, GiveBack, At, Begin, Goto, Finish,
        Idle, SettlingPcs
  <2> QED
    BY <2>1, <2>2, <2>3, OthersSettle, PayoutsStay
<1>12. ASSUME NEW w \in Workers, NEW t \in Payments, Webhook(w, t)
      PROVE  SettledInv'
  <2>1. credited' = credited
    BY <1>12 DEF Webhook, historyVars
  <2>2. \A v \in Workers \ {w} : jobs'[v] = jobs[v]
    BY <1>12 DEF TypeInv, JobsOK, Webhook, Begin, Goto, Finish
  <2>3. jobs'[w].pc \notin SettlingPcs
    BY <1>12
    DEF TypeInv, JobsOK, Job, Webhook, At, Begin, Goto, Finish, Idle,
        SettlingPcs
  <2> QED
    BY <2>1, <2>2, <2>3, OthersSettle, PayoutsStay
<1>13. ASSUME NEW w \in Workers, SettleRead(w)
      PROVE  SettledInv'
  <2>1. credited' = credited
    BY <1>13 DEF SettleRead, historyVars
  <2>2. \A v \in Workers \ {w} : jobs'[v] = jobs[v]
    BY <1>13 DEF TypeInv, JobsOK, SettleRead, Begin, Goto, Finish
  <2>3. jobs'[w].pc \notin SettlingPcs
    BY <1>13
    DEF TypeInv, JobsOK, Job, SettleRead, At, Begin, Goto, Finish, Idle,
        SettlingPcs
  <2> QED
    BY <2>1, <2>2, <2>3, OthersSettle, PayoutsStay
<1>14. ASSUME NEW w \in Workers, SettleLost(w)
      PROVE  SettledInv'
  <2>1. credited' = credited
    BY <1>14 DEF SettleLost, historyVars
  <2>2. \A v \in Workers \ {w} : jobs'[v] = jobs[v]
    BY <1>14 DEF TypeInv, JobsOK, SettleLost, Begin, Goto, Finish
  <2>3. jobs'[w].pc \notin SettlingPcs
    BY <1>14
    DEF TypeInv, JobsOK, Job, SettleLost, At, Begin, Goto, Finish, Idle,
        SettlingPcs
  <2> QED
    BY <2>1, <2>2, <2>3, OthersSettle, PayoutsStay
<1>15. ASSUME NEW w \in Workers, SettleCollect(w)
      PROVE  SettledInv'
  <2>1. credited' = credited
    BY <1>15 DEF SettleCollect, historyVars
  <2>2. \A v \in Workers \ {w} : jobs'[v] = jobs[v]
    BY <1>15 DEF TypeInv, JobsOK, SettleCollect, Begin, Goto, Finish
  <2>3. \/ jobs'[w].pc \notin SettlingPcs
        \/ /\ jobs'[w].t = jobs[w].t /\ jobs[w].pc \in SettlingPcs
           /\ jobs'[w].pc # "credit"
    BY <1>15
    DEF TypeInv, JobsOK, Job, SettleCollect, At, Begin, Goto, Finish, Idle,
        SettlingPcs
  <2> QED
    BY <2>1, <2>2, <2>3, OthersSettle, PayoutsStay
<1>16. ASSUME NEW w \in Workers, SettlePayShare(w)
      PROVE  SettledInv'
  <2>1. credited' = credited
    BY <1>16 DEF SettlePayShare, historyVars
  <2>2. \A v \in Workers \ {w} : jobs'[v] = jobs[v]
    BY <1>16 DEF TypeInv, JobsOK, SettlePayShare, Begin, Goto, Finish
  <2>3. \/ jobs'[w].pc \notin SettlingPcs
        \/ /\ jobs'[w].t = jobs[w].t /\ jobs[w].pc \in SettlingPcs
           /\ jobs'[w].pc # "credit"
    BY <1>16
    DEF TypeInv, JobsOK, Job, SettlePayShare, At, Begin, Goto, Finish, Idle,
        SettlingPcs
  <2> QED
    BY <2>1, <2>2, <2>3, OthersSettle, PayoutsStay
<1>17. ASSUME NEW w \in Workers, SettleCreditShare(w)
      PROVE  SettledInv'
  <2>1. credited' = credited
    BY <1>17 DEF SettleCreditShare, historyVars
  <2>2. \A v \in Workers \ {w} : jobs'[v] = jobs[v]
    BY <1>17 DEF TypeInv, JobsOK, SettleCreditShare, Begin, Goto, Finish
  <2>3. \/ jobs'[w].pc \notin SettlingPcs
        \/ /\ jobs'[w].t = jobs[w].t /\ jobs[w].pc \in SettlingPcs
           /\ jobs'[w].pc # "credit"
    BY <1>17
    DEF TypeInv, JobsOK, Job, SettleCreditShare, At, Begin, Goto, Finish, Idle,
        SettlingPcs
  <2> QED
    BY <2>1, <2>2, <2>3, OthersSettle, PayoutsStay
<1>18. ASSUME NEW w \in Workers, NEW t \in Payments, SweepList(w, t)
      PROVE  SettledInv'
  <2>1. credited' = credited
    BY <1>18 DEF SweepList, historyVars
  <2>2. \A v \in Workers \ {w} : jobs'[v] = jobs[v]
    BY <1>18 DEF TypeInv, JobsOK, SweepList, Begin, Goto, Finish
  <2>3. jobs'[w].pc \notin SettlingPcs
    BY <1>18
    DEF TypeInv, JobsOK, Job, SweepList, At, Begin, Goto, Finish, Idle,
        SettlingPcs
  <2> QED
    BY <2>1, <2>2, <2>3, OthersSettle, PayoutsStay
<1>19. ASSUME NEW w \in Workers, ExpireRead(w)
      PROVE  SettledInv'
  <2>1. credited' = credited
    BY <1>19 DEF ExpireRead, historyVars
  <2>2. \A v \in Workers \ {w} : jobs'[v] = jobs[v]
    BY <1>19 DEF TypeInv, JobsOK, ExpireRead, Begin, Goto, Finish
  <2>3. jobs'[w].pc \notin SettlingPcs
    BY <1>19
    DEF TypeInv, JobsOK, Job, ExpireRead, At, Begin, Goto, Finish, Idle,
        SettlingPcs
  <2> QED
    BY <2>1, <2>2, <2>3, OthersSettle, PayoutsStay
<1>20. ASSUME NEW w \in Workers, ExpireInTransaction(w)
      PROVE  SettledInv'
  <2>1. credited' = credited
    BY <1>20 DEF ExpireInTransaction, MarkExpired, WasHeld, GiveBack, historyVars
  <2>2. \A v \in Workers \ {w} : jobs'[v] = jobs[v]
    BY <1>20
    DEF TypeInv, JobsOK, ExpireInTransaction, MarkExpired, WasHeld, GiveBack,
        Begin, Goto, Finish
  <2>3. jobs'[w].pc \notin SettlingPcs
    BY <1>20
    DEF TypeInv, JobsOK, Job, ExpireInTransaction, MarkExpired, WasHeld,
        GiveBack, At, Begin, Goto, Finish, Idle, SettlingPcs
  <2> QED
    BY <2>1, <2>2, <2>3, OthersSettle, PayoutsStay
<1>21. ASSUME NEW w \in Workers, ExpireClaim(w)
      PROVE  SettledInv'
  <2>1. credited' = credited
    BY <1>21 DEF ExpireClaim, MarkExpired, WasHeld, historyVars
  <2>2. \A v \in Workers \ {w} : jobs'[v] = jobs[v]
    BY <1>21
    DEF TypeInv, JobsOK, ExpireClaim, MarkExpired, WasHeld, Begin, Goto,
        Finish
  <2>3. jobs'[w].pc \notin SettlingPcs
    BY <1>21
    DEF TypeInv, JobsOK, Job, ExpireClaim, MarkExpired, WasHeld, At, Begin,
        Goto, Finish, Idle, SettlingPcs
  <2> QED
    BY <2>1, <2>2, <2>3, OthersSettle, PayoutsStay
<1>22. ASSUME NEW w \in Workers, ExpireLost(w)
      PROVE  SettledInv'
  <2>1. credited' = credited
    BY <1>22 DEF ExpireLost, historyVars
  <2>2. \A v \in Workers \ {w} : jobs'[v] = jobs[v]
    BY <1>22 DEF TypeInv, JobsOK, ExpireLost, Begin, Goto, Finish
  <2>3. jobs'[w].pc \notin SettlingPcs
    BY <1>22
    DEF TypeInv, JobsOK, Job, ExpireLost, At, Begin, Goto, Finish, Idle,
        SettlingPcs
  <2> QED
    BY <2>1, <2>2, <2>3, OthersSettle, PayoutsStay
<1>23. ASSUME NEW w \in Workers, NEW t \in Payments, ResolveSettle(w, t)
      PROVE  SettledInv'
  <2>1. credited' = credited
    BY <1>23 DEF ResolveSettle, historyVars
  <2>2. \A v \in Workers \ {w} : jobs'[v] = jobs[v]
    BY <1>23 DEF TypeInv, JobsOK, ResolveSettle, Begin, Goto, Finish
  <2>3. jobs'[w].pc \notin SettlingPcs
    BY <1>23
    DEF TypeInv, JobsOK, Job, ResolveSettle, At, Begin, Goto, Finish, Idle,
        SettlingPcs
  <2> QED
    BY <2>1, <2>2, <2>3, OthersSettle, PayoutsStay
<1>24. ASSUME NEW w \in Workers, NEW t \in Payments, ResolveRelease(w, t)
      PROVE  SettledInv'
  <2>1. credited' = credited
    BY <1>24 DEF ResolveRelease, historyVars
  <2>2. \A v \in Workers \ {w} : jobs'[v] = jobs[v]
    BY <1>24 DEF TypeInv, JobsOK, ResolveRelease, Begin, Goto, Finish
  <2>3. jobs'[w].pc \notin SettlingPcs
    BY <1>24
    DEF TypeInv, JobsOK, Job, ResolveRelease, At, Begin, Goto, Finish, Idle,
        SettlingPcs
  <2> QED
    BY <2>1, <2>2, <2>3, OthersSettle, PayoutsStay
<1>25. ASSUME NEW t \in Payments, NEW c \in Captains, DeclineInTransaction(t, c)
      PROVE  SettledInv'
  BY <1>25, PayoutsStay
  DEF DeclineInTransaction, SettlementGoesOn, Settles, historyVars
<1>26. ASSUME NEW t \in Payments, Dispute(t)
      PROVE  SettledInv'
  BY <1>26, PayoutsStay DEF Dispute, SettlementGoesOn, Settles, historyVars
<1>27. ASSUME NEW t \in Payments, WindowCloses(t)
      PROVE  SettledInv'
  BY <1>27, PayoutsStay
  DEF WindowCloses, SettlementGoesOn, Settles, historyVars
<1>28. ASSUME Crash
      PROVE  SettledInv'
  BY <1>28, PayoutsStay
  DEF Crash, SettlementGoesOn, Settles, SettlingPcs, Idle, historyVars
<1>29. ASSUME UNCHANGED vars
      PROVE  SettledInv'
  BY <1>29, PayoutsStay DEF SettlementGoesOn, Settles, vars, historyVars
<1>30. ASSUME NEW w \in Workers, SettleInTransaction(w)
      PROVE  SettledInv'
  <2>1. PICK t \in Payments : t = jobs[w].t
    BY <1>30 DEF SettleInTransaction, MarkSettled, At, TypeInv, JobsOK, JobOK
  <2>2. status[t] \in {"CONFIRMED", "DISPUTED"} /\ status'[t] = "SETTLED"
    BY <1>30, <2>1 DEF SettleInTransaction, MarkSettled, At, TypeInv, JobsOK, JobOK, RowsOK
  <2>3. credited[t] = 0 /\ \A v \in Workers : ~Settles(v, t)
    <3>1. PICK n \in Nat : n = credited[t]
      BY DEF TypeInv, HistoryOK
    <3>2. n <= 1 /\ n # 1
      BY <2>2, <3>1 DEF SettledInv, PayoutOfOK
    <3>3. \A v \in Workers : ~Settles(v, t)
      BY <2>2 DEF SettledInv, PayoutOfOK
    <3> QED
      BY <3>1, <3>2, <3>3
  <2>4. credited'[t] = 1 /\ \A u \in Payments \ {t} : credited'[u] = credited[u]
    BY <1>30, <2>1, <2>3 DEF SettleInTransaction, TypeInv, HistoryOK
  <2>5. /\ jobs'[w].pc \notin SettlingPcs
        /\ \A v \in Workers \ {w} : jobs'[v] = jobs[v]
    BY <1>30 DEF SettleInTransaction, Finish, Idle, TypeInv, JobsOK, SettlingPcs
  <2>6. \A u \in Payments, v \in Workers : SettlementGoesOn(v, u)
    BY <2>5, OthersSettle
  <2>7. \A u \in Payments \ {t} : PayoutOfOK(u)'
    BY <2>4, <2>6, PayoutStays DEF SettledInv
  <2>8. PayoutOfOK(t)'
    BY <2>2, <2>3, <2>4, <2>6 DEF PayoutOfOK, SettlementGoesOn
  <2> QED
    BY <2>7, <2>8 DEF SettledInv
<1>31. ASSUME NEW w \in Workers, SettleClaim(w)
      PROVE  SettledInv'
  <2>1. PICK t \in Payments : t = jobs[w].t
    BY <1>31 DEF SettleClaim, MarkSettled, At, TypeInv, JobsOK, JobOK
  <2>2. status[t] \in {"CONFIRMED", "DISPUTED"} /\ status'[t] = "SETTLED"
    BY <1>31, <2>1 DEF SettleClaim, MarkSettled, At, TypeInv, JobsOK, JobOK, RowsOK
  <2>3. credited[t] = 0 /\ \A v \in Workers : ~Settles(v, t)
    <3>1. PICK n \in Nat : n = credited[t]
      BY DEF TypeInv, HistoryOK
    <3>2. n <= 1 /\ n # 1
      BY <2>2, <3>1 DEF SettledInv, PayoutOfOK
    <3>3. \A v \in Workers : ~Settles(v, t)
      BY <2>2 DEF SettledInv, PayoutOfOK
    <3> QED
      BY <3>1, <3>2, <3>3
  <2>4. credited' = credited /\ ~UseTransactions
    BY <1>31 DEF SettleClaim, historyVars
  <2>5. /\ jobs'[w].pc = "credit" /\ jobs'[w].t = t
        /\ \A v \in Workers \ {w} : jobs'[v] = jobs[v]
    BY <1>31, <2>1 DEF SettleClaim, Goto, TypeInv, JobsOK, Job
  <2>6. \A u \in Payments \ {t}, v \in Workers : SettlementGoesOn(v, u)
    BY <2>5 DEF SettlementGoesOn, Settles
  <2>7. \A u \in Payments \ {t} : PayoutOfOK(u)'
    BY <2>4, <2>6, PayoutStays DEF SettledInv
  <2>8. \A v \in Workers : Settles(v, t)' => v = w
    BY <2>3, <2>5 DEF Settles
  <2>9. PayoutOfOK(t)'
    BY <2>2, <2>3, <2>4, <2>8 DEF PayoutOfOK
  <2> QED
    BY <2>7, <2>9 DEF SettledInv
<1>32. ASSUME NEW w \in Workers, SettleCredit(w)
      PROVE  SettledInv'
  <2>1. PICK t \in Payments : t = jobs[w].t
    BY <1>32 DEF SettleCredit, At, TypeInv, JobsOK, JobOK
  <2>2. Settles(w, t) /\ jobs[w].pc = "credit"
    BY <1>32, <2>1 DEF SettleCredit, At, Settles, SettlingPcs
  <2>3. /\ credited[t] = 0 /\ status[t] = "SETTLED" /\ ~UseTransactions
        /\ \A v \in Workers : Settles(v, t) => v = w
    BY <2>2 DEF SettledInv, PayoutOfOK
  <2>4. /\ credited'[t] = 1 /\ \A u \in Payments \ {t} : credited'[u] = credited[u]
        /\ status'[t] = "SETTLED"
    BY <1>32, <2>1, <2>3 DEF SettleCredit, TypeInv, HistoryOK, rowVars
  <2>5. /\ jobs'[w].pc = "collect" /\ jobs'[w].t = t
        /\ \A v \in Workers \ {w} : jobs'[v] = jobs[v]
    BY <1>32, <2>1 DEF SettleCredit, Goto, TypeInv, JobsOK, Job
  <2>6. \A u \in Payments, v \in Workers : SettlementGoesOn(v, u)
    BY <2>1, <2>2, <2>5, OthersSettle DEF Settles
  <2>7. \A u \in Payments \ {t} : PayoutOfOK(u)'
    BY <2>4, <2>6, PayoutStays DEF SettledInv
  <2>8. \A v \in Workers : Settles(v, t)' => v = w /\ jobs'[v].pc # "credit"
    BY <2>3, <2>5, <2>6 DEF SettlementGoesOn
  <2>9. PayoutOfOK(t)'
    BY <2>3, <2>4, <2>8 DEF PayoutOfOK
  <2> QED
    BY <2>7, <2>9 DEF SettledInv
<1>33. ASSUME NEW w \in Workers, SettleCreditFails(w)
      PROVE  SettledInv'
  <2>1. credited' = credited
    BY <1>33 DEF SettleCreditFails, historyVars
  <2>2. \A v \in Workers \ {w} : jobs'[v] = jobs[v]
    BY <1>33 DEF TypeInv, JobsOK, SettleCreditFails, Begin, Goto, Finish
  <2>3. \/ jobs'[w].pc \notin SettlingPcs
        \/ /\ jobs'[w].t = jobs[w].t /\ jobs[w].pc \in SettlingPcs
           /\ jobs'[w].pc # "credit"
    BY <1>33
    DEF TypeInv, JobsOK, Job, SettleCreditFails, At, Begin, Goto, Finish, Idle,
        SettlingPcs
  <2> QED
    BY <2>1, <2>2, <2>3, OthersSettle, PayoutsStay
<1>34. ASSUME NEW w \in Workers, SettleEntryFails(w)
      PROVE  SettledInv'
  <2>1. credited' = credited
    BY <1>34 DEF SettleEntryFails, historyVars
  <2>2. \A v \in Workers \ {w} : jobs'[v] = jobs[v]
    BY <1>34 DEF TypeInv, JobsOK, SettleEntryFails, Begin, Goto, Finish
  <2>3. \/ jobs'[w].pc \notin SettlingPcs
        \/ /\ jobs'[w].t = jobs[w].t /\ jobs[w].pc \in SettlingPcs
           /\ jobs'[w].pc # "credit"
    BY <1>34
    DEF TypeInv, JobsOK, Job, SettleEntryFails, At, Begin, Goto, Finish, Idle,
        SettlingPcs
  <2> QED
    BY <2>1, <2>2, <2>3, OthersSettle, PayoutsStay
<1>35. ASSUME NEW w \in Workers, SettleCollectBack(w)
      PROVE  SettledInv'
  <2>1. credited' = credited
    BY <1>35 DEF SettleCollectBack, historyVars
  <2>2. \A v \in Workers \ {w} : jobs'[v] = jobs[v]
    BY <1>35 DEF TypeInv, JobsOK, SettleCollectBack, Begin, Goto, Finish
  <2>3. \/ jobs'[w].pc \notin SettlingPcs
        \/ /\ jobs'[w].t = jobs[w].t /\ jobs[w].pc \in SettlingPcs
           /\ jobs'[w].pc # "credit"
    BY <1>35
    DEF TypeInv, JobsOK, Job, SettleCollectBack, At, Begin, Goto, Finish, Idle,
        SettlingPcs
  <2> QED
    BY <2>1, <2>2, <2>3, OthersSettle, PayoutsStay
<1>36. ASSUME NEW w \in Workers, SettleFlag(w)
      PROVE  SettledInv'
  <2>1. credited' = credited
    BY <1>36 DEF SettleFlag, historyVars
  <2>2. \A v \in Workers \ {w} : jobs'[v] = jobs[v]
    BY <1>36 DEF TypeInv, JobsOK, SettleFlag, Begin, Goto, Finish
  <2>3. \/ jobs'[w].pc \notin SettlingPcs
        \/ /\ jobs'[w].t = jobs[w].t /\ jobs[w].pc \in SettlingPcs
           /\ jobs'[w].pc # "credit"
    BY <1>36
    DEF TypeInv, JobsOK, Job, SettleFlag, At, Begin, Goto, Finish, Idle,
        SettlingPcs
  <2> QED
    BY <2>1, <2>2, <2>3, OthersSettle, PayoutsStay
<1>37. ASSUME NEW w \in Workers, SettleAborts(w)
      PROVE  SettledInv'
  <2>1. credited' = credited
    BY <1>37 DEF SettleAborts, historyVars
  <2>2. \A v \in Workers \ {w} : jobs'[v] = jobs[v]
    BY <1>37 DEF TypeInv, JobsOK, SettleAborts, Begin, Goto, Finish
  <2>3. \/ jobs'[w].pc \notin SettlingPcs
        \/ /\ jobs'[w].t = jobs[w].t /\ jobs[w].pc \in SettlingPcs
           /\ jobs'[w].pc # "credit"
    BY <1>37
    DEF TypeInv, JobsOK, Job, SettleAborts, At, Begin, Goto, Finish, Idle,
        SettlingPcs
  <2> QED
    BY <2>1, <2>2, <2>3, OthersSettle, PayoutsStay
<1>38. ASSUME NEW amount \in Withdrawals, DebitPool(amount)
      PROVE  SettledInv'
  BY <1>38, PayoutsStay
  DEF DebitPool, SettlementGoesOn, Settles, historyVars
<1>39. ASSUME NEW amount \in Fundings, FundPool(amount)
      PROVE  SettledInv'
  BY <1>39, PayoutsStay
  DEF FundPool, SettlementGoesOn, Settles, historyVars
<1> QED
  BY <1>1, <1>2, <1>3, <1>4, <1>5, <1>6, <1>7, <1>8, <1>9, <1>10, <1>11,
     <1>12, <1>13, <1>14, <1>15, <1>16, <1>17, <1>18, <1>19, <1>20, <1>21,
     <1>22, <1>23, <1>24, <1>25, <1>26, <1>27, <1>28, <1>29, <1>30, <1>31,
     <1>32, <1>33, <1>34, <1>35, <1>36, <1>37, <1>38, <1>39
  DEF Next, Request, Decision, JobStep, Workers

LEMMA SettledInvariant == Spec => []SettledInv
<1>1. Init => SettledInv
  BY SettledInit
<1>2. TypeInv /\ SettledInv /\ [Next]_vars => SettledInv'
  BY SettledStep, EndsStep
<1> QED
  BY <1>1, <1>2, TypeInvariant, PTL DEF Spec

\* A party is credited at most once, and only for a pay-in that is settled; and
\* a settled pay-in was held, once, from the captain it still names.
THEOREM CreditsComeFromHolds == Spec => []SettledFromHold
<1>1. TypeInv /\ CarriedInv /\ SettledInv => SettledFromHold
  <2> SUFFICES ASSUME TypeInv, CarriedInv, SettledInv, NEW t \in Payments
               PROVE  /\ credited[t] <= 1
                      /\ credited[t] = 1 => status[t] = "SETTLED"
                      /\ status[t] = "SETTLED" => /\ captainId[t] # None
                                                  /\ hold[t][captainId[t]] = 1
    BY DEF SettledFromHold
  <2>1. credited[t] <= 1 /\ (credited[t] = 1 => status[t] = "SETTLED")
    BY DEF SettledInv, PayoutOfOK
  <2>2. status[t] = "SETTLED" => HeldFrom(t, 1)
    BY DEF CarriedInv, CarriedOf, PaidStates
  <2>3. HeldFrom(t, 1) => captainId[t] # None /\ hold[t][captainId[t]] = 1
    BY DEF HeldFrom
  <2> QED
    BY <2>1, <2>2, <2>3
<1> QED
  BY <1>1, TypeInvariant, CarriedInvariant, SettledInvariant, PTL

-----------------------------------------------------------------------------
(* The commission *)

\* The charge that the job of w has collected and not yet paid the share from.
Collected(w) == IF jobs[w].pc = "payShare" THEN Charge[jobs[w].t] ELSE 0

CollectedBy == [w \in Workers |-> Collected(w)]

\* Until others draw on the pool, it holds what is collected and not yet paid.
PoolHolds == drawn = 0 => Total(CollectedBy, Workers) <= pool

PayingPcs == {"credit", "collect", "payShare", "creditShare", "flag"}

\* The job of w will pay the captain of t, unless it is interrupted.
Pays(w, t) == jobs[w].t = t /\ jobs[w].pc \in PayingPcs

\* A settled pay-in has paid its captain, or is being paid out, or something
\* explains that it has not.
PaidOrSettling(t) ==
  status[t] = "SETTLED" =>
    commissionPaid[t] \/ MayBeOwed(t) \/ \E w \in Workers : Pays(w, t)

FundedInv == PoolHolds /\ \A t \in Payments : PaidOrSettling(t)

LEMMA CollectedType ==
  ASSUME TypeInv
  PROVE  \A w \in Workers : Collected(w) \in Nat
<1> SUFFICES ASSUME NEW w \in Workers
             PROVE  Collected(w) \in Nat
  OBVIOUS
<1>1. jobs[w].pc = "payShare" => jobs[w].t \in Payments
  BY DEF TypeInv, JobsOK, JobOK
<1> QED
  BY <1>1 DEF Collected

LEMMA CollectedTypeNext ==
  ASSUME TypeInv'
  PROVE  \A w \in Workers : Collected(w)' \in Nat
<1>1. (\A w \in Workers : Collected(w) \in Nat)'
  BY CollectedType, PTL
<1> QED
  BY <1>1

LEMMA CollectedSum ==
  ASSUME TypeInv
  PROVE  /\ Total(CollectedBy, Workers) \in Nat
         /\ \A w \in Workers : Collected(w) <= Total(CollectedBy, Workers)
<1>1. \A w \in Workers : CollectedBy[w] = Collected(w) /\ CollectedBy[w] \in Nat
  BY CollectedType DEF CollectedBy
<1>2. Total(CollectedBy, Workers) \in Nat
  BY <1>1, PayInFiniteAssumption, TotalNat
<1>3. \A w \in Workers : CollectedBy[w] <= Total(CollectedBy, Workers)
  BY <1>1, PayInFiniteAssumption, TotalBoundsEach
<1> QED
  BY <1>1, <1>2, <1>3

\* A step that collects nothing more, and takes nothing from the pool.
LEMMA PoolStill ==
  ASSUME TypeInv, TypeInv', PoolHolds, \A w \in Workers : Collected(w)' <= Collected(w),
         pool <= pool', drawn' = drawn
  PROVE  PoolHolds'
<1> DEFINE g == [w \in Workers |-> Collected(w)']
<1>1. \A w \in Workers : Collected(w) \in Nat
  BY CollectedType
<1>2. \A w \in Workers : Collected(w)' \in Nat
  BY CollectedTypeNext
<1>3. \A w \in Workers : g[w] \in Int /\ CollectedBy[w] \in Int /\ g[w] <= CollectedBy[w]
  BY <1>1, <1>2 DEF CollectedBy
<1>4. Total(g, Workers) <= Total(CollectedBy, Workers)
  BY <1>3, PayInFiniteAssumption, TotalMonotone
<1>5. CollectedBy' = g
  BY DEF CollectedBy
<1>6. PICK i \in Nat : i = Total(CollectedBy, Workers)
  BY CollectedSum
<1>7. (Total(CollectedBy, Workers) \in Nat)'
  BY CollectedSum, PTL
<1>8. PICK j \in Nat : j = Total(g, Workers)
  BY <1>5, <1>7
<1>9. PICK p \in Nat, q \in Nat : p = pool /\ q = pool'
  BY DEF TypeInv, MoneyOK
<1>10. drawn = 0 => j <= q
  BY <1>4, <1>6, <1>8, <1>9 DEF PoolHolds
<1> QED
  BY <1>5, <1>8, <1>9, <1>10 DEF PoolHolds

\* The job of w collects a charge, or pays from what it has collected.
LEMMA PoolMoves ==
  ASSUME TypeInv, TypeInv', PoolHolds, NEW w \in Workers, NEW d \in Int,
         \A v \in Workers \ {w} : jobs'[v] = jobs[v],
         Collected(w)' = Collected(w) + d, pool + d <= pool', drawn' = drawn
  PROVE  PoolHolds'
<1> DEFINE g == [v \in Workers |-> Collected(v)']
<1>1. \A v \in Workers : Collected(v) \in Nat
  BY CollectedType
<1>2. \A v \in Workers : Collected(v)' \in Nat
  BY CollectedTypeNext
<1>3. \A v \in Workers : g[v] \in Int /\ CollectedBy[v] \in Int
  BY <1>1, <1>2 DEF CollectedBy
<1>4. \A v \in Workers \ {w} : g[v] = CollectedBy[v]
  BY DEF CollectedBy, Collected
<1>5. Total(g, Workers) = Total(CollectedBy, Workers) + g[w] - CollectedBy[w]
  BY <1>3, <1>4, PayInFiniteAssumption, TotalOneChanges
<1>6. CollectedBy' = g
  BY DEF CollectedBy
<1>7. PICK a \in Nat : a = Collected(w)
  BY <1>1
<1>8. CollectedBy[w] = a /\ g[w] = a + d
  BY <1>7 DEF CollectedBy
<1>9. PICK i \in Nat : i = Total(CollectedBy, Workers)
  BY CollectedSum
<1>10. PICK p \in Nat, q \in Nat : p = pool /\ q = pool'
  BY DEF TypeInv, MoneyOK
<1>11. Total(g, Workers) = i + d /\ (drawn = 0 => i <= p) /\ p + d <= q
  <2>1. i + (a + d) - a = i + d
    BY <1>7, <1>9
  <2> QED
    BY <1>5, <1>8, <1>9, <1>10, <2>1 DEF PoolHolds
<1>12. drawn = 0 => i + d <= q
  BY <1>11
<1> QED
  BY <1>6, <1>10, <1>11, <1>12 DEF PoolHolds

LEMMA FundedInit == Init => FundedInv
<1> SUFFICES ASSUME Init
             PROVE  FundedInv
  OBVIOUS
<1>1. \A w \in Workers : CollectedBy[w] = 0
  BY DEF Init, Idle, CollectedBy, Collected
<1>2. Total(CollectedBy, Workers) = 0
  BY <1>1, PayInFiniteAssumption, TotalZero
<1>3. \A t \in Payments : PaidOrSettling(t)
  BY DEF Init, PaidOrSettling
<1> QED
  BY <1>2, <1>3 DEF Init, FundedInv, PoolHolds

\* A step that settles nothing, and finishes nothing that is being paid out.
LEMMA PaidOrSettlingStays ==
  ASSUME NEW t \in Payments, PaidOrSettling(t), status'[t] = "SETTLED" => status[t] = "SETTLED",
         commissionPaid'[t] = commissionPaid[t], MayBeOwed(t) => MayBeOwed(t)',
         \A w \in Workers : Pays(w, t) => Pays(w, t)'
  PROVE  PaidOrSettling(t)'
BY DEF PaidOrSettling

\* What explains an unpaid share goes on explaining it.
LEMMA OwedStays ==
  ASSUME NEW t \in Payments, UNCHANGED envVars
  PROVE  MayBeOwed(t) => MayBeOwed(t)'
BY DEF MayBeOwed, envVars

LEMMA FundedStill ==
  ASSUME TypeInv, TypeInv', FundedInv, pool' = pool, commissionPaid' = commissionPaid,
         \A t \in Payments : status'[t] = "SETTLED" => status[t] = "SETTLED",
         \A w \in Workers, t \in Payments : Pays(w, t) => Pays(w, t)',
         \A w \in Workers : Collected(w)' = Collected(w), drawn' = drawn,
         \A t \in Payments : MayBeOwed(t) => MayBeOwed(t)'
  PROVE  FundedInv'
<1>1. \A w \in Workers : Collected(w)' <= Collected(w)
  BY CollectedType
<1>2. pool <= pool'
  BY DEF TypeInv, MoneyOK
<1>3. PoolHolds'
  BY <1>1, <1>2, PoolStill DEF FundedInv
<1>4. \A t \in Payments : PaidOrSettling(t)'
  BY PaidOrSettlingStays DEF FundedInv
<1> QED
  BY <1>3, <1>4 DEF FundedInv

LEMMA FundedStep ==
  ASSUME TypeInv, TypeInv', SettledInv, FundedInv, [Next]_vars
  PROVE  FundedInv'
<1>1. ASSUME NEW w \in Workers, NEW t \in Payments, Create(w, t)
      PROVE  FundedInv'
  <2>1. /\ pool' = pool /\ commissionPaid' = commissionPaid
        /\ envVars' = envVars
    BY <1>1 DEF Create, rowVars, rowButStatus, moneyVars, historyVars
  <2>2. \A u \in Payments : status'[u] = "SETTLED" => status[u] = "SETTLED"
    BY <1>1
    DEF Create, At, TypeInv, RowsOK, JobsOK, JobOK, UnheldPcs, rowVars,
        rowButStatus, moneyVars, historyVars
  <2>3. /\ \A v \in Workers \ {w} : jobs'[v] = jobs[v]
        /\ jobs[w].pc \notin PayingPcs /\ jobs'[w].pc # "payShare"
    BY <1>1
    DEF TypeInv, JobsOK, Job, Create, At, Begin, Goto, Finish, Idle,
        PayingPcs
  <2>4. \A v \in Workers, u \in Payments : Pays(v, u) => Pays(v, u)'
    BY <2>3 DEF Pays, PayingPcs
  <2>5. \A v \in Workers : Collected(v)' = Collected(v)
    BY <2>3 DEF Collected, PayingPcs
  <2> QED
    BY <2>1, <2>2, <2>4, <2>5, FundedStill, OwedStays DEF envVars
<1>2. ASSUME NEW w \in Workers, NEW c \in Captains, Route(w, c)
      PROVE  FundedInv'
  <2>1. /\ pool' = pool /\ commissionPaid' = commissionPaid
        /\ envVars' = envVars
    BY <1>2 DEF Route, Eligible, rowVars, rowButStatus, moneyVars, historyVars
  <2>2. \A u \in Payments : status'[u] = "SETTLED" => status[u] = "SETTLED"
    BY <1>2
    DEF Route, Eligible, At, TypeInv, RowsOK, JobsOK, JobOK, UnheldPcs,
        rowVars, rowButStatus, moneyVars, historyVars
  <2>3. /\ \A v \in Workers \ {w} : jobs'[v] = jobs[v]
        /\ jobs[w].pc \notin PayingPcs /\ jobs'[w].pc # "payShare"
    BY <1>2
    DEF TypeInv, JobsOK, Job, Route, Eligible, At, Begin, Goto, Finish, Idle,
        PayingPcs
  <2>4. \A v \in Workers, u \in Payments : Pays(v, u) => Pays(v, u)'
    BY <2>3 DEF Pays, PayingPcs
  <2>5. \A v \in Workers : Collected(v)' = Collected(v)
    BY <2>3 DEF Collected, PayingPcs
  <2> QED
    BY <2>1, <2>2, <2>4, <2>5, FundedStill, OwedStays DEF envVars
<1>3. ASSUME NEW w \in Workers, NotRouted(w)
      PROVE  FundedInv'
  <2>1. /\ pool' = pool /\ commissionPaid' = commissionPaid
        /\ envVars' = envVars
    BY <1>3 DEF NotRouted, rowVars, rowButStatus, moneyVars, historyVars
  <2>2. \A u \in Payments : status'[u] = "SETTLED" => status[u] = "SETTLED"
    BY <1>3
    DEF NotRouted, At, TypeInv, RowsOK, JobsOK, JobOK, UnheldPcs, rowVars,
        rowButStatus, moneyVars, historyVars
  <2>3. /\ \A v \in Workers \ {w} : jobs'[v] = jobs[v]
        /\ jobs[w].pc \notin PayingPcs /\ jobs'[w].pc # "payShare"
    BY <1>3
    DEF TypeInv, JobsOK, Job, NotRouted, At, Begin, Goto, Finish, Idle,
        PayingPcs
  <2>4. \A v \in Workers, u \in Payments : Pays(v, u) => Pays(v, u)'
    BY <2>3 DEF Pays, PayingPcs
  <2>5. \A v \in Workers : Collected(v)' = Collected(v)
    BY <2>3 DEF Collected, PayingPcs
  <2> QED
    BY <2>1, <2>2, <2>4, <2>5, FundedStill, OwedStays DEF envVars
<1>4. ASSUME NEW w \in Workers, AssignInTransaction(w)
      PROVE  FundedInv'
  <2>1. /\ pool' = pool /\ commissionPaid' = commissionPaid
        /\ envVars' = envVars
    BY <1>4
    DEF AssignInTransaction, AssignTo, TakeHold, RepricedShare,
        WithinCurrentLimit, rowVars, rowButStatus, moneyVars, historyVars
  <2>2. \A u \in Payments : status'[u] = "SETTLED" => status[u] = "SETTLED"
    BY <1>4
    DEF AssignInTransaction, AssignTo, TakeHold, RepricedShare,
        WithinCurrentLimit, At, TypeInv, RowsOK, JobsOK, JobOK, UnheldPcs,
        rowVars, rowButStatus, moneyVars, historyVars
  <2>3. /\ \A v \in Workers \ {w} : jobs'[v] = jobs[v]
        /\ jobs[w].pc \notin PayingPcs /\ jobs'[w].pc # "payShare"
    BY <1>4
    DEF TypeInv, JobsOK, Job, AssignInTransaction, AssignTo, TakeHold,
        RepricedShare, WithinCurrentLimit, At, Begin, Goto, Finish, Idle,
        PayingPcs
  <2>4. \A v \in Workers, u \in Payments : Pays(v, u) => Pays(v, u)'
    BY <2>3 DEF Pays, PayingPcs
  <2>5. \A v \in Workers : Collected(v)' = Collected(v)
    BY <2>3 DEF Collected, PayingPcs
  <2> QED
    BY <2>1, <2>2, <2>4, <2>5, FundedStill, OwedStays DEF envVars
<1>5. ASSUME NEW w \in Workers, AssignClaim(w)
      PROVE  FundedInv'
  <2>1. /\ pool' = pool /\ commissionPaid' = commissionPaid
        /\ envVars' = envVars
    BY <1>5
    DEF AssignClaim, AssignTo, RepricedShare, rowVars, rowButStatus,
        moneyVars, historyVars
  <2>2. \A u \in Payments : status'[u] = "SETTLED" => status[u] = "SETTLED"
    BY <1>5
    DEF AssignClaim, AssignTo, RepricedShare, At, TypeInv, RowsOK, JobsOK,
        JobOK, UnheldPcs, rowVars, rowButStatus, moneyVars, historyVars
  <2>3. /\ \A v \in Workers \ {w} : jobs'[v] = jobs[v]
        /\ jobs[w].pc \notin PayingPcs /\ jobs'[w].pc # "payShare"
    BY <1>5
    DEF TypeInv, JobsOK, Job, AssignClaim, AssignTo, RepricedShare, At, Begin,
        Goto, Finish, Idle, PayingPcs
  <2>4. \A v \in Workers, u \in Payments : Pays(v, u) => Pays(v, u)'
    BY <2>3 DEF Pays, PayingPcs
  <2>5. \A v \in Workers : Collected(v)' = Collected(v)
    BY <2>3 DEF Collected, PayingPcs
  <2> QED
    BY <2>1, <2>2, <2>4, <2>5, FundedStill, OwedStays DEF envVars
<1>6. ASSUME NEW w \in Workers, AssignHold(w)
      PROVE  FundedInv'
  <2>1. /\ pool' = pool /\ commissionPaid' = commissionPaid
        /\ envVars' = envVars
    BY <1>6
    DEF AssignHold, TakeHold, WithinCurrentLimit, rowVars, rowButStatus,
        moneyVars, historyVars
  <2>2. \A u \in Payments : status'[u] = "SETTLED" => status[u] = "SETTLED"
    BY <1>6
    DEF AssignHold, TakeHold, WithinCurrentLimit, At, TypeInv, RowsOK, JobsOK,
        JobOK, UnheldPcs, rowVars, rowButStatus, moneyVars, historyVars
  <2>3. /\ \A v \in Workers \ {w} : jobs'[v] = jobs[v]
        /\ jobs[w].pc \notin PayingPcs /\ jobs'[w].pc # "payShare"
    BY <1>6
    DEF TypeInv, JobsOK, Job, AssignHold, TakeHold, WithinCurrentLimit, At,
        Begin, Goto, Finish, Idle, PayingPcs
  <2>4. \A v \in Workers, u \in Payments : Pays(v, u) => Pays(v, u)'
    BY <2>3 DEF Pays, PayingPcs
  <2>5. \A v \in Workers : Collected(v)' = Collected(v)
    BY <2>3 DEF Collected, PayingPcs
  <2> QED
    BY <2>1, <2>2, <2>4, <2>5, FundedStill, OwedStays DEF envVars
<1>7. ASSUME NEW w \in Workers, AssignLost(w)
      PROVE  FundedInv'
  <2>1. /\ pool' = pool /\ commissionPaid' = commissionPaid
        /\ envVars' = envVars
    BY <1>7 DEF AssignLost, rowVars, rowButStatus, moneyVars, historyVars
  <2>2. \A u \in Payments : status'[u] = "SETTLED" => status[u] = "SETTLED"
    BY <1>7
    DEF AssignLost, At, TypeInv, RowsOK, JobsOK, JobOK, UnheldPcs, rowVars,
        rowButStatus, moneyVars, historyVars
  <2>3. /\ \A v \in Workers \ {w} : jobs'[v] = jobs[v]
        /\ jobs[w].pc \notin PayingPcs /\ jobs'[w].pc # "payShare"
    BY <1>7
    DEF TypeInv, JobsOK, Job, AssignLost, At, Begin, Goto, Finish, Idle,
        PayingPcs
  <2>4. \A v \in Workers, u \in Payments : Pays(v, u) => Pays(v, u)'
    BY <2>3 DEF Pays, PayingPcs
  <2>5. \A v \in Workers : Collected(v)' = Collected(v)
    BY <2>3 DEF Collected, PayingPcs
  <2> QED
    BY <2>1, <2>2, <2>4, <2>5, FundedStill, OwedStays DEF envVars
<1>8. ASSUME NEW w \in Workers, PutBack(w)
      PROVE  FundedInv'
  <2>1. /\ pool' = pool /\ commissionPaid' = commissionPaid
        /\ envVars' = envVars
    BY <1>8 DEF PutBack, HandBack, rowVars, rowButStatus, moneyVars, historyVars
  <2>2. \A u \in Payments : status'[u] = "SETTLED" => status[u] = "SETTLED"
    BY <1>8
    DEF PutBack, HandBack, At, TypeInv, RowsOK, JobsOK, JobOK, UnheldPcs,
        rowVars, rowButStatus, moneyVars, historyVars
  <2>3. /\ \A v \in Workers \ {w} : jobs'[v] = jobs[v]
        /\ jobs[w].pc \notin PayingPcs /\ jobs'[w].pc # "payShare"
    BY <1>8
    DEF TypeInv, JobsOK, Job, PutBack, HandBack, At, Begin, Goto, Finish,
        Idle, PayingPcs
  <2>4. \A v \in Workers, u \in Payments : Pays(v, u) => Pays(v, u)'
    BY <2>3 DEF Pays, PayingPcs
  <2>5. \A v \in Workers : Collected(v)' = Collected(v)
    BY <2>3 DEF Collected, PayingPcs
  <2> QED
    BY <2>1, <2>2, <2>4, <2>5, FundedStill, OwedStays DEF envVars
<1>9. ASSUME NEW w \in Workers, Open(w)
      PROVE  FundedInv'
  <2>1. /\ pool' = pool /\ commissionPaid' = commissionPaid
        /\ envVars' = envVars
    BY <1>9 DEF Open, rowVars, rowButStatus, moneyVars, historyVars
  <2>2. \A u \in Payments : status'[u] = "SETTLED" => status[u] = "SETTLED"
    BY <1>9
    DEF Open, At, TypeInv, RowsOK, JobsOK, JobOK, UnheldPcs, rowVars,
        rowButStatus, moneyVars, historyVars
  <2>3. /\ \A v \in Workers \ {w} : jobs'[v] = jobs[v]
        /\ jobs[w].pc \notin PayingPcs /\ jobs'[w].pc # "payShare"
    BY <1>9
    DEF TypeInv, JobsOK, Job, Open, At, Begin, Goto, Finish, Idle, PayingPcs
  <2>4. \A v \in Workers, u \in Payments : Pays(v, u) => Pays(v, u)'
    BY <2>3 DEF Pays, PayingPcs
  <2>5. \A v \in Workers : Collected(v)' = Collected(v)
    BY <2>3 DEF Collected, PayingPcs
  <2> QED
    BY <2>1, <2>2, <2>4, <2>5, FundedStill, OwedStays DEF envVars
<1>10. ASSUME NEW w \in Workers, NEW t \in Payments, NEW c \in Captains, Decline(w, t, c)
      PROVE  FundedInv'
  <2>1. /\ pool' = pool /\ commissionPaid' = commissionPaid
        /\ envVars' = envVars
    BY <1>10
    DEF Decline, Declined, HandBack, rowVars, rowButStatus, moneyVars,
        historyVars
  <2>2. \A u \in Payments : status'[u] = "SETTLED" => status[u] = "SETTLED"
    BY <1>10
    DEF Decline, Declined, HandBack, At, TypeInv, RowsOK, JobsOK, JobOK,
        UnheldPcs, rowVars, rowButStatus, moneyVars, historyVars
  <2>3. /\ \A v \in Workers \ {w} : jobs'[v] = jobs[v]
        /\ jobs[w].pc \notin PayingPcs /\ jobs'[w].pc # "payShare"
    BY <1>10
    DEF TypeInv, JobsOK, Job, Decline, Declined, HandBack, At, Begin, Goto,
        Finish, Idle, PayingPcs
  <2>4. \A v \in Workers, u \in Payments : Pays(v, u) => Pays(v, u)'
    BY <2>3 DEF Pays, PayingPcs
  <2>5. \A v \in Workers : Collected(v)' = Collected(v)
    BY <2>3 DEF Collected, PayingPcs
  <2> QED
    BY <2>1, <2>2, <2>4, <2>5, FundedStill, OwedStays DEF envVars
<1>11. ASSUME NEW w \in Workers, Release(w)
      PROVE  FundedInv'
  <2>1. /\ pool' = pool /\ commissionPaid' = commissionPaid
        /\ envVars' = envVars
    BY <1>11 DEF Release, GiveBack, rowVars, rowButStatus, moneyVars, historyVars
  <2>2. \A u \in Payments : status'[u] = "SETTLED" => status[u] = "SETTLED"
    BY <1>11
    DEF Release, GiveBack, At, TypeInv, RowsOK, JobsOK, JobOK, UnheldPcs,
        rowVars, rowButStatus, moneyVars, historyVars
  <2>3. /\ \A v \in Workers \ {w} : jobs'[v] = jobs[v]
        /\ jobs[w].pc \notin PayingPcs /\ jobs'[w].pc # "payShare"
    BY <1>11
    DEF TypeInv, JobsOK, Job, Release, GiveBack, At, Begin, Goto, Finish,
        Idle, PayingPcs
  <2>4. \A v \in Workers, u \in Payments : Pays(v, u) => Pays(v, u)'
    BY <2>3 DEF Pays, PayingPcs
  <2>5. \A v \in Workers : Collected(v)' = Collected(v)
    BY <2>3 DEF Collected, PayingPcs
  <2> QED
    BY <2>1, <2>2, <2>4, <2>5, FundedStill, OwedStays DEF envVars
<1>12. ASSUME NEW w \in Workers, NEW t \in Payments, Webhook(w, t)
      PROVE  FundedInv'
  <2>1. /\ pool' = pool /\ commissionPaid' = commissionPaid
        /\ envVars' = envVars
    BY <1>12 DEF Webhook, rowVars, rowButStatus, moneyVars, historyVars
  <2>2. \A u \in Payments : status'[u] = "SETTLED" => status[u] = "SETTLED"
    BY <1>12
    DEF Webhook, At, TypeInv, RowsOK, JobsOK, JobOK, UnheldPcs, rowVars,
        rowButStatus, moneyVars, historyVars
  <2>3. /\ \A v \in Workers \ {w} : jobs'[v] = jobs[v]
        /\ jobs[w].pc \notin PayingPcs /\ jobs'[w].pc # "payShare"
    BY <1>12
    DEF TypeInv, JobsOK, Job, Webhook, At, Begin, Goto, Finish, Idle,
        PayingPcs
  <2>4. \A v \in Workers, u \in Payments : Pays(v, u) => Pays(v, u)'
    BY <2>3 DEF Pays, PayingPcs
  <2>5. \A v \in Workers : Collected(v)' = Collected(v)
    BY <2>3 DEF Collected, PayingPcs
  <2> QED
    BY <2>1, <2>2, <2>4, <2>5, FundedStill, OwedStays DEF envVars
<1>13. ASSUME NEW w \in Workers, SettleRead(w)
      PROVE  FundedInv'
  <2>1. /\ pool' = pool /\ commissionPaid' = commissionPaid
        /\ envVars' = envVars
    BY <1>13 DEF SettleRead, rowVars, rowButStatus, moneyVars, historyVars
  <2>2. \A u \in Payments : status'[u] = "SETTLED" => status[u] = "SETTLED"
    BY <1>13
    DEF SettleRead, At, TypeInv, RowsOK, JobsOK, JobOK, UnheldPcs, rowVars,
        rowButStatus, moneyVars, historyVars
  <2>3. /\ \A v \in Workers \ {w} : jobs'[v] = jobs[v]
        /\ jobs[w].pc \notin PayingPcs /\ jobs'[w].pc # "payShare"
    BY <1>13
    DEF TypeInv, JobsOK, Job, SettleRead, At, Begin, Goto, Finish, Idle,
        PayingPcs
  <2>4. \A v \in Workers, u \in Payments : Pays(v, u) => Pays(v, u)'
    BY <2>3 DEF Pays, PayingPcs
  <2>5. \A v \in Workers : Collected(v)' = Collected(v)
    BY <2>3 DEF Collected, PayingPcs
  <2> QED
    BY <2>1, <2>2, <2>4, <2>5, FundedStill, OwedStays DEF envVars
<1>14. ASSUME NEW w \in Workers, SettleLost(w)
      PROVE  FundedInv'
  <2>1. /\ pool' = pool /\ commissionPaid' = commissionPaid
        /\ envVars' = envVars
    BY <1>14 DEF SettleLost, rowVars, rowButStatus, moneyVars, historyVars
  <2>2. \A u \in Payments : status'[u] = "SETTLED" => status[u] = "SETTLED"
    BY <1>14
    DEF SettleLost, At, TypeInv, RowsOK, JobsOK, JobOK, UnheldPcs, rowVars,
        rowButStatus, moneyVars, historyVars
  <2>3. /\ \A v \in Workers \ {w} : jobs'[v] = jobs[v]
        /\ jobs[w].pc \notin PayingPcs /\ jobs'[w].pc # "payShare"
    BY <1>14
    DEF TypeInv, JobsOK, Job, SettleLost, At, Begin, Goto, Finish, Idle,
        PayingPcs
  <2>4. \A v \in Workers, u \in Payments : Pays(v, u) => Pays(v, u)'
    BY <2>3 DEF Pays, PayingPcs
  <2>5. \A v \in Workers : Collected(v)' = Collected(v)
    BY <2>3 DEF Collected, PayingPcs
  <2> QED
    BY <2>1, <2>2, <2>4, <2>5, FundedStill, OwedStays DEF envVars
<1>15. ASSUME NEW w \in Workers, SettleCredit(w)
      PROVE  FundedInv'
  <2>1. /\ pool' = pool /\ commissionPaid' = commissionPaid
        /\ envVars' = envVars
    BY <1>15 DEF SettleCredit, rowVars, rowButStatus, moneyVars, historyVars
  <2>2. \A u \in Payments : status'[u] = "SETTLED" => status[u] = "SETTLED"
    BY <1>15
    DEF SettleCredit, At, TypeInv, RowsOK, JobsOK, JobOK, UnheldPcs, rowVars,
        rowButStatus, moneyVars, historyVars
  <2>3. /\ \A v \in Workers \ {w} : jobs'[v] = jobs[v]
        /\ jobs[w].pc = "credit" /\ jobs'[w].pc = "collect" /\ jobs'[w].t = jobs[w].t
    BY <1>15
    DEF TypeInv, JobsOK, Job, SettleCredit, At, Begin, Goto, Finish, Idle,
        PayingPcs
  <2>4. \A v \in Workers, u \in Payments : Pays(v, u) => Pays(v, u)'
    BY <2>3 DEF Pays, PayingPcs
  <2>5. \A v \in Workers : Collected(v)' = Collected(v)
    BY <2>3 DEF Collected, PayingPcs
  <2> QED
    BY <2>1, <2>2, <2>4, <2>5, FundedStill, OwedStays DEF envVars
<1>16. ASSUME NEW w \in Workers, NEW t \in Payments, SweepList(w, t)
      PROVE  FundedInv'
  <2>1. /\ pool' = pool /\ commissionPaid' = commissionPaid
        /\ envVars' = envVars
    BY <1>16 DEF SweepList, rowVars, rowButStatus, moneyVars, historyVars
  <2>2. \A u \in Payments : status'[u] = "SETTLED" => status[u] = "SETTLED"
    BY <1>16
    DEF SweepList, At, TypeInv, RowsOK, JobsOK, JobOK, UnheldPcs, rowVars,
        rowButStatus, moneyVars, historyVars
  <2>3. /\ \A v \in Workers \ {w} : jobs'[v] = jobs[v]
        /\ jobs[w].pc \notin PayingPcs /\ jobs'[w].pc # "payShare"
    BY <1>16
    DEF TypeInv, JobsOK, Job, SweepList, At, Begin, Goto, Finish, Idle,
        PayingPcs
  <2>4. \A v \in Workers, u \in Payments : Pays(v, u) => Pays(v, u)'
    BY <2>3 DEF Pays, PayingPcs
  <2>5. \A v \in Workers : Collected(v)' = Collected(v)
    BY <2>3 DEF Collected, PayingPcs
  <2> QED
    BY <2>1, <2>2, <2>4, <2>5, FundedStill, OwedStays DEF envVars
<1>17. ASSUME NEW w \in Workers, ExpireRead(w)
      PROVE  FundedInv'
  <2>1. /\ pool' = pool /\ commissionPaid' = commissionPaid
        /\ envVars' = envVars
    BY <1>17 DEF ExpireRead, rowVars, rowButStatus, moneyVars, historyVars
  <2>2. \A u \in Payments : status'[u] = "SETTLED" => status[u] = "SETTLED"
    BY <1>17
    DEF ExpireRead, At, TypeInv, RowsOK, JobsOK, JobOK, UnheldPcs, rowVars,
        rowButStatus, moneyVars, historyVars
  <2>3. /\ \A v \in Workers \ {w} : jobs'[v] = jobs[v]
        /\ jobs[w].pc \notin PayingPcs /\ jobs'[w].pc # "payShare"
    BY <1>17
    DEF TypeInv, JobsOK, Job, ExpireRead, At, Begin, Goto, Finish, Idle,
        PayingPcs
  <2>4. \A v \in Workers, u \in Payments : Pays(v, u) => Pays(v, u)'
    BY <2>3 DEF Pays, PayingPcs
  <2>5. \A v \in Workers : Collected(v)' = Collected(v)
    BY <2>3 DEF Collected, PayingPcs
  <2> QED
    BY <2>1, <2>2, <2>4, <2>5, FundedStill, OwedStays DEF envVars
<1>18. ASSUME NEW w \in Workers, ExpireInTransaction(w)
      PROVE  FundedInv'
  <2>1. /\ pool' = pool /\ commissionPaid' = commissionPaid
        /\ envVars' = envVars
    BY <1>18
    DEF ExpireInTransaction, MarkExpired, WasHeld, GiveBack, rowVars,
        rowButStatus, moneyVars, historyVars
  <2>2. \A u \in Payments : status'[u] = "SETTLED" => status[u] = "SETTLED"
    BY <1>18
    DEF ExpireInTransaction, MarkExpired, WasHeld, GiveBack, At, TypeInv,
        RowsOK, JobsOK, JobOK, UnheldPcs, rowVars, rowButStatus, moneyVars,
        historyVars
  <2>3. /\ \A v \in Workers \ {w} : jobs'[v] = jobs[v]
        /\ jobs[w].pc \notin PayingPcs /\ jobs'[w].pc # "payShare"
    BY <1>18
    DEF TypeInv, JobsOK, Job, ExpireInTransaction, MarkExpired, WasHeld,
        GiveBack, At, Begin, Goto, Finish, Idle, PayingPcs
  <2>4. \A v \in Workers, u \in Payments : Pays(v, u) => Pays(v, u)'
    BY <2>3 DEF Pays, PayingPcs
  <2>5. \A v \in Workers : Collected(v)' = Collected(v)
    BY <2>3 DEF Collected, PayingPcs
  <2> QED
    BY <2>1, <2>2, <2>4, <2>5, FundedStill, OwedStays DEF envVars
<1>19. ASSUME NEW w \in Workers, ExpireClaim(w)
      PROVE  FundedInv'
  <2>1. /\ pool' = pool /\ commissionPaid' = commissionPaid
        /\ envVars' = envVars
    BY <1>19
    DEF ExpireClaim, MarkExpired, WasHeld, rowVars, rowButStatus, moneyVars,
        historyVars
  <2>2. \A u \in Payments : status'[u] = "SETTLED" => status[u] = "SETTLED"
    BY <1>19
    DEF ExpireClaim, MarkExpired, WasHeld, At, TypeInv, RowsOK, JobsOK, JobOK,
        UnheldPcs, rowVars, rowButStatus, moneyVars, historyVars
  <2>3. /\ \A v \in Workers \ {w} : jobs'[v] = jobs[v]
        /\ jobs[w].pc \notin PayingPcs /\ jobs'[w].pc # "payShare"
    BY <1>19
    DEF TypeInv, JobsOK, Job, ExpireClaim, MarkExpired, WasHeld, At, Begin,
        Goto, Finish, Idle, PayingPcs
  <2>4. \A v \in Workers, u \in Payments : Pays(v, u) => Pays(v, u)'
    BY <2>3 DEF Pays, PayingPcs
  <2>5. \A v \in Workers : Collected(v)' = Collected(v)
    BY <2>3 DEF Collected, PayingPcs
  <2> QED
    BY <2>1, <2>2, <2>4, <2>5, FundedStill, OwedStays DEF envVars
<1>20. ASSUME NEW w \in Workers, ExpireLost(w)
      PROVE  FundedInv'
  <2>1. /\ pool' = pool /\ commissionPaid' = commissionPaid
        /\ envVars' = envVars
    BY <1>20 DEF ExpireLost, rowVars, rowButStatus, moneyVars, historyVars
  <2>2. \A u \in Payments : status'[u] = "SETTLED" => status[u] = "SETTLED"
    BY <1>20
    DEF ExpireLost, At, TypeInv, RowsOK, JobsOK, JobOK, UnheldPcs, rowVars,
        rowButStatus, moneyVars, historyVars
  <2>3. /\ \A v \in Workers \ {w} : jobs'[v] = jobs[v]
        /\ jobs[w].pc \notin PayingPcs /\ jobs'[w].pc # "payShare"
    BY <1>20
    DEF TypeInv, JobsOK, Job, ExpireLost, At, Begin, Goto, Finish, Idle,
        PayingPcs
  <2>4. \A v \in Workers, u \in Payments : Pays(v, u) => Pays(v, u)'
    BY <2>3 DEF Pays, PayingPcs
  <2>5. \A v \in Workers : Collected(v)' = Collected(v)
    BY <2>3 DEF Collected, PayingPcs
  <2> QED
    BY <2>1, <2>2, <2>4, <2>5, FundedStill, OwedStays DEF envVars
<1>21. ASSUME NEW w \in Workers, NEW t \in Payments, ResolveSettle(w, t)
      PROVE  FundedInv'
  <2>1. /\ pool' = pool /\ commissionPaid' = commissionPaid
        /\ envVars' = envVars
    BY <1>21 DEF ResolveSettle, rowVars, rowButStatus, moneyVars, historyVars
  <2>2. \A u \in Payments : status'[u] = "SETTLED" => status[u] = "SETTLED"
    BY <1>21
    DEF ResolveSettle, At, TypeInv, RowsOK, JobsOK, JobOK, UnheldPcs, rowVars,
        rowButStatus, moneyVars, historyVars
  <2>3. /\ \A v \in Workers \ {w} : jobs'[v] = jobs[v]
        /\ jobs[w].pc \notin PayingPcs /\ jobs'[w].pc # "payShare"
    BY <1>21
    DEF TypeInv, JobsOK, Job, ResolveSettle, At, Begin, Goto, Finish, Idle,
        PayingPcs
  <2>4. \A v \in Workers, u \in Payments : Pays(v, u) => Pays(v, u)'
    BY <2>3 DEF Pays, PayingPcs
  <2>5. \A v \in Workers : Collected(v)' = Collected(v)
    BY <2>3 DEF Collected, PayingPcs
  <2> QED
    BY <2>1, <2>2, <2>4, <2>5, FundedStill, OwedStays DEF envVars
<1>22. ASSUME NEW w \in Workers, NEW t \in Payments, ResolveRelease(w, t)
      PROVE  FundedInv'
  <2>1. /\ pool' = pool /\ commissionPaid' = commissionPaid
        /\ envVars' = envVars
    BY <1>22 DEF ResolveRelease, rowVars, rowButStatus, moneyVars, historyVars
  <2>2. \A u \in Payments : status'[u] = "SETTLED" => status[u] = "SETTLED"
    BY <1>22
    DEF ResolveRelease, At, TypeInv, RowsOK, JobsOK, JobOK, UnheldPcs,
        rowVars, rowButStatus, moneyVars, historyVars
  <2>3. /\ \A v \in Workers \ {w} : jobs'[v] = jobs[v]
        /\ jobs[w].pc \notin PayingPcs /\ jobs'[w].pc # "payShare"
    BY <1>22
    DEF TypeInv, JobsOK, Job, ResolveRelease, At, Begin, Goto, Finish, Idle,
        PayingPcs
  <2>4. \A v \in Workers, u \in Payments : Pays(v, u) => Pays(v, u)'
    BY <2>3 DEF Pays, PayingPcs
  <2>5. \A v \in Workers : Collected(v)' = Collected(v)
    BY <2>3 DEF Collected, PayingPcs
  <2> QED
    BY <2>1, <2>2, <2>4, <2>5, FundedStill, OwedStays DEF envVars
<1>23. ASSUME NEW t \in Payments, NEW c \in Captains, DeclineInTransaction(t, c)
      PROVE  FundedInv'
  <2>1. /\ pool' = pool /\ commissionPaid' = commissionPaid /\ jobs' = jobs
        /\ envVars' = envVars
    BY <1>23
    DEF DeclineInTransaction, Declined, HandBack, GiveBack, rowVars,
        rowButStatus, moneyVars, historyVars
  <2>2. \A u \in Payments : status'[u] = "SETTLED" => status[u] = "SETTLED"
    BY <1>23
    DEF DeclineInTransaction, Declined, HandBack, GiveBack, TypeInv, RowsOK,
        rowVars, rowButStatus, moneyVars, historyVars
  <2> QED
    BY <2>1, <2>2, FundedStill, OwedStays DEF envVars, Pays, Collected
<1>24. ASSUME NEW t \in Payments, Dispute(t)
      PROVE  FundedInv'
  <2>1. /\ pool' = pool /\ commissionPaid' = commissionPaid /\ jobs' = jobs
        /\ envVars' = envVars
    BY <1>24 DEF Dispute, rowVars, rowButStatus, moneyVars, historyVars
  <2>2. \A u \in Payments : status'[u] = "SETTLED" => status[u] = "SETTLED"
    BY <1>24
    DEF Dispute, TypeInv, RowsOK, rowVars, rowButStatus, moneyVars,
        historyVars
  <2> QED
    BY <2>1, <2>2, FundedStill, OwedStays DEF envVars, Pays, Collected
<1>25. ASSUME NEW t \in Payments, WindowCloses(t)
      PROVE  FundedInv'
  <2>1. /\ pool' = pool /\ commissionPaid' = commissionPaid /\ jobs' = jobs
        /\ envVars' = envVars
    BY <1>25 DEF WindowCloses, rowVars, rowButStatus, moneyVars, historyVars
  <2>2. \A u \in Payments : status'[u] = "SETTLED" => status[u] = "SETTLED"
    BY <1>25
    DEF WindowCloses, TypeInv, RowsOK, rowVars, rowButStatus, moneyVars,
        historyVars
  <2> QED
    BY <2>1, <2>2, FundedStill, OwedStays DEF envVars, Pays, Collected
<1>26. ASSUME UNCHANGED vars
      PROVE  FundedInv'
  <2>1. /\ pool' = pool /\ commissionPaid' = commissionPaid /\ jobs' = jobs /\ status' = status
        /\ envVars' = envVars
    BY <1>26 DEF vars, rowVars, rowButStatus, moneyVars
  <2> QED
    BY <2>1, FundedStill, OwedStays DEF Pays, Collected, envVars
<1>27. ASSUME Crash
      PROVE  FundedInv'
  <2>1. /\ pool' = pool /\ commissionPaid' = commissionPaid /\ status' = status
        /\ drawn' = drawn /\ failures' = failures
    BY <1>27 DEF Crash, rowVars, rowButStatus, moneyVars
  <2>2. \A v \in Workers : Collected(v)' <= Collected(v)
    <3>1. \A v \in Workers : Collected(v)' = 0
      BY <1>27 DEF Crash, Idle, Collected
    <3>2. \A v \in Workers : \E n \in Nat : n = Collected(v)
      BY CollectedType
    <3> QED
      BY <3>1, <3>2
  <2>3. PoolHolds'
    BY <2>1, <2>2, PoolStill DEF FundedInv, TypeInv, MoneyOK
  <2>4. crashes' > 0
    <3>1. PICK n \in Nat : n = crashes
      BY DEF TypeInv, HistoryOK
    <3>2. crashes' = n + 1
      BY <1>27, <3>1 DEF Crash
    <3> QED
      BY <3>2
  <2>5. ASSUME NEW u \in Payments
        PROVE  PaidOrSettling(u)'
    <3>1. UseTransactions => \A v \in Workers : ~Pays(v, u)
      BY DEF SettledInv, PayoutOfOK, Settles, SettlingPcs, Pays, PayingPcs
    <3>2. ~UseTransactions => MayBeOwed(u)'
      BY <2>4 DEF MayBeOwed
    <3>3. UseTransactions => ~MayBeOwed(u)
      BY DEF MayBeOwed
    <3> QED
      BY <2>1, <3>1, <3>2, <3>3 DEF FundedInv, PaidOrSettling
  <2> QED
    BY <2>3, <2>5 DEF FundedInv
<1>28. ASSUME NEW w \in Workers, SettleInTransaction(w)
      PROVE  FundedInv'
  <2>1. PICK t \in Payments : t = jobs[w].t
    BY <1>28 DEF SettleInTransaction, MarkSettled, At, TypeInv, JobsOK, JobOK
  <2>2. PICK q \in Nat, z \in Nat, x \in Nat :
          q = pool /\ z = Charge[t] /\ x = commissionPaise[t] /\ x <= z
    BY DEF TypeInv, MoneyOK, RowsOK
  <2>3. x <= q + z /\ q <= q + z - x
    BY <2>2
  <2>4. /\ pool' = q + z - x /\ commissionPaid'[t]
        /\ \A u \in Payments \ {t} : commissionPaid'[u] = commissionPaid[u]
    BY <1>28, <2>1, <2>2, <2>3 DEF SettleInTransaction, TypeInv, RowsOK
  <2>5. \A u \in Payments \ {t} : status'[u] = status[u]
    BY <1>28, <2>1 DEF SettleInTransaction, MarkSettled, TypeInv, RowsOK
  <2>6. /\ \A v \in Workers \ {w} : jobs'[v] = jobs[v]
        /\ jobs[w].pc = "settleClaim" /\ jobs'[w].pc = "idle"
    BY <1>28 DEF SettleInTransaction, MarkSettled, At, Finish, Idle, TypeInv, JobsOK
  <2>7. \A u \in Payments \ {t} : PaidOrSettling(u)'
    BY <1>28, <2>4, <2>5, <2>6, PaidOrSettlingStays, OwedStays DEF SettleInTransaction, FundedInv, Pays, PayingPcs
  <2>8. PaidOrSettling(t)'
    BY <2>4 DEF PaidOrSettling
  <2>9. \A v \in Workers : Collected(v)' <= Collected(v)
    <3>1. \A v \in Workers : Collected(v)' = Collected(v)
      BY <2>6 DEF Collected
    <3> QED
      BY <3>1, CollectedType
  <2>10. PoolHolds'
    BY <1>28, <2>2, <2>3, <2>4, <2>9, PoolStill DEF SettleInTransaction, envVars, FundedInv
  <2> QED
    BY <2>7, <2>8, <2>10 DEF FundedInv
<1>29. ASSUME NEW w \in Workers, SettleClaim(w)
      PROVE  FundedInv'
  <2>1. PICK t \in Payments : t = jobs[w].t
    BY <1>29 DEF SettleClaim, MarkSettled, At, TypeInv, JobsOK, JobOK
  <2>2. /\ \A v \in Workers \ {w} : jobs'[v] = jobs[v]
        /\ jobs[w].pc = "settleClaim" /\ jobs'[w].pc = "credit" /\ jobs'[w].t = t
    BY <1>29, <2>1 DEF SettleClaim, MarkSettled, At, Goto, TypeInv, JobsOK, Job
  <2>3. \A u \in Payments \ {t} : status'[u] = status[u]
    BY <1>29, <2>1 DEF SettleClaim, MarkSettled, TypeInv, RowsOK
  <2>4. pool' = pool /\ commissionPaid' = commissionPaid /\ envVars' = envVars
    BY <1>29 DEF SettleClaim, rowButStatus, moneyVars
  <2>5. \A u \in Payments \ {t} : PaidOrSettling(u)'
    BY <2>2, <2>3, <2>4, PaidOrSettlingStays, OwedStays DEF FundedInv, Pays, PayingPcs
  <2>6. PaidOrSettling(t)'
    BY <2>2 DEF PaidOrSettling, Pays, PayingPcs
  <2>7. \A v \in Workers : Collected(v)' <= Collected(v)
    <3>1. \A v \in Workers : Collected(v)' = Collected(v)
      BY <2>2 DEF Collected
    <3> QED
      BY <3>1, CollectedType
  <2>8. PoolHolds'
    BY <2>4, <2>7, PoolStill DEF FundedInv, envVars, TypeInv, MoneyOK
  <2> QED
    BY <2>5, <2>6, <2>8 DEF FundedInv
<1>30. ASSUME NEW w \in Workers, SettleCollect(w)
      PROVE  FundedInv'
  <2>1. PICK t \in Payments, z \in Nat : t = jobs[w].t /\ z = Charge[t]
    BY <1>30 DEF SettleCollect, At, TypeInv, JobsOK, JobOK
  <2>2. /\ \A v \in Workers \ {w} : jobs'[v] = jobs[v]
        /\ jobs[w].pc = "collect" /\ jobs'[w].pc = "payShare" /\ jobs'[w].t = t
    BY <1>30, <2>1 DEF SettleCollect, At, Goto, TypeInv, JobsOK, Job
  <2>3. status' = status /\ commissionPaid' = commissionPaid /\ envVars' = envVars
    BY <1>30 DEF SettleCollect, rowVars, rowButStatus
  <2>4. \A u \in Payments : PaidOrSettling(u)'
    BY <2>1, <2>2, <2>3, PaidOrSettlingStays, OwedStays DEF FundedInv, Pays, PayingPcs
  <2>5. Collected(w) = 0 /\ Collected(w)' = z
    BY <2>1, <2>2 DEF Collected
  <2>6. pool + z <= pool'
    <3>1. PICK q \in Nat : q = pool
      BY DEF TypeInv, MoneyOK
    <3>2. pool' = q + z
      BY <1>30, <2>1, <3>1 DEF SettleCollect
    <3> QED
      BY <3>1, <3>2
  <2>7. Collected(w)' = Collected(w) + z
    BY <2>5
  <2>8. PoolHolds'
    BY <2>2, <2>3, <2>6, <2>7, PoolMoves DEF FundedInv, envVars
  <2> QED
    BY <2>4, <2>8 DEF FundedInv
<1>31. ASSUME NEW w \in Workers, SettlePayShare(w)
      PROVE  FundedInv'
  <2>1. PICK t \in Payments, z \in Nat, x \in Nat, q \in Nat :
          t = jobs[w].t /\ z = Charge[t] /\ x = commissionPaise[t] /\ q = pool /\ x <= z
    BY <1>31 DEF SettlePayShare, At, TypeInv, JobsOK, JobOK, RowsOK, MoneyOK
  <2>2. Collected(w) = z
    BY <1>31, <2>1 DEF SettlePayShare, At, Collected
  <2>3. status' = status /\ commissionPaid' = commissionPaid /\ envVars' = envVars
    BY <1>31 DEF SettlePayShare, rowVars, rowButStatus
  <2>4. /\ \A v \in Workers \ {w} : jobs'[v] = jobs[v]
        /\ jobs[w].pc = "payShare"
    BY <1>31 DEF SettlePayShare, At, Goto, Finish, TypeInv, JobsOK
  <2>5. drawn = 0 => x <= q
    <3>1. PICK i \in Nat : i = Total(CollectedBy, Workers)
      BY CollectedSum
    <3>2. z <= i /\ (drawn = 0 => i <= q)
      BY <2>1, <2>2, <3>1, CollectedSum DEF FundedInv, PoolHolds
    <3> QED
      BY <2>1, <3>2
  <2>6. PICK d \in Int : d = 0 - z
    OBVIOUS
  <2>7. CASE x <= q
    <3>1. /\ jobs'[w].pc \in {"flag", "creditShare"} /\ jobs'[w].t = t
      BY <1>31, <2>1, <2>7 DEF SettlePayShare, Goto, TypeInv, JobsOK, Job
    <3>2. PICK y \in Nat : pool' = q - y /\ y <= z
      BY <1>31, <2>1, <2>7 DEF SettlePayShare
    <3>3. \A u \in Payments : PaidOrSettling(u)'
      BY <2>1, <2>3, <2>4, <3>1, PaidOrSettlingStays, OwedStays
      DEF FundedInv, Pays, PayingPcs
    <3>4. Collected(w)' = Collected(w) + d
      BY <2>1, <2>2, <2>6, <3>1 DEF Collected
    <3>5. pool + d <= pool'
      <4>1. q + d <= q - y
        BY <2>6, <3>2
      <4> QED
        BY <2>1, <3>2, <4>1
    <3>6. PoolHolds'
      BY <2>3, <2>4, <3>4, <3>5, PoolMoves DEF FundedInv, envVars
    <3> QED
      BY <3>3, <3>6 DEF FundedInv
  <2>8. CASE ~(x <= q)
    <3>1. drawn # 0 /\ drawn' = drawn
      BY <2>3, <2>5, <2>8 DEF envVars
    <3>2. PoolHolds'
      BY <3>1 DEF PoolHolds
    <3>3. pool' = pool /\ jobs'[w].pc = "idle"
      BY <1>31, <2>1, <2>8 DEF SettlePayShare, Finish, Idle, TypeInv, JobsOK
    <3>4. ~UseTransactions
      BY <2>1, <2>4 DEF SettledInv, PayoutOfOK, Settles, SettlingPcs
    <3>5. drawn' > 0
      BY <3>1 DEF TypeInv, HistoryOK
    <3>6. \A u \in Payments : MayBeOwed(u)'
      BY <3>4, <3>5 DEF MayBeOwed
    <3> QED
      BY <3>2, <3>6 DEF FundedInv, PaidOrSettling
  <2> QED
    BY <2>7, <2>8
<1>32. ASSUME NEW w \in Workers, SettleCreditShare(w)
      PROVE  FundedInv'
  <2>1. PICK t \in Payments : t = jobs[w].t
    BY <1>32 DEF SettleCreditShare, At, TypeInv, JobsOK, JobOK
  <2>2. /\ \A v \in Workers \ {w} : jobs'[v] = jobs[v]
        /\ jobs[w].pc = "creditShare" /\ jobs'[w].pc = "flag" /\ jobs'[w].t = t
    BY <1>32, <2>1 DEF SettleCreditShare, At, Goto, Finish, Idle, TypeInv, JobsOK, Job
  <2>3. /\ pool' = pool /\ status' = status /\ commissionPaid' = commissionPaid
        /\ envVars' = envVars
    BY <1>32 DEF SettleCreditShare, rowVars, rowButStatus
  <2>4. \A v \in Workers, u \in Payments : Pays(v, u) => Pays(v, u)'
    BY <2>1, <2>2 DEF Pays, PayingPcs
  <2>5. \A v \in Workers : Collected(v)' = Collected(v)
    BY <2>2 DEF Collected
  <2> QED
    BY <2>3, <2>4, <2>5, FundedStill, OwedStays DEF envVars
<1>33. ASSUME NEW w \in Workers, SettleCreditFails(w)
      PROVE  FundedInv'
  <2>1. PICK t \in Payments : t = jobs[w].t
    BY <1>33 DEF SettleCreditFails, At, TypeInv, JobsOK, JobOK
  <2>2. /\ \A v \in Workers \ {w} : jobs'[v] = jobs[v]
        /\ jobs[w].pc = "creditShare" /\ jobs'[w].pc = "collectBack" /\ jobs'[w].t = t
    BY <1>33, <2>1 DEF SettleCreditFails, At, Goto, Finish, Idle, TypeInv, JobsOK, Job
  <2>3. /\ pool' = pool /\ status' = status /\ commissionPaid' = commissionPaid
        /\ drawn' = drawn /\ crashes' = crashes
    BY <1>33 DEF SettleCreditFails, rowVars, rowButStatus, moneyVars
  <2>4. PICK n \in Nat : n = failures[t]
    BY DEF TypeInv, HistoryOK
  <2>5. failures'[t] > 0 /\ \A u \in Payments \ {t} : failures'[u] = failures[u]
    <3>1. n + 1 > 0
      OBVIOUS
    <3> QED
      BY <1>33, <2>1, <2>4, <3>1 DEF SettleCreditFails, WriteFails, TypeInv, HistoryOK
  <2>6. PaidOrSettling(t)'
    <3>1. ~UseTransactions
      BY <2>1, <2>2 DEF SettledInv, PayoutOfOK, Settles, SettlingPcs
    <3> QED
      BY <2>5, <3>1 DEF PaidOrSettling, MayBeOwed
  <2>7. ASSUME NEW u \in Payments \ {t}
        PROVE  PaidOrSettling(u)'
    <3>1. \A v \in Workers : Pays(v, u) => Pays(v, u)'
      BY <2>1, <2>2 DEF Pays
    <3> QED
      BY <2>3, <2>5, <3>1, PaidOrSettlingStays DEF FundedInv, MayBeOwed
  <2>8. \A v \in Workers : Collected(v)' <= Collected(v)
    <3>1. \A v \in Workers : Collected(v)' = Collected(v)
      BY <2>2 DEF Collected
    <3> QED
      BY <3>1, CollectedType
  <2>9. PoolHolds'
    BY <2>3, <2>8, PoolStill DEF FundedInv, TypeInv, MoneyOK
  <2> QED
    BY <2>6, <2>7, <2>9 DEF FundedInv
<1>34. ASSUME NEW w \in Workers, SettleEntryFails(w)
      PROVE  FundedInv'
  <2>1. PICK t \in Payments : t = jobs[w].t
    BY <1>34 DEF SettleEntryFails, At, TypeInv, JobsOK, JobOK
  <2>2. /\ \A v \in Workers \ {w} : jobs'[v] = jobs[v]
        /\ jobs[w].pc = "flag" /\ jobs'[w].pc = "collectBack" /\ jobs'[w].t = t
    BY <1>34, <2>1 DEF SettleEntryFails, At, Goto, Finish, Idle, TypeInv, JobsOK, Job
  <2>3. /\ pool' = pool /\ status' = status /\ commissionPaid' = commissionPaid
        /\ drawn' = drawn /\ crashes' = crashes
    BY <1>34 DEF SettleEntryFails, rowVars, rowButStatus, moneyVars
  <2>4. PICK n \in Nat : n = failures[t]
    BY DEF TypeInv, HistoryOK
  <2>5. failures'[t] > 0 /\ \A u \in Payments \ {t} : failures'[u] = failures[u]
    <3>1. n + 1 > 0
      OBVIOUS
    <3> QED
      BY <1>34, <2>1, <2>4, <3>1 DEF SettleEntryFails, WriteFails, TypeInv, HistoryOK
  <2>6. PaidOrSettling(t)'
    <3>1. ~UseTransactions
      BY <2>1, <2>2 DEF SettledInv, PayoutOfOK, Settles, SettlingPcs
    <3> QED
      BY <2>5, <3>1 DEF PaidOrSettling, MayBeOwed
  <2>7. ASSUME NEW u \in Payments \ {t}
        PROVE  PaidOrSettling(u)'
    <3>1. \A v \in Workers : Pays(v, u) => Pays(v, u)'
      BY <2>1, <2>2 DEF Pays
    <3> QED
      BY <2>3, <2>5, <3>1, PaidOrSettlingStays DEF FundedInv, MayBeOwed
  <2>8. \A v \in Workers : Collected(v)' <= Collected(v)
    <3>1. \A v \in Workers : Collected(v)' = Collected(v)
      BY <2>2 DEF Collected
    <3> QED
      BY <3>1, CollectedType
  <2>9. PoolHolds'
    BY <2>3, <2>8, PoolStill DEF FundedInv, TypeInv, MoneyOK
  <2> QED
    BY <2>6, <2>7, <2>9 DEF FundedInv
<1>35. ASSUME NEW w \in Workers, SettleCollectBack(w)
      PROVE  FundedInv'
  <2>1. PICK t \in Payments : t = jobs[w].t
    BY <1>35 DEF SettleCollectBack, At, TypeInv, JobsOK, JobOK
  <2>2. /\ \A v \in Workers \ {w} : jobs'[v] = jobs[v]
        /\ jobs[w].pc = "collectBack" /\ jobs'[w].pc = "idle"
    BY <1>35, <2>1 DEF SettleCollectBack, At, Goto, Finish, Idle, TypeInv, JobsOK, Job
  <2>3. /\ status' = status /\ commissionPaid' = commissionPaid
        /\ envVars' = envVars
    BY <1>35 DEF SettleCollectBack, rowVars, rowButStatus
  <2>4. \A u \in Payments : PaidOrSettling(u)'
    BY <2>1, <2>2, <2>3, PaidOrSettlingStays, OwedStays DEF FundedInv, Pays, PayingPcs
  <2>5. pool <= pool'
    <3>1. PICK q \in Nat, x \in Nat : q = pool /\ x = commissionPaise[t]
      BY DEF TypeInv, MoneyOK, RowsOK
    <3>2. pool' = q + x
      BY <1>35, <2>1, <3>1 DEF SettleCollectBack
    <3> QED
      BY <3>1, <3>2
  <2>6. \A v \in Workers : Collected(v)' <= Collected(v)
    <3>1. \A v \in Workers : Collected(v)' = Collected(v)
      BY <2>2 DEF Collected
    <3> QED
      BY <3>1, CollectedType
  <2>7. PoolHolds'
    BY <2>3, <2>5, <2>6, PoolStill DEF FundedInv, envVars
  <2> QED
    BY <2>4, <2>7 DEF FundedInv
<1>36. ASSUME NEW w \in Workers, SettleFlag(w)
      PROVE  FundedInv'
  <2>1. PICK t \in Payments : t = jobs[w].t
    BY <1>36 DEF SettleFlag, At, TypeInv, JobsOK, JobOK
  <2>2. /\ \A v \in Workers \ {w} : jobs'[v] = jobs[v]
        /\ jobs[w].pc = "flag" /\ jobs'[w].pc = "idle"
    BY <1>36, <2>1 DEF SettleFlag, At, Goto, Finish, Idle, TypeInv, JobsOK, Job
  <2>3. /\ commissionPaid'[t] /\ pool' = pool /\ status' = status /\ envVars' = envVars
        /\ \A u \in Payments \ {t} : commissionPaid'[u] = commissionPaid[u]
    BY <1>36, <2>1 DEF SettleFlag, TypeInv, RowsOK, moneyVars
  <2>4. \A u \in Payments \ {t} : PaidOrSettling(u)'
    BY <2>1, <2>2, <2>3, PaidOrSettlingStays, OwedStays DEF FundedInv, Pays
  <2>5. PaidOrSettling(t)'
    BY <2>3 DEF PaidOrSettling
  <2>6. \A v \in Workers : Collected(v)' <= Collected(v)
    <3>1. \A v \in Workers : Collected(v)' = Collected(v)
      BY <2>2 DEF Collected
    <3> QED
      BY <3>1, CollectedType
  <2>7. PoolHolds'
    BY <2>3, <2>6, PoolStill DEF FundedInv, TypeInv, MoneyOK, envVars
  <2> QED
    BY <2>4, <2>5, <2>7 DEF FundedInv
<1>37. ASSUME NEW w \in Workers, SettleAborts(w)
      PROVE  FundedInv'
  <2>1. PICK t \in Payments : t = jobs[w].t
    BY <1>37 DEF SettleAborts, At, TypeInv, JobsOK, JobOK
  <2>2. /\ \A v \in Workers \ {w} : jobs'[v] = jobs[v]
        /\ jobs[w].pc = "settleClaim" /\ jobs'[w].pc = "idle"
    BY <1>37, <2>1 DEF SettleAborts, At, Goto, Finish, Idle, TypeInv, JobsOK, Job
  <2>3. /\ pool' = pool /\ status' = status /\ commissionPaid' = commissionPaid
        /\ drawn' = drawn /\ UseTransactions
    BY <1>37 DEF SettleAborts, rowVars, rowButStatus, moneyVars
  <2>4. \A u \in Payments : MayBeOwed(u) => MayBeOwed(u)'
    BY <2>3 DEF MayBeOwed
  <2>5. \A v \in Workers, u \in Payments : Pays(v, u) => Pays(v, u)'
    BY <2>2 DEF Pays, PayingPcs
  <2>6. \A v \in Workers : Collected(v)' = Collected(v)
    BY <2>2 DEF Collected
  <2> QED
    BY <2>3, <2>4, <2>5, <2>6, FundedStill
<1>38. ASSUME NEW amount \in Withdrawals, DebitPool(amount)
      PROVE  FundedInv'
  <2>1. /\ jobs' = jobs /\ status' = status /\ commissionPaid' = commissionPaid
        /\ failures' = failures /\ crashes' = crashes
    BY <1>38 DEF DebitPool, rowVars, rowButStatus
  <2>2. drawn' > 0
    <3>1. PICK n \in Nat, a \in Nat : n = drawn /\ a = amount /\ a > 0
      BY DEF TypeInv, HistoryOK
    <3>2. drawn' = n + a
      BY <1>38, <3>1 DEF DebitPool
    <3> QED
      BY <3>1, <3>2
  <2>3. PoolHolds'
    BY <2>2 DEF PoolHolds
  <2>4. \A u \in Payments : MayBeOwed(u) => MayBeOwed(u)'
    BY <2>2 DEF MayBeOwed
  <2>5. \A u \in Payments : PaidOrSettling(u)'
    BY <2>1, <2>4, PaidOrSettlingStays DEF FundedInv, Pays
  <2> QED
    BY <2>3, <2>5 DEF FundedInv
<1>39. ASSUME NEW amount \in Fundings, FundPool(amount)
      PROVE  FundedInv'
  <2>1. /\ jobs' = jobs /\ status' = status /\ commissionPaid' = commissionPaid
        /\ drawn' = drawn /\ failures' = failures /\ crashes' = crashes
    BY <1>39 DEF FundPool, rowVars, rowButStatus
  <2>2. pool <= pool'
    <3>1. PICK n \in Nat, a \in Nat : n = pool /\ a = amount
      BY DEF TypeInv, MoneyOK
    <3>2. pool' = n + a
      BY <1>39, <3>1 DEF FundPool
    <3> QED
      BY <3>1, <3>2
  <2>3. \A v \in Workers : Collected(v)' <= Collected(v)
    <3>1. \A v \in Workers : Collected(v)' = Collected(v)
      BY <2>1 DEF Collected
    <3> QED
      BY <3>1, CollectedType
  <2>4. PoolHolds'
    BY <2>1, <2>2, <2>3, PoolStill DEF FundedInv
  <2>5. \A u \in Payments : PaidOrSettling(u)'
    BY <2>1, PaidOrSettlingStays DEF FundedInv, Pays, MayBeOwed
  <2> QED
    BY <2>4, <2>5 DEF FundedInv
<1> QED
  BY <1>1, <1>2, <1>3, <1>4, <1>5, <1>6, <1>7, <1>8, <1>9, <1>10, <1>11,
     <1>12, <1>13, <1>14, <1>15, <1>16, <1>17, <1>18, <1>19, <1>20, <1>21,
     <1>22, <1>23, <1>24, <1>25, <1>26, <1>27, <1>28, <1>29, <1>30, <1>31,
     <1>32, <1>33, <1>34, <1>35, <1>36, <1>37, <1>38, <1>39
  DEF Next, Request, Decision, JobStep, Workers

\* A settled pay-in that nothing is running on has paid its captain.  On a
\* server with transactions there is no exception, whatever others draw from the
\* pool, fails or stops.  On one without, only what others drew, a failed write
\* of its own or a stop can leave it unpaid: pay-ins alone, however they
\* overlap, never leave each other without a share.
THEOREM CommissionIsPaid == Spec => []CommissionIsFunded
<1>1. TypeInv /\ Init => FundedInv
  BY FundedInit
<1>2. TypeInv /\ TypeInv' /\ SettledInv /\ FundedInv /\ [Next]_vars => FundedInv'
  BY FundedStep
<1>3. FundedInv => CommissionIsFunded
  BY DEF FundedInv, PaidOrSettling, Pays, CommissionIsFunded
<1> QED
  BY <1>1, <1>2, <1>3, TypeInvariant, SettledInvariant, PTL DEF Spec

-----------------------------------------------------------------------------
(* Claims *)

\* Nobody acts on a pay-in between its claim and the hold, and nothing running
\* is forgotten.
Undisrupted == PromptAssignment /\ MaxCrashes = 0

\* The job of w has claimed t, and the hold is still due.
HoldDue(w, t) == jobs[w].t = t /\ jobs[w].pc \in UnheldPcs

ClaimStands(w, t) == HoldDue(w, t) => status[t] = "ASSIGNED" /\ captainId[t] = jobs[w].c

ClaimsStand == \A w \in Workers, t \in Payments : ClaimStands(w, t)

LEMMA NoCrash ==
  ASSUME Undisrupted, TypeInv, Crash
  PROVE  FALSE
<1>1. PICK n \in Nat, m \in Nat : n = crashes /\ m = MaxCrashes
  BY DEF TypeInv, HistoryOK
<1>2. n < m /\ m = 0
  BY <1>1 DEF Crash, Undisrupted
<1> QED
  BY <1>1, <1>2

\* Only one job assigns t, so a claim that is due is that job's.
LEMMA OneClaim ==
  ASSUME CarriedInv, NEW w \in Workers, NEW t \in Payments, Assigns(w, t)
  PROVE  \A v \in Workers \ {w} : ~HoldDue(v, t)
BY DEF CarriedInv, CarriedOf, Assigns, AssigningPcs, HoldDue

\* If nobody acts on a claim that is due.
LEMMA UndisturbedHasNoClaim ==
  ASSUME Undisrupted, NEW t \in Payments, Undisturbed(t)
  PROVE  \A v \in Workers : ~HoldDue(v, t)
BY DEF Undisrupted, Undisturbed, HoldDue

\* The row of t changes; no claim of it is due.
LEMMA ClaimsOff ==
  ASSUME ClaimsStand, NEW t \in Payments,
         \A u \in Payments \ {t} : status'[u] = status[u] /\ captainId'[u] = captainId[u],
         \A v \in Workers : ~(HoldDue(v, t)'),
         \A v \in Workers : jobs'[v] = jobs[v] \/ jobs'[v].pc \notin UnheldPcs
  PROVE  ClaimsStand'
BY DEF ClaimsStand, ClaimStands, HoldDue

\* No row changes.
LEMMA ClaimsEverywhere ==
  ASSUME ClaimsStand, \A u \in Payments : status'[u] = status[u] /\ captainId'[u] = captainId[u],
         \A v \in Workers, u \in Payments :
           HoldDue(v, u)' => HoldDue(v, u) /\ jobs'[v].c = jobs[v].c
  PROVE  ClaimsStand'
BY DEF ClaimsStand, ClaimStands

LEMMA ClaimsInit == Init => ClaimsStand
BY DEF Init, ClaimsStand, ClaimStands, HoldDue, UnheldPcs, Idle

LEMMA ClaimsStep ==
  ASSUME Undisrupted, TypeInv, CarriedInv, ClaimsStand, [Next]_vars
  PROVE  ClaimsStand'
<1>1. ASSUME NEW w \in Workers, NEW c \in Captains, Route(w, c)
      PROVE  ClaimsStand'
  <2>1. status' = status /\ captainId' = captainId
    BY <1>1 DEF Route, Eligible, rowVars, rowButStatus
  <2>2. \A v \in Workers \ {w} : jobs'[v] = jobs[v]
    BY <1>1 DEF TypeInv, JobsOK, Route, Eligible, Begin, Goto, Finish
  <2>3. jobs'[w].pc \notin UnheldPcs
    BY <1>1
    DEF TypeInv, JobsOK, Job, Route, Eligible, At, Begin, Goto, Finish, Idle,
        UnheldPcs
  <2> QED
    BY <2>1, <2>2, <2>3, ClaimsEverywhere DEF HoldDue
<1>2. ASSUME NEW w \in Workers, NotRouted(w)
      PROVE  ClaimsStand'
  <2>1. status' = status /\ captainId' = captainId
    BY <1>2 DEF NotRouted, rowVars, rowButStatus
  <2>2. \A v \in Workers \ {w} : jobs'[v] = jobs[v]
    BY <1>2 DEF TypeInv, JobsOK, NotRouted, Begin, Goto, Finish
  <2>3. jobs'[w].pc \notin UnheldPcs
    BY <1>2
    DEF TypeInv, JobsOK, Job, NotRouted, At, Begin, Goto, Finish, Idle,
        UnheldPcs
  <2> QED
    BY <2>1, <2>2, <2>3, ClaimsEverywhere DEF HoldDue
<1>3. ASSUME NEW w \in Workers, AssignHold(w)
      PROVE  ClaimsStand'
  <2>1. status' = status /\ captainId' = captainId
    BY <1>3 DEF AssignHold, TakeHold, WithinCurrentLimit, rowVars, rowButStatus
  <2>2. \A v \in Workers \ {w} : jobs'[v] = jobs[v]
    BY <1>3
    DEF TypeInv, JobsOK, AssignHold, TakeHold, WithinCurrentLimit, Begin,
        Goto, Finish
  <2>3. jobs[w].pc \in UnheldPcs /\ jobs'[w].t = jobs[w].t /\ jobs'[w].c = jobs[w].c
    BY <1>3
    DEF TypeInv, JobsOK, Job, AssignHold, TakeHold, WithinCurrentLimit, At,
        Begin, Goto, Finish, Idle, UnheldPcs
  <2> QED
    BY <2>1, <2>2, <2>3, ClaimsEverywhere DEF HoldDue
<1>4. ASSUME NEW w \in Workers, AssignLost(w)
      PROVE  ClaimsStand'
  <2>1. status' = status /\ captainId' = captainId
    BY <1>4 DEF AssignLost, rowVars, rowButStatus
  <2>2. \A v \in Workers \ {w} : jobs'[v] = jobs[v]
    BY <1>4 DEF TypeInv, JobsOK, AssignLost, Begin, Goto, Finish
  <2>3. jobs'[w].pc \notin UnheldPcs
    BY <1>4
    DEF TypeInv, JobsOK, Job, AssignLost, At, Begin, Goto, Finish, Idle,
        UnheldPcs
  <2> QED
    BY <2>1, <2>2, <2>3, ClaimsEverywhere DEF HoldDue
<1>5. ASSUME NEW w \in Workers, Release(w)
      PROVE  ClaimsStand'
  <2>1. status' = status /\ captainId' = captainId
    BY <1>5 DEF Release, GiveBack, rowVars, rowButStatus
  <2>2. \A v \in Workers \ {w} : jobs'[v] = jobs[v]
    BY <1>5 DEF TypeInv, JobsOK, Release, GiveBack, Begin, Goto, Finish
  <2>3. jobs'[w].pc \notin UnheldPcs
    BY <1>5
    DEF TypeInv, JobsOK, Job, Release, GiveBack, At, Begin, Goto, Finish,
        Idle, UnheldPcs
  <2> QED
    BY <2>1, <2>2, <2>3, ClaimsEverywhere DEF HoldDue
<1>6. ASSUME NEW w \in Workers, SettleRead(w)
      PROVE  ClaimsStand'
  <2>1. status' = status /\ captainId' = captainId
    BY <1>6 DEF SettleRead, rowVars, rowButStatus
  <2>2. \A v \in Workers \ {w} : jobs'[v] = jobs[v]
    BY <1>6 DEF TypeInv, JobsOK, SettleRead, Begin, Goto, Finish
  <2>3. jobs'[w].pc \notin UnheldPcs
    BY <1>6
    DEF TypeInv, JobsOK, Job, SettleRead, At, Begin, Goto, Finish, Idle,
        UnheldPcs
  <2> QED
    BY <2>1, <2>2, <2>3, ClaimsEverywhere DEF HoldDue
<1>7. ASSUME NEW w \in Workers, SettleLost(w)
      PROVE  ClaimsStand'
  <2>1. status' = status /\ captainId' = captainId
    BY <1>7 DEF SettleLost, rowVars, rowButStatus
  <2>2. \A v \in Workers \ {w} : jobs'[v] = jobs[v]
    BY <1>7 DEF TypeInv, JobsOK, SettleLost, Begin, Goto, Finish
  <2>3. jobs'[w].pc \notin UnheldPcs
    BY <1>7
    DEF TypeInv, JobsOK, Job, SettleLost, At, Begin, Goto, Finish, Idle,
        UnheldPcs
  <2> QED
    BY <2>1, <2>2, <2>3, ClaimsEverywhere DEF HoldDue
<1>8. ASSUME NEW w \in Workers, SettleCredit(w)
      PROVE  ClaimsStand'
  <2>1. status' = status /\ captainId' = captainId
    BY <1>8 DEF SettleCredit, rowVars, rowButStatus
  <2>2. \A v \in Workers \ {w} : jobs'[v] = jobs[v]
    BY <1>8 DEF TypeInv, JobsOK, SettleCredit, Begin, Goto, Finish
  <2>3. jobs'[w].pc \notin UnheldPcs
    BY <1>8
    DEF TypeInv, JobsOK, Job, SettleCredit, At, Begin, Goto, Finish, Idle,
        UnheldPcs
  <2> QED
    BY <2>1, <2>2, <2>3, ClaimsEverywhere DEF HoldDue
<1>9. ASSUME NEW w \in Workers, SettleCollect(w)
      PROVE  ClaimsStand'
  <2>1. status' = status /\ captainId' = captainId
    BY <1>9 DEF SettleCollect, rowVars, rowButStatus
  <2>2. \A v \in Workers \ {w} : jobs'[v] = jobs[v]
    BY <1>9 DEF TypeInv, JobsOK, SettleCollect, Begin, Goto, Finish
  <2>3. jobs'[w].pc \notin UnheldPcs
    BY <1>9
    DEF TypeInv, JobsOK, Job, SettleCollect, At, Begin, Goto, Finish, Idle,
        UnheldPcs
  <2> QED
    BY <2>1, <2>2, <2>3, ClaimsEverywhere DEF HoldDue
<1>10. ASSUME NEW w \in Workers, SettlePayShare(w)
      PROVE  ClaimsStand'
  <2>1. status' = status /\ captainId' = captainId
    BY <1>10 DEF SettlePayShare, rowVars, rowButStatus
  <2>2. \A v \in Workers \ {w} : jobs'[v] = jobs[v]
    BY <1>10 DEF TypeInv, JobsOK, SettlePayShare, Begin, Goto, Finish
  <2>3. jobs'[w].pc \notin UnheldPcs
    BY <1>10
    DEF TypeInv, JobsOK, Job, SettlePayShare, At, Begin, Goto, Finish, Idle,
        UnheldPcs
  <2> QED
    BY <2>1, <2>2, <2>3, ClaimsEverywhere DEF HoldDue
<1>11. ASSUME NEW w \in Workers, SettleCreditShare(w)
      PROVE  ClaimsStand'
  <2>1. status' = status /\ captainId' = captainId
    BY <1>11 DEF SettleCreditShare, rowVars, rowButStatus
  <2>2. \A v \in Workers \ {w} : jobs'[v] = jobs[v]
    BY <1>11 DEF TypeInv, JobsOK, SettleCreditShare, Begin, Goto, Finish
  <2>3. jobs'[w].pc \notin UnheldPcs
    BY <1>11
    DEF TypeInv, JobsOK, Job, SettleCreditShare, At, Begin, Goto, Finish,
        Idle, UnheldPcs
  <2> QED
    BY <2>1, <2>2, <2>3, ClaimsEverywhere DEF HoldDue
<1>12. ASSUME NEW w \in Workers, NEW t \in Payments, SweepList(w, t)
      PROVE  ClaimsStand'
  <2>1. status' = status /\ captainId' = captainId
    BY <1>12 DEF SweepList, rowVars, rowButStatus
  <2>2. \A v \in Workers \ {w} : jobs'[v] = jobs[v]
    BY <1>12 DEF TypeInv, JobsOK, SweepList, Begin, Goto, Finish
  <2>3. jobs'[w].pc \notin UnheldPcs
    BY <1>12
    DEF TypeInv, JobsOK, Job, SweepList, At, Begin, Goto, Finish, Idle,
        UnheldPcs
  <2> QED
    BY <2>1, <2>2, <2>3, ClaimsEverywhere DEF HoldDue
<1>13. ASSUME NEW w \in Workers, ExpireRead(w)
      PROVE  ClaimsStand'
  <2>1. status' = status /\ captainId' = captainId
    BY <1>13 DEF ExpireRead, rowVars, rowButStatus
  <2>2. \A v \in Workers \ {w} : jobs'[v] = jobs[v]
    BY <1>13 DEF TypeInv, JobsOK, ExpireRead, Begin, Goto, Finish
  <2>3. jobs'[w].pc \notin UnheldPcs
    BY <1>13
    DEF TypeInv, JobsOK, Job, ExpireRead, At, Begin, Goto, Finish, Idle,
        UnheldPcs
  <2> QED
    BY <2>1, <2>2, <2>3, ClaimsEverywhere DEF HoldDue
<1>14. ASSUME NEW w \in Workers, ExpireLost(w)
      PROVE  ClaimsStand'
  <2>1. status' = status /\ captainId' = captainId
    BY <1>14 DEF ExpireLost, rowVars, rowButStatus
  <2>2. \A v \in Workers \ {w} : jobs'[v] = jobs[v]
    BY <1>14 DEF TypeInv, JobsOK, ExpireLost, Begin, Goto, Finish
  <2>3. jobs'[w].pc \notin UnheldPcs
    BY <1>14
    DEF TypeInv, JobsOK, Job, ExpireLost, At, Begin, Goto, Finish, Idle,
        UnheldPcs
  <2> QED
    BY <2>1, <2>2, <2>3, ClaimsEverywhere DEF HoldDue
<1>15. ASSUME NEW w \in Workers, NEW t \in Payments, ResolveSettle(w, t)
      PROVE  ClaimsStand'
  <2>1. status' = status /\ captainId' = captainId
    BY <1>15 DEF ResolveSettle, rowVars, rowButStatus
  <2>2. \A v \in Workers \ {w} : jobs'[v] = jobs[v]
    BY <1>15 DEF TypeInv, JobsOK, ResolveSettle, Begin, Goto, Finish
  <2>3. jobs'[w].pc \notin UnheldPcs
    BY <1>15
    DEF TypeInv, JobsOK, Job, ResolveSettle, At, Begin, Goto, Finish, Idle,
        UnheldPcs
  <2> QED
    BY <2>1, <2>2, <2>3, ClaimsEverywhere DEF HoldDue
<1>16. ASSUME NEW w \in Workers, NEW t \in Payments, ResolveRelease(w, t)
      PROVE  ClaimsStand'
  <2>1. status' = status /\ captainId' = captainId
    BY <1>16 DEF ResolveRelease, rowVars, rowButStatus
  <2>2. \A v \in Workers \ {w} : jobs'[v] = jobs[v]
    BY <1>16 DEF TypeInv, JobsOK, ResolveRelease, Begin, Goto, Finish
  <2>3. jobs'[w].pc \notin UnheldPcs
    BY <1>16
    DEF TypeInv, JobsOK, Job, ResolveRelease, At, Begin, Goto, Finish, Idle,
        UnheldPcs
  <2> QED
    BY <2>1, <2>2, <2>3, ClaimsEverywhere DEF HoldDue
<1>17. ASSUME NEW t \in Payments, WindowCloses(t)
      PROVE  ClaimsStand'
  <2>1. status' = status /\ captainId' = captainId
    BY <1>17 DEF WindowCloses, rowVars, rowButStatus
  <2>2. jobs' = jobs
    BY <1>17 DEF WindowCloses
  <2> QED
    BY <2>1, <2>2, ClaimsEverywhere DEF HoldDue
<1>18. ASSUME UNCHANGED vars
      PROVE  ClaimsStand'
  BY <1>18, ClaimsEverywhere DEF HoldDue, vars, rowVars, rowButStatus
<1>19. ASSUME Crash
      PROVE  ClaimsStand'
  BY <1>19, NoCrash
<1>20. ASSUME NEW w \in Workers, NEW t \in Payments, Create(w, t)
      PROVE  ClaimsStand'
  <2>2. \A u \in Payments \ {t} : status'[u] = status[u] /\ captainId'[u] = captainId[u]
    BY <1>20 DEF Create, TypeInv, RowsOK, rowVars, rowButStatus
  <2>3. \A v \in Workers : ~HoldDue(v, t)
    <3>1. status[t] # "ASSIGNED"
      BY <1>20
      DEF Create, At, TypeInv, JobsOK, JobOK, CanTransition,
          TRANSACTION_TRANSITIONS, TRANSACTION_STATES
    <3> QED
      BY <3>1 DEF ClaimsStand, ClaimStands
  <2>4. /\ \A v \in Workers \ {w} : jobs'[v] = jobs[v]
        /\ jobs'[w].pc \notin UnheldPcs
    BY <1>20
    DEF TypeInv, JobsOK, Job, Create, At, Begin, Goto, Finish, Idle, UnheldPcs
  <2> QED
    BY <2>2, <2>3, <2>4, ClaimsOff DEF HoldDue
<1>21. ASSUME NEW w \in Workers, PutBack(w)
      PROVE  ClaimsStand'
  <2>1. PICK t \in Payments : t = jobs[w].t
    BY <1>21 DEF PutBack, HandBack, At, TypeInv, JobsOK, JobOK, UnheldPcs
  <2>2. \A u \in Payments \ {t} : status'[u] = status[u] /\ captainId'[u] = captainId[u]
    BY <1>21, <2>1 DEF PutBack, HandBack, TypeInv, RowsOK, rowVars, rowButStatus
  <2>3. \A v \in Workers : ~HoldDue(v, t) \/ v = w
    <3>1. Assigns(w, t)
      BY <1>21, <2>1 DEF PutBack, HandBack, At, Assigns, AssigningPcs, UnheldPcs
    <3> QED
      BY <3>1, OneClaim
  <2>4. /\ \A v \in Workers \ {w} : jobs'[v] = jobs[v]
        /\ jobs'[w].pc \notin UnheldPcs
    BY <1>21
    DEF TypeInv, JobsOK, Job, PutBack, HandBack, At, Begin, Goto, Finish,
        Idle, UnheldPcs
  <2> QED
    BY <2>2, <2>3, <2>4, ClaimsOff DEF HoldDue
<1>22. ASSUME NEW w \in Workers, Open(w)
      PROVE  ClaimsStand'
  <2>1. PICK t \in Payments : t = jobs[w].t
    BY <1>22 DEF Open, At, TypeInv, JobsOK, JobOK, UnheldPcs
  <2>2. \A u \in Payments \ {t} : status'[u] = status[u] /\ captainId'[u] = captainId[u]
    BY <1>22, <2>1 DEF Open, TypeInv, RowsOK, rowVars, rowButStatus
  <2>3. \A v \in Workers : ~HoldDue(v, t) \/ v = w
    <3>1. Assigns(w, t)
      BY <1>22, <2>1 DEF Open, At, Assigns, AssigningPcs, UnheldPcs
    <3> QED
      BY <3>1, OneClaim
  <2>4. /\ \A v \in Workers \ {w} : jobs'[v] = jobs[v]
        /\ jobs'[w].pc \notin UnheldPcs
    BY <1>22
    DEF TypeInv, JobsOK, Job, Open, At, Begin, Goto, Finish, Idle, UnheldPcs
  <2> QED
    BY <2>2, <2>3, <2>4, ClaimsOff DEF HoldDue
<1>23. ASSUME NEW t \in Payments, NEW c \in Captains, DeclineInTransaction(t, c)
      PROVE  ClaimsStand'
  <2>2. \A u \in Payments \ {t} : status'[u] = status[u] /\ captainId'[u] = captainId[u]
    BY <1>23
    DEF DeclineInTransaction, Declined, HandBack, GiveBack, TypeInv, RowsOK,
        rowVars, rowButStatus
  <2>3. \A v \in Workers : ~HoldDue(v, t)
    <3>1. Undisturbed(t)
      BY <1>23 DEF DeclineInTransaction, Declined, HandBack, GiveBack
    <3> QED
      BY <3>1, UndisturbedHasNoClaim
  <2>4. jobs' = jobs
    BY <1>23 DEF DeclineInTransaction, Declined, HandBack, GiveBack
  <2> QED
    BY <2>2, <2>3, <2>4, ClaimsOff DEF HoldDue
<1>24. ASSUME NEW w \in Workers, NEW t \in Payments, NEW c \in Captains, Decline(w, t, c)
      PROVE  ClaimsStand'
  <2>2. \A u \in Payments \ {t} : status'[u] = status[u] /\ captainId'[u] = captainId[u]
    BY <1>24
    DEF Decline, Declined, HandBack, TypeInv, RowsOK, rowVars, rowButStatus
  <2>3. \A v \in Workers : ~HoldDue(v, t)
    <3>1. Undisturbed(t)
      BY <1>24 DEF Decline, Declined, HandBack
    <3> QED
      BY <3>1, UndisturbedHasNoClaim
  <2>4. /\ \A v \in Workers \ {w} : jobs'[v] = jobs[v]
        /\ jobs'[w].pc \notin UnheldPcs
    BY <1>24
    DEF TypeInv, JobsOK, Job, Decline, Declined, HandBack, At, Begin, Goto,
        Finish, Idle, UnheldPcs
  <2> QED
    BY <2>2, <2>3, <2>4, ClaimsOff DEF HoldDue
<1>25. ASSUME NEW w \in Workers, NEW t \in Payments, Webhook(w, t)
      PROVE  ClaimsStand'
  <2>2. \A u \in Payments \ {t} : status'[u] = status[u] /\ captainId'[u] = captainId[u]
    BY <1>25 DEF Webhook, TypeInv, RowsOK, rowVars, rowButStatus
  <2>3. \A v \in Workers : ~HoldDue(v, t)
    <3>1. status[t] # "ASSIGNED"
      BY <1>25
      DEF Webhook, At, TypeInv, JobsOK, JobOK, CanTransition,
          TRANSACTION_TRANSITIONS, TRANSACTION_STATES
    <3> QED
      BY <3>1 DEF ClaimsStand, ClaimStands
  <2>4. /\ \A v \in Workers \ {w} : jobs'[v] = jobs[v]
        /\ jobs'[w].pc \notin UnheldPcs
    BY <1>25
    DEF TypeInv, JobsOK, Job, Webhook, At, Begin, Goto, Finish, Idle,
        UnheldPcs
  <2> QED
    BY <2>2, <2>3, <2>4, ClaimsOff DEF HoldDue
<1>26. ASSUME NEW t \in Payments, Dispute(t)
      PROVE  ClaimsStand'
  <2>2. \A u \in Payments \ {t} : status'[u] = status[u] /\ captainId'[u] = captainId[u]
    BY <1>26 DEF Dispute, TypeInv, RowsOK, rowVars, rowButStatus
  <2>3. \A v \in Workers : ~HoldDue(v, t)
    <3>1. status[t] # "ASSIGNED"
      BY <1>26
      DEF Dispute, At, TypeInv, JobsOK, JobOK, CanTransition,
          TRANSACTION_TRANSITIONS, TRANSACTION_STATES
    <3> QED
      BY <3>1 DEF ClaimsStand, ClaimStands
  <2>4. jobs' = jobs
    BY <1>26 DEF Dispute
  <2> QED
    BY <2>2, <2>3, <2>4, ClaimsOff DEF HoldDue
<1>27. ASSUME NEW w \in Workers, SettleInTransaction(w)
      PROVE  ClaimsStand'
  <2>1. PICK t \in Payments : t = jobs[w].t
    BY <1>27
    DEF SettleInTransaction, MarkSettled, At, TypeInv, JobsOK, JobOK,
        UnheldPcs
  <2>2. \A u \in Payments \ {t} : status'[u] = status[u] /\ captainId'[u] = captainId[u]
    BY <1>27, <2>1
    DEF SettleInTransaction, MarkSettled, TypeInv, RowsOK, rowVars,
        rowButStatus
  <2>3. \A v \in Workers : ~HoldDue(v, t)
    <3>1. status[t] # "ASSIGNED"
      BY <1>27, <2>1
      DEF SettleInTransaction, MarkSettled, At, TypeInv, JobsOK, JobOK,
          CanTransition, TRANSACTION_TRANSITIONS, TRANSACTION_STATES
    <3> QED
      BY <3>1 DEF ClaimsStand, ClaimStands
  <2>4. /\ \A v \in Workers \ {w} : jobs'[v] = jobs[v]
        /\ jobs'[w].pc \notin UnheldPcs
    BY <1>27
    DEF TypeInv, JobsOK, Job, SettleInTransaction, MarkSettled, At, Begin,
        Goto, Finish, Idle, UnheldPcs
  <2> QED
    BY <2>2, <2>3, <2>4, ClaimsOff DEF HoldDue
<1>28. ASSUME NEW w \in Workers, SettleClaim(w)
      PROVE  ClaimsStand'
  <2>1. PICK t \in Payments : t = jobs[w].t
    BY <1>28 DEF SettleClaim, MarkSettled, At, TypeInv, JobsOK, JobOK, UnheldPcs
  <2>2. \A u \in Payments \ {t} : status'[u] = status[u] /\ captainId'[u] = captainId[u]
    BY <1>28, <2>1
    DEF SettleClaim, MarkSettled, TypeInv, RowsOK, rowVars, rowButStatus
  <2>3. \A v \in Workers : ~HoldDue(v, t)
    <3>1. status[t] # "ASSIGNED"
      BY <1>28, <2>1
      DEF SettleClaim, MarkSettled, At, TypeInv, JobsOK, JobOK, CanTransition,
          TRANSACTION_TRANSITIONS, TRANSACTION_STATES
    <3> QED
      BY <3>1 DEF ClaimsStand, ClaimStands
  <2>4. /\ \A v \in Workers \ {w} : jobs'[v] = jobs[v]
        /\ jobs'[w].pc \notin UnheldPcs
    BY <1>28
    DEF TypeInv, JobsOK, Job, SettleClaim, MarkSettled, At, Begin, Goto,
        Finish, Idle, UnheldPcs
  <2> QED
    BY <2>2, <2>3, <2>4, ClaimsOff DEF HoldDue
<1>29. ASSUME NEW w \in Workers, ExpireInTransaction(w)
      PROVE  ClaimsStand'
  <2>1. PICK t \in Payments : t = jobs[w].t
    BY <1>29
    DEF ExpireInTransaction, MarkExpired, WasHeld, GiveBack, At, TypeInv,
        JobsOK, JobOK, UnheldPcs
  <2>2. \A u \in Payments \ {t} : status'[u] = status[u] /\ captainId'[u] = captainId[u]
    BY <1>29, <2>1
    DEF ExpireInTransaction, MarkExpired, WasHeld, GiveBack, TypeInv, RowsOK,
        rowVars, rowButStatus
  <2>3. \A v \in Workers : ~HoldDue(v, t)
    <3>1. Undisturbed(t)
      BY <1>29, <2>1 DEF ExpireInTransaction, MarkExpired, WasHeld, GiveBack
    <3> QED
      BY <3>1, UndisturbedHasNoClaim
  <2>4. /\ \A v \in Workers \ {w} : jobs'[v] = jobs[v]
        /\ jobs'[w].pc \notin UnheldPcs
    BY <1>29
    DEF TypeInv, JobsOK, Job, ExpireInTransaction, MarkExpired, WasHeld,
        GiveBack, At, Begin, Goto, Finish, Idle, UnheldPcs
  <2> QED
    BY <2>2, <2>3, <2>4, ClaimsOff DEF HoldDue
<1>30. ASSUME NEW w \in Workers, ExpireClaim(w)
      PROVE  ClaimsStand'
  <2>1. PICK t \in Payments : t = jobs[w].t
    BY <1>30
    DEF ExpireClaim, MarkExpired, WasHeld, At, TypeInv, JobsOK, JobOK,
        UnheldPcs
  <2>2. \A u \in Payments \ {t} : status'[u] = status[u] /\ captainId'[u] = captainId[u]
    BY <1>30, <2>1
    DEF ExpireClaim, MarkExpired, WasHeld, TypeInv, RowsOK, rowVars,
        rowButStatus
  <2>3. \A v \in Workers : ~HoldDue(v, t)
    <3>1. Undisturbed(t)
      BY <1>30, <2>1 DEF ExpireClaim, MarkExpired, WasHeld
    <3> QED
      BY <3>1, UndisturbedHasNoClaim
  <2>4. /\ \A v \in Workers \ {w} : jobs'[v] = jobs[v]
        /\ jobs'[w].pc \notin UnheldPcs
    BY <1>30
    DEF TypeInv, JobsOK, Job, ExpireClaim, MarkExpired, WasHeld, At, Begin,
        Goto, Finish, Idle, UnheldPcs
  <2> QED
    BY <2>2, <2>3, <2>4, ClaimsOff DEF HoldDue
<1>31. ASSUME NEW w \in Workers, AssignInTransaction(w)
      PROVE  ClaimsStand'
  <2>1. PICK t \in Payments, c \in Captains : t = jobs[w].t /\ c = jobs[w].c
    BY <1>31 DEF AssignInTransaction, At, TypeInv, JobsOK, JobOK
  <2>2. /\ status[t] = "CREATED" /\ status'[t] = "ASSIGNED" /\ captainId'[t] = c
        /\ \A u \in Payments \ {t} : status'[u] = status[u] /\ captainId'[u] = captainId[u]
    BY <1>31, <2>1 DEF AssignInTransaction, AssignTo, TypeInv, RowsOK
  <2>3. /\ \A v \in Workers \ {w} : jobs'[v] = jobs[v]
        /\ jobs'[w].t = t /\ jobs'[w].c = c
    BY <1>31, <2>1 DEF AssignInTransaction, TakeHold, Goto, TypeInv, JobsOK, Job
  <2>4. \A v \in Workers \ {w} : ClaimStands(v, t)'
    BY <2>2, <2>3 DEF ClaimsStand, ClaimStands, HoldDue
  <2>5. \A v \in Workers \ {w}, u \in Payments \ {t} : ClaimStands(v, u)'
    BY <2>2, <2>3 DEF ClaimsStand, ClaimStands, HoldDue
  <2>6. \A u \in Payments : ClaimStands(w, u)'
    BY <2>2, <2>3 DEF ClaimStands, HoldDue
  <2> QED
    BY <2>4, <2>5, <2>6 DEF ClaimsStand
<1>32. ASSUME NEW w \in Workers, AssignClaim(w)
      PROVE  ClaimsStand'
  <2>1. PICK t \in Payments, c \in Captains : t = jobs[w].t /\ c = jobs[w].c
    BY <1>32 DEF AssignClaim, At, TypeInv, JobsOK, JobOK
  <2>2. /\ status[t] = "CREATED" /\ status'[t] = "ASSIGNED" /\ captainId'[t] = c
        /\ \A u \in Payments \ {t} : status'[u] = status[u] /\ captainId'[u] = captainId[u]
    BY <1>32, <2>1 DEF AssignClaim, AssignTo, TypeInv, RowsOK
  <2>3. /\ \A v \in Workers \ {w} : jobs'[v] = jobs[v]
        /\ jobs'[w].t = t /\ jobs'[w].c = c
    BY <1>32, <2>1 DEF AssignClaim, TakeHold, Goto, TypeInv, JobsOK, Job
  <2>4. \A v \in Workers \ {w} : ClaimStands(v, t)'
    BY <2>2, <2>3 DEF ClaimsStand, ClaimStands, HoldDue
  <2>5. \A v \in Workers \ {w}, u \in Payments \ {t} : ClaimStands(v, u)'
    BY <2>2, <2>3 DEF ClaimsStand, ClaimStands, HoldDue
  <2>6. \A u \in Payments : ClaimStands(w, u)'
    BY <2>2, <2>3 DEF ClaimStands, HoldDue
  <2> QED
    BY <2>4, <2>5, <2>6 DEF ClaimsStand
<1>33. ASSUME NEW w \in Workers, SettleCreditFails(w)
      PROVE  ClaimsStand'
  <2>1. status' = status /\ captainId' = captainId
    BY <1>33 DEF SettleCreditFails, rowVars, rowButStatus
  <2>2. \A v \in Workers \ {w} : jobs'[v] = jobs[v]
    BY <1>33 DEF TypeInv, JobsOK, SettleCreditFails, Begin, Goto, Finish
  <2>3. jobs'[w].pc \notin UnheldPcs
    BY <1>33
    DEF TypeInv, JobsOK, Job, SettleCreditFails, At, Begin, Goto, Finish, Idle,
        UnheldPcs
  <2> QED
    BY <2>1, <2>2, <2>3, ClaimsEverywhere DEF HoldDue
<1>34. ASSUME NEW w \in Workers, SettleEntryFails(w)
      PROVE  ClaimsStand'
  <2>1. status' = status /\ captainId' = captainId
    BY <1>34 DEF SettleEntryFails, rowVars, rowButStatus
  <2>2. \A v \in Workers \ {w} : jobs'[v] = jobs[v]
    BY <1>34 DEF TypeInv, JobsOK, SettleEntryFails, Begin, Goto, Finish
  <2>3. jobs'[w].pc \notin UnheldPcs
    BY <1>34
    DEF TypeInv, JobsOK, Job, SettleEntryFails, At, Begin, Goto, Finish, Idle,
        UnheldPcs
  <2> QED
    BY <2>1, <2>2, <2>3, ClaimsEverywhere DEF HoldDue
<1>35. ASSUME NEW w \in Workers, SettleCollectBack(w)
      PROVE  ClaimsStand'
  <2>1. status' = status /\ captainId' = captainId
    BY <1>35 DEF SettleCollectBack, rowVars, rowButStatus
  <2>2. \A v \in Workers \ {w} : jobs'[v] = jobs[v]
    BY <1>35 DEF TypeInv, JobsOK, SettleCollectBack, Begin, Goto, Finish
  <2>3. jobs'[w].pc \notin UnheldPcs
    BY <1>35
    DEF TypeInv, JobsOK, Job, SettleCollectBack, At, Begin, Goto, Finish, Idle,
        UnheldPcs
  <2> QED
    BY <2>1, <2>2, <2>3, ClaimsEverywhere DEF HoldDue
<1>36. ASSUME NEW w \in Workers, SettleFlag(w)
      PROVE  ClaimsStand'
  <2>1. status' = status /\ captainId' = captainId
    BY <1>36 DEF SettleFlag, rowVars, rowButStatus
  <2>2. \A v \in Workers \ {w} : jobs'[v] = jobs[v]
    BY <1>36 DEF TypeInv, JobsOK, SettleFlag, Begin, Goto, Finish
  <2>3. jobs'[w].pc \notin UnheldPcs
    BY <1>36
    DEF TypeInv, JobsOK, Job, SettleFlag, At, Begin, Goto, Finish, Idle,
        UnheldPcs
  <2> QED
    BY <2>1, <2>2, <2>3, ClaimsEverywhere DEF HoldDue
<1>37. ASSUME NEW w \in Workers, SettleAborts(w)
      PROVE  ClaimsStand'
  <2>1. status' = status /\ captainId' = captainId
    BY <1>37 DEF SettleAborts, rowVars, rowButStatus
  <2>2. \A v \in Workers \ {w} : jobs'[v] = jobs[v]
    BY <1>37 DEF TypeInv, JobsOK, SettleAborts, Begin, Goto, Finish
  <2>3. jobs'[w].pc \notin UnheldPcs
    BY <1>37
    DEF TypeInv, JobsOK, Job, SettleAborts, At, Begin, Goto, Finish, Idle,
        UnheldPcs
  <2> QED
    BY <2>1, <2>2, <2>3, ClaimsEverywhere DEF HoldDue
<1>38. ASSUME NEW amount \in Withdrawals, DebitPool(amount)
      PROVE  ClaimsStand'
  <2>1. status' = status /\ captainId' = captainId
    BY <1>38 DEF DebitPool, rowVars, rowButStatus
  <2>2. jobs' = jobs
    BY <1>38 DEF DebitPool
  <2> QED
    BY <2>1, <2>2, ClaimsEverywhere DEF HoldDue
<1>39. ASSUME NEW amount \in Fundings, FundPool(amount)
      PROVE  ClaimsStand'
  <2>1. status' = status /\ captainId' = captainId
    BY <1>39 DEF FundPool, rowVars, rowButStatus
  <2>2. jobs' = jobs
    BY <1>39 DEF FundPool
  <2> QED
    BY <2>1, <2>2, ClaimsEverywhere DEF HoldDue
<1> QED
  BY <1>1, <1>2, <1>3, <1>4, <1>5, <1>6, <1>7, <1>8, <1>9, <1>10, <1>11,
     <1>12, <1>13, <1>14, <1>15, <1>16, <1>17, <1>18, <1>19, <1>20, <1>21,
     <1>22, <1>23, <1>24, <1>25, <1>26, <1>27, <1>28, <1>29, <1>30, <1>31,
     <1>32, <1>33, <1>34, <1>35, <1>36, <1>37, <1>38, <1>39
  DEF Next, Request, Decision, JobStep, Workers

LEMMA ClaimsInvariant == ASSUME Undisrupted PROVE Spec => []ClaimsStand
<1>1. Init => ClaimsStand
  BY ClaimsInit
<1>2. TypeInv /\ CarriedInv /\ ClaimsStand /\ [Next]_vars => ClaimsStand'
  BY ClaimsStep
<1> QED
  BY <1>1, <1>2, TypeInvariant, CarriedInvariant, PTL DEF Spec

-----------------------------------------------------------------------------
(* Holds *)

\* A captain carries a pay-in while it is theirs, and after it was settled.
Carries(t, c) == captainId[t] = c /\ status[t] \in TRANSACTION_HELD_STATES \cup {"SETTLED"}
Carried(t, c) == IF Carries(t, c) THEN 1 ELSE 0

DueBy(t, c) == [w \in Workers |-> Due(w, t, c)]
DueSum(t, c) == Total(DueBy(t, c), Workers)

HoldMatches(t, c) == hold[t][c] = Carried(t, c) + DueSum(t, c)

LEMMA HoldsMatchPairwise ==
  HoldsMatchCarriers <=> \A t \in Payments, c \in Captains : HoldMatches(t, c)
BY DEF HoldsMatchCarriers, HoldMatches, DueOn, Carried, Carries, DueSum, DueBy

LEMMA HoldsMatchPairwiseNext ==
  (HoldsMatchCarriers <=> \A t \in Payments, c \in Captains : HoldMatches(t, c))'
BY HoldsMatchPairwise, PTL

LEMMA DueIsInt == \A w \in Workers, t \in Payments, c \in Captains : Due(w, t, c) \in Int
BY DEF Due

LEMMA DueSumIsInt ==
  ASSUME NEW t \in Payments, NEW c \in Captains
  PROVE  DueSum(t, c) \in Int
<1>1. \A w \in Workers : DueBy(t, c)[w] \in Int
  BY DueIsInt DEF DueBy
<1> QED
  BY <1>1, PayInFiniteAssumption, TotalInt DEF DueSum

\* What a job is due concerns the pay-in and the captain it names.
Concerns(w, t, c) ==
  jobs[w].pc \in UnheldPcs \cup {"release"} => jobs[w].t = t /\ jobs[w].c = c

LEMMA DueElsewhere ==
  ASSUME NEW w, NEW t, NEW c, Concerns(w, t, c), NEW u, NEW d, u # t \/ d # c
  PROVE  Due(w, u, d) = 0
<1>1. CASE jobs[w].t # u \/ jobs[w].c # d
  BY <1>1 DEF Due
<1>2. CASE jobs[w].t = u /\ jobs[w].c = d
  <2>1. jobs[w].pc \notin UnheldPcs \cup {"release"}
    BY <1>2 DEF Concerns
  <2> QED
    BY <1>2, <2>1 DEF Due
<1> QED
  BY <1>1, <1>2

\* A step that leaves t with c as it is.
LEMMA HoldStays ==
  ASSUME NEW t \in Payments, NEW c \in Captains, HoldMatches(t, c),
         Carried(t, c)' = Carried(t, c), hold'[t][c] = hold[t][c],
         \A w \in Workers : Due(w, t, c)' = Due(w, t, c)
  PROVE  HoldMatches(t, c)'
<1>1. DueBy(t, c)' = DueBy(t, c)
  BY DEF DueBy
<1> QED
  BY <1>1 DEF HoldMatches, DueSum

\* A step of the job of w that changes what c has with t.
LEMMA HoldMoves ==
  ASSUME TypeInv, TypeInv', NEW t \in Payments, NEW c \in Captains, HoldMatches(t, c),
         NEW w \in Workers,
         \A v \in Workers \ {w} : jobs'[v] = jobs[v],
         hold'[t][c] - hold[t][c]
           = Carried(t, c)' - Carried(t, c) + Due(w, t, c)' - Due(w, t, c)
  PROVE  HoldMatches(t, c)'
<1> DEFINE g == [v \in Workers |-> Due(v, t, c)']
<1>1. \A v \in Workers : g[v] \in Int /\ DueBy(t, c)[v] \in Int
  BY DEF DueBy, Due
<1>2. \A v \in Workers \ {w} : g[v] = DueBy(t, c)[v]
  BY DEF DueBy, Due
<1>3. Total(g, Workers) = DueSum(t, c) + g[w] - DueBy(t, c)[w]
  BY <1>1, <1>2, PayInFiniteAssumption, TotalOneChanges DEF DueSum
<1>4. g = DueBy(t, c)'
  BY DEF DueBy
<1>5. PICK x \in Int, y \in Int : x = Due(w, t, c) /\ y = Due(w, t, c)'
  BY DEF Due
<1>6. g[w] = y /\ DueBy(t, c)[w] = x
  BY <1>5 DEF DueBy
<1>7. PICK s \in Int : s = DueSum(t, c)
  BY DueSumIsInt
<1>8. DueSum(t, c)' = s + y - x
  BY <1>3, <1>4, <1>6, <1>7 DEF DueSum
<1>9. PICK k \in Int, l \in Int : k = Carried(t, c) /\ l = Carried(t, c)'
  BY DEF Carried
<1>10. PICK i \in Int : i = hold[t][c]
  BY DEF TypeInv, HistoryOK
<1>11. i = k + s
  BY <1>7, <1>9, <1>10 DEF HoldMatches
<1>12. hold'[t][c] - i = l - k + y - x
  BY <1>5, <1>9, <1>10
<1>13. PICK j \in Int : j = hold'[t][c]
  BY DEF TypeInv, HistoryOK
<1>14. j = l + (s + y - x)
  BY <1>10, <1>11, <1>12, <1>13
<1> QED
  BY <1>8, <1>9, <1>13, <1>14 DEF HoldMatches

\* A step of the job of w that concerns t and c, and no other pay-in or captain.
OnlyPair(w, t, c) ==
  /\ \A v \in Workers \ {w} : jobs'[v] = jobs[v]
  /\ \A u \in Payments \ {t} : RowStays(u)
  /\ \A d \in Captains \ {c} : hold'[t][d] = hold[t][d] /\ Carries(t, d)' = Carries(t, d)
  /\ Concerns(w, t, c) /\ Concerns(w, t, c)'

LEMMA PairMoves ==
  ASSUME TypeInv, TypeInv', HoldsMatchCarriers, NEW w \in Workers, NEW t \in Payments,
         NEW c \in Captains, OnlyPair(w, t, c),
         hold'[t][c] - hold[t][c]
           = Carried(t, c)' - Carried(t, c) + Due(w, t, c)' - Due(w, t, c)
  PROVE  HoldsMatchCarriers'
<1>1. \A u \in Payments, d \in Captains : HoldMatches(u, d)
  BY HoldsMatchPairwise
<1>2. HoldMatches(t, c)'
  BY <1>1, HoldMoves DEF OnlyPair
<1>3. ASSUME NEW u \in Payments, NEW d \in Captains, u # t \/ d # c
      PROVE  HoldMatches(u, d)'
  <2>1. Due(w, u, d) = 0 /\ Due(w, u, d)' = 0
    <3>1. Due(w, u, d) = 0
      BY <1>3, DueElsewhere DEF OnlyPair
    <3>2. Due(w, u, d)' = 0
      <4>1. CASE jobs'[w].t # u \/ jobs'[w].c # d
        BY <4>1 DEF Due
      <4>2. CASE jobs'[w].t = u /\ jobs'[w].c = d
        <5>1. jobs'[w].pc \notin UnheldPcs \cup {"release"}
          BY <1>3, <4>2 DEF OnlyPair, Concerns
        <5> QED
          BY <4>2, <5>1 DEF Due
      <4> QED
        BY <4>1, <4>2
    <3> QED
      BY <3>1, <3>2
  <2>2. \A v \in Workers : Due(v, u, d)' = Due(v, u, d)
    BY <2>1 DEF OnlyPair, Due
  <2>3. hold'[u][d] = hold[u][d] /\ Carried(u, d)' = Carried(u, d)
    <3>1. CASE u # t
      BY <3>1 DEF OnlyPair, RowStays, Carried, Carries
    <3>2. CASE u = t
      BY <1>3, <3>2 DEF OnlyPair, Carried
    <3> QED
      BY <3>1, <3>2
  <2> QED
    BY <1>1, <2>2, <2>3, HoldStays
<1>4. \A u \in Payments, d \in Captains : HoldMatches(u, d)'
  BY <1>2, <1>3
<1> QED
  BY <1>4, HoldsMatchPairwiseNext

\* A step that concerns t and c and no job.
LEMMA PairUnmoved ==
  ASSUME TypeInv, TypeInv', HoldsMatchCarriers, NEW t \in Payments, NEW c \in Captains,
         jobs' = jobs, \A u \in Payments \ {t} : RowStays(u),
         \A d \in Captains \ {c} : hold'[t][d] = hold[t][d] /\ Carries(t, d)' = Carries(t, d),
         hold'[t][c] = hold[t][c] - 1, Carried(t, c) = 1, Carried(t, c)' = 0
  PROVE  HoldsMatchCarriers'
<1>1. \A u \in Payments, d \in Captains : HoldMatches(u, d)
  BY HoldsMatchPairwise
<1>2. \A u \in Payments, d \in Captains, v \in Workers : Due(v, u, d)' = Due(v, u, d)
  BY DEF Due
<1>3. ASSUME NEW u \in Payments, NEW d \in Captains
      PROVE  HoldMatches(u, d)'
  <2>1. CASE u # t
    BY <1>1, <1>2, <2>1, HoldStays DEF RowStays, Carried, Carries
  <2>2. CASE u = t /\ d # c
    BY <1>1, <1>2, <2>2, HoldStays DEF Carried
  <2>3. CASE u = t /\ d = c
    <3>1. DueBy(t, c)' = DueBy(t, c)
      BY <1>2 DEF DueBy
    <3>2. PICK s \in Int, i \in Int : s = DueSum(t, c) /\ i = hold[t][c]
      BY DueSumIsInt DEF TypeInv, HistoryOK
    <3>3. i = 1 + s /\ hold'[t][c] = i - 1
      BY <1>1, <3>2 DEF HoldMatches
    <3>4. i - 1 = 0 + s
      BY <3>2, <3>3
    <3> QED
      BY <2>3, <3>1, <3>2, <3>3, <3>4 DEF HoldMatches, DueSum
  <2> QED
    BY <2>1, <2>2, <2>3
<1> QED
  BY <1>3, HoldsMatchPairwiseNext

\* Neither jobs nor rows change what is due or carried.
LEMMA HoldsStay ==
  ASSUME HoldsMatchCarriers, hold' = hold, captainId' = captainId,
         \A t \in Payments : status'[t] \in TRANSACTION_HELD_STATES \cup {"SETTLED"}
                             <=> status[t] \in TRANSACTION_HELD_STATES \cup {"SETTLED"},
         \A v \in Workers : \/ jobs'[v] = jobs[v]
                            \/ /\ jobs[v].pc \notin UnheldPcs \cup {"release"}
                               /\ jobs'[v].pc \notin UnheldPcs \cup {"release"}
  PROVE  HoldsMatchCarriers'
<1> USE HoldsMatchPairwise
<1>1. ASSUME NEW u \in Payments, NEW d \in Captains
      PROVE  HoldMatches(u, d)'
  <2>1. HoldMatches(u, d)
    OBVIOUS
  <2>2. \A v \in Workers : Due(v, u, d)' = Due(v, u, d)
    BY DEF Due, UnheldPcs
  <2>3. Carried(u, d)' = Carried(u, d)
    BY DEF Carried, Carries
  <2> QED
    BY <2>1, <2>2, <2>3, HoldStays
<1> QED
  BY <1>1, HoldsMatchPairwiseNext

LEMMA HoldsInit == Init => HoldsMatchCarriers
<1> SUFFICES ASSUME Init, NEW t \in Payments, NEW c \in Captains
             PROVE  HoldMatches(t, c)
  BY HoldsMatchPairwise
<1>1. \A w \in Workers : DueBy(t, c)[w] = 0
  BY DEF Init, Idle, DueBy, Due, UnheldPcs
<1>2. DueSum(t, c) = 0
  BY <1>1, PayInFiniteAssumption, TotalZero DEF DueSum
<1>3. hold[t][c] = 0 /\ Carried(t, c) = 0
  BY DEF Init, Carried, Carries, TRANSACTION_HELD_STATES
<1> QED
  BY <1>2, <1>3 DEF HoldMatches

LEMMA HoldsStep ==
  ASSUME Undisrupted, TypeInv, TypeInv', CarriedInv, ClaimsStand, HoldsMatchCarriers, [Next]_vars
  PROVE  HoldsMatchCarriers'
<1>1. ASSUME NEW w \in Workers, NEW t \in Payments, Create(w, t)
      PROVE  HoldsMatchCarriers'
  <2>1. hold' = hold /\ captainId' = captainId
    BY <1>1 DEF Create, rowVars, rowButStatus, moneyVars, historyVars
  <2>2. \A u \in Payments : status'[u] \in TRANSACTION_HELD_STATES \cup {"SETTLED"}
                             <=> status[u] \in TRANSACTION_HELD_STATES \cup {"SETTLED"}
    BY <1>1
    DEF Create, At, TypeInv, RowsOK, JobsOK, JobOK, UnheldPcs,
        TRANSACTION_HELD_STATES, rowVars, rowButStatus, moneyVars, historyVars
  <2>3. /\ \A v \in Workers \ {w} : jobs'[v] = jobs[v]
        /\ jobs[w].pc \notin UnheldPcs \cup {"release"}
        /\ jobs'[w].pc \notin UnheldPcs \cup {"release"}
    BY <1>1
    DEF Create, TypeInv, JobsOK, Job, At, Begin, Goto, Finish, Idle, UnheldPcs
  <2> QED
    BY <2>1, <2>2, <2>3, HoldsStay
<1>2. ASSUME NEW w \in Workers, NEW c \in Captains, Route(w, c)
      PROVE  HoldsMatchCarriers'
  <2>1. hold' = hold /\ captainId' = captainId
    BY <1>2 DEF Route, Eligible, rowVars, rowButStatus, moneyVars, historyVars
  <2>2. \A u \in Payments : status'[u] \in TRANSACTION_HELD_STATES \cup {"SETTLED"}
                             <=> status[u] \in TRANSACTION_HELD_STATES \cup {"SETTLED"}
    BY <1>2
    DEF Route, Eligible, At, TypeInv, RowsOK, JobsOK, JobOK, UnheldPcs,
        TRANSACTION_HELD_STATES, rowVars, rowButStatus, moneyVars, historyVars
  <2>3. /\ \A v \in Workers \ {w} : jobs'[v] = jobs[v]
        /\ jobs[w].pc \notin UnheldPcs \cup {"release"}
        /\ jobs'[w].pc \notin UnheldPcs \cup {"release"}
    BY <1>2
    DEF Route, Eligible, TypeInv, JobsOK, Job, At, Begin, Goto, Finish, Idle,
        UnheldPcs
  <2> QED
    BY <2>1, <2>2, <2>3, HoldsStay
<1>3. ASSUME NEW w \in Workers, NotRouted(w)
      PROVE  HoldsMatchCarriers'
  <2>1. hold' = hold /\ captainId' = captainId
    BY <1>3 DEF NotRouted, rowVars, rowButStatus, moneyVars, historyVars
  <2>2. \A u \in Payments : status'[u] \in TRANSACTION_HELD_STATES \cup {"SETTLED"}
                             <=> status[u] \in TRANSACTION_HELD_STATES \cup {"SETTLED"}
    BY <1>3
    DEF NotRouted, At, TypeInv, RowsOK, JobsOK, JobOK, UnheldPcs,
        TRANSACTION_HELD_STATES, rowVars, rowButStatus, moneyVars, historyVars
  <2>3. /\ \A v \in Workers \ {w} : jobs'[v] = jobs[v]
        /\ jobs[w].pc \notin UnheldPcs \cup {"release"}
        /\ jobs'[w].pc \notin UnheldPcs \cup {"release"}
    BY <1>3
    DEF NotRouted, TypeInv, JobsOK, Job, At, Begin, Goto, Finish, Idle,
        UnheldPcs
  <2> QED
    BY <2>1, <2>2, <2>3, HoldsStay
<1>4. ASSUME NEW w \in Workers, AssignLost(w)
      PROVE  HoldsMatchCarriers'
  <2>1. hold' = hold /\ captainId' = captainId
    BY <1>4 DEF AssignLost, rowVars, rowButStatus, moneyVars, historyVars
  <2>2. \A u \in Payments : status'[u] \in TRANSACTION_HELD_STATES \cup {"SETTLED"}
                             <=> status[u] \in TRANSACTION_HELD_STATES \cup {"SETTLED"}
    BY <1>4
    DEF AssignLost, At, TypeInv, RowsOK, JobsOK, JobOK, UnheldPcs,
        TRANSACTION_HELD_STATES, rowVars, rowButStatus, moneyVars, historyVars
  <2>3. /\ \A v \in Workers \ {w} : jobs'[v] = jobs[v]
        /\ jobs[w].pc \notin UnheldPcs \cup {"release"}
        /\ jobs'[w].pc \notin UnheldPcs \cup {"release"}
    BY <1>4
    DEF AssignLost, TypeInv, JobsOK, Job, At, Begin, Goto, Finish, Idle,
        UnheldPcs
  <2> QED
    BY <2>1, <2>2, <2>3, HoldsStay
<1>5. ASSUME NEW w \in Workers, Open(w)
      PROVE  HoldsMatchCarriers'
  <2>1. hold' = hold /\ captainId' = captainId
    BY <1>5 DEF Open, rowVars, rowButStatus, moneyVars, historyVars
  <2>2. \A u \in Payments : status'[u] \in TRANSACTION_HELD_STATES \cup {"SETTLED"}
                             <=> status[u] \in TRANSACTION_HELD_STATES \cup {"SETTLED"}
    BY <1>5
    DEF Open, At, TypeInv, RowsOK, JobsOK, JobOK, UnheldPcs,
        TRANSACTION_HELD_STATES, rowVars, rowButStatus, moneyVars, historyVars
  <2>3. /\ \A v \in Workers \ {w} : jobs'[v] = jobs[v]
        /\ jobs[w].pc \notin UnheldPcs \cup {"release"}
        /\ jobs'[w].pc \notin UnheldPcs \cup {"release"}
    BY <1>5
    DEF Open, TypeInv, JobsOK, Job, At, Begin, Goto, Finish, Idle, UnheldPcs
  <2> QED
    BY <2>1, <2>2, <2>3, HoldsStay
<1>6. ASSUME NEW w \in Workers, NEW t \in Payments, Webhook(w, t)
      PROVE  HoldsMatchCarriers'
  <2>1. hold' = hold /\ captainId' = captainId
    BY <1>6 DEF Webhook, rowVars, rowButStatus, moneyVars, historyVars
  <2>2. \A u \in Payments : status'[u] \in TRANSACTION_HELD_STATES \cup {"SETTLED"}
                             <=> status[u] \in TRANSACTION_HELD_STATES \cup {"SETTLED"}
    BY <1>6
    DEF Webhook, At, TypeInv, RowsOK, JobsOK, JobOK, UnheldPcs,
        TRANSACTION_HELD_STATES, rowVars, rowButStatus, moneyVars, historyVars
  <2>3. /\ \A v \in Workers \ {w} : jobs'[v] = jobs[v]
        /\ jobs[w].pc \notin UnheldPcs \cup {"release"}
        /\ jobs'[w].pc \notin UnheldPcs \cup {"release"}
    BY <1>6
    DEF Webhook, TypeInv, JobsOK, Job, At, Begin, Goto, Finish, Idle,
        UnheldPcs
  <2> QED
    BY <2>1, <2>2, <2>3, HoldsStay
<1>7. ASSUME NEW w \in Workers, SettleRead(w)
      PROVE  HoldsMatchCarriers'
  <2>1. hold' = hold /\ captainId' = captainId
    BY <1>7 DEF SettleRead, rowVars, rowButStatus, moneyVars, historyVars
  <2>2. \A u \in Payments : status'[u] \in TRANSACTION_HELD_STATES \cup {"SETTLED"}
                             <=> status[u] \in TRANSACTION_HELD_STATES \cup {"SETTLED"}
    BY <1>7
    DEF SettleRead, At, TypeInv, RowsOK, JobsOK, JobOK, UnheldPcs,
        TRANSACTION_HELD_STATES, rowVars, rowButStatus, moneyVars, historyVars
  <2>3. /\ \A v \in Workers \ {w} : jobs'[v] = jobs[v]
        /\ jobs[w].pc \notin UnheldPcs \cup {"release"}
        /\ jobs'[w].pc \notin UnheldPcs \cup {"release"}
    BY <1>7
    DEF SettleRead, TypeInv, JobsOK, Job, At, Begin, Goto, Finish, Idle,
        UnheldPcs
  <2> QED
    BY <2>1, <2>2, <2>3, HoldsStay
<1>8. ASSUME NEW w \in Workers, SettleInTransaction(w)
      PROVE  HoldsMatchCarriers'
  <2>1. hold' = hold /\ captainId' = captainId
    BY <1>8
    DEF SettleInTransaction, MarkSettled, rowVars, rowButStatus, moneyVars,
        historyVars
  <2>2. \A u \in Payments : status'[u] \in TRANSACTION_HELD_STATES \cup {"SETTLED"}
                             <=> status[u] \in TRANSACTION_HELD_STATES \cup {"SETTLED"}
    BY <1>8
    DEF SettleInTransaction, MarkSettled, At, TypeInv, RowsOK, JobsOK, JobOK,
        UnheldPcs, TRANSACTION_HELD_STATES, rowVars, rowButStatus, moneyVars,
        historyVars
  <2>3. /\ \A v \in Workers \ {w} : jobs'[v] = jobs[v]
        /\ jobs[w].pc \notin UnheldPcs \cup {"release"}
        /\ jobs'[w].pc \notin UnheldPcs \cup {"release"}
    BY <1>8
    DEF SettleInTransaction, MarkSettled, TypeInv, JobsOK, Job, At, Begin,
        Goto, Finish, Idle, UnheldPcs
  <2> QED
    BY <2>1, <2>2, <2>3, HoldsStay
<1>9. ASSUME NEW w \in Workers, SettleClaim(w)
      PROVE  HoldsMatchCarriers'
  <2>1. hold' = hold /\ captainId' = captainId
    BY <1>9
    DEF SettleClaim, MarkSettled, rowVars, rowButStatus, moneyVars,
        historyVars
  <2>2. \A u \in Payments : status'[u] \in TRANSACTION_HELD_STATES \cup {"SETTLED"}
                             <=> status[u] \in TRANSACTION_HELD_STATES \cup {"SETTLED"}
    BY <1>9
    DEF SettleClaim, MarkSettled, At, TypeInv, RowsOK, JobsOK, JobOK,
        UnheldPcs, TRANSACTION_HELD_STATES, rowVars, rowButStatus, moneyVars,
        historyVars
  <2>3. /\ \A v \in Workers \ {w} : jobs'[v] = jobs[v]
        /\ jobs[w].pc \notin UnheldPcs \cup {"release"}
        /\ jobs'[w].pc \notin UnheldPcs \cup {"release"}
    BY <1>9
    DEF SettleClaim, MarkSettled, TypeInv, JobsOK, Job, At, Begin, Goto,
        Finish, Idle, UnheldPcs
  <2> QED
    BY <2>1, <2>2, <2>3, HoldsStay
<1>10. ASSUME NEW w \in Workers, SettleLost(w)
      PROVE  HoldsMatchCarriers'
  <2>1. hold' = hold /\ captainId' = captainId
    BY <1>10 DEF SettleLost, rowVars, rowButStatus, moneyVars, historyVars
  <2>2. \A u \in Payments : status'[u] \in TRANSACTION_HELD_STATES \cup {"SETTLED"}
                             <=> status[u] \in TRANSACTION_HELD_STATES \cup {"SETTLED"}
    BY <1>10
    DEF SettleLost, At, TypeInv, RowsOK, JobsOK, JobOK, UnheldPcs,
        TRANSACTION_HELD_STATES, rowVars, rowButStatus, moneyVars, historyVars
  <2>3. /\ \A v \in Workers \ {w} : jobs'[v] = jobs[v]
        /\ jobs[w].pc \notin UnheldPcs \cup {"release"}
        /\ jobs'[w].pc \notin UnheldPcs \cup {"release"}
    BY <1>10
    DEF SettleLost, TypeInv, JobsOK, Job, At, Begin, Goto, Finish, Idle,
        UnheldPcs
  <2> QED
    BY <2>1, <2>2, <2>3, HoldsStay
<1>11. ASSUME NEW w \in Workers, SettleCredit(w)
      PROVE  HoldsMatchCarriers'
  <2>1. hold' = hold /\ captainId' = captainId
    BY <1>11 DEF SettleCredit, rowVars, rowButStatus, moneyVars, historyVars
  <2>2. \A u \in Payments : status'[u] \in TRANSACTION_HELD_STATES \cup {"SETTLED"}
                             <=> status[u] \in TRANSACTION_HELD_STATES \cup {"SETTLED"}
    BY <1>11
    DEF SettleCredit, At, TypeInv, RowsOK, JobsOK, JobOK, UnheldPcs,
        TRANSACTION_HELD_STATES, rowVars, rowButStatus, moneyVars, historyVars
  <2>3. /\ \A v \in Workers \ {w} : jobs'[v] = jobs[v]
        /\ jobs[w].pc \notin UnheldPcs \cup {"release"}
        /\ jobs'[w].pc \notin UnheldPcs \cup {"release"}
    BY <1>11
    DEF SettleCredit, TypeInv, JobsOK, Job, At, Begin, Goto, Finish, Idle,
        UnheldPcs
  <2> QED
    BY <2>1, <2>2, <2>3, HoldsStay
<1>12. ASSUME NEW w \in Workers, SettleCollect(w)
      PROVE  HoldsMatchCarriers'
  <2>1. hold' = hold /\ captainId' = captainId
    BY <1>12 DEF SettleCollect, rowVars, rowButStatus, moneyVars, historyVars
  <2>2. \A u \in Payments : status'[u] \in TRANSACTION_HELD_STATES \cup {"SETTLED"}
                             <=> status[u] \in TRANSACTION_HELD_STATES \cup {"SETTLED"}
    BY <1>12
    DEF SettleCollect, At, TypeInv, RowsOK, JobsOK, JobOK, UnheldPcs,
        TRANSACTION_HELD_STATES, rowVars, rowButStatus, moneyVars, historyVars
  <2>3. /\ \A v \in Workers \ {w} : jobs'[v] = jobs[v]
        /\ jobs[w].pc \notin UnheldPcs \cup {"release"}
        /\ jobs'[w].pc \notin UnheldPcs \cup {"release"}
    BY <1>12
    DEF SettleCollect, TypeInv, JobsOK, Job, At, Begin, Goto, Finish, Idle,
        UnheldPcs
  <2> QED
    BY <2>1, <2>2, <2>3, HoldsStay
<1>13. ASSUME NEW w \in Workers, SettlePayShare(w)
      PROVE  HoldsMatchCarriers'
  <2>1. hold' = hold /\ captainId' = captainId
    BY <1>13 DEF SettlePayShare, rowVars, rowButStatus, moneyVars, historyVars
  <2>2. \A u \in Payments : status'[u] \in TRANSACTION_HELD_STATES \cup {"SETTLED"}
                             <=> status[u] \in TRANSACTION_HELD_STATES \cup {"SETTLED"}
    BY <1>13
    DEF SettlePayShare, At, TypeInv, RowsOK, JobsOK, JobOK, UnheldPcs,
        TRANSACTION_HELD_STATES, rowVars, rowButStatus, moneyVars, historyVars
  <2>3. /\ \A v \in Workers \ {w} : jobs'[v] = jobs[v]
        /\ jobs[w].pc \notin UnheldPcs \cup {"release"}
        /\ jobs'[w].pc \notin UnheldPcs \cup {"release"}
    BY <1>13
    DEF SettlePayShare, TypeInv, JobsOK, Job, At, Begin, Goto, Finish, Idle,
        UnheldPcs
  <2> QED
    BY <2>1, <2>2, <2>3, HoldsStay
<1>14. ASSUME NEW w \in Workers, SettleCreditShare(w)
      PROVE  HoldsMatchCarriers'
  <2>1. hold' = hold /\ captainId' = captainId
    BY <1>14 DEF SettleCreditShare, rowVars, rowButStatus, moneyVars, historyVars
  <2>2. \A u \in Payments : status'[u] \in TRANSACTION_HELD_STATES \cup {"SETTLED"}
                             <=> status[u] \in TRANSACTION_HELD_STATES \cup {"SETTLED"}
    BY <1>14
    DEF SettleCreditShare, At, TypeInv, RowsOK, JobsOK, JobOK, UnheldPcs,
        TRANSACTION_HELD_STATES, rowVars, rowButStatus, moneyVars, historyVars
  <2>3. /\ \A v \in Workers \ {w} : jobs'[v] = jobs[v]
        /\ jobs[w].pc \notin UnheldPcs \cup {"release"}
        /\ jobs'[w].pc \notin UnheldPcs \cup {"release"}
    BY <1>14
    DEF SettleCreditShare, TypeInv, JobsOK, Job, At, Begin, Goto, Finish,
        Idle, UnheldPcs
  <2> QED
    BY <2>1, <2>2, <2>3, HoldsStay
<1>15. ASSUME NEW w \in Workers, NEW t \in Payments, SweepList(w, t)
      PROVE  HoldsMatchCarriers'
  <2>1. hold' = hold /\ captainId' = captainId
    BY <1>15 DEF SweepList, rowVars, rowButStatus, moneyVars, historyVars
  <2>2. \A u \in Payments : status'[u] \in TRANSACTION_HELD_STATES \cup {"SETTLED"}
                             <=> status[u] \in TRANSACTION_HELD_STATES \cup {"SETTLED"}
    BY <1>15
    DEF SweepList, At, TypeInv, RowsOK, JobsOK, JobOK, UnheldPcs,
        TRANSACTION_HELD_STATES, rowVars, rowButStatus, moneyVars, historyVars
  <2>3. /\ \A v \in Workers \ {w} : jobs'[v] = jobs[v]
        /\ jobs[w].pc \notin UnheldPcs \cup {"release"}
        /\ jobs'[w].pc \notin UnheldPcs \cup {"release"}
    BY <1>15
    DEF SweepList, TypeInv, JobsOK, Job, At, Begin, Goto, Finish, Idle,
        UnheldPcs
  <2> QED
    BY <2>1, <2>2, <2>3, HoldsStay
<1>16. ASSUME NEW w \in Workers, ExpireRead(w)
      PROVE  HoldsMatchCarriers'
  <2>1. hold' = hold /\ captainId' = captainId
    BY <1>16 DEF ExpireRead, rowVars, rowButStatus, moneyVars, historyVars
  <2>2. \A u \in Payments : status'[u] \in TRANSACTION_HELD_STATES \cup {"SETTLED"}
                             <=> status[u] \in TRANSACTION_HELD_STATES \cup {"SETTLED"}
    BY <1>16
    DEF ExpireRead, At, TypeInv, RowsOK, JobsOK, JobOK, UnheldPcs,
        TRANSACTION_HELD_STATES, rowVars, rowButStatus, moneyVars, historyVars
  <2>3. /\ \A v \in Workers \ {w} : jobs'[v] = jobs[v]
        /\ jobs[w].pc \notin UnheldPcs \cup {"release"}
        /\ jobs'[w].pc \notin UnheldPcs \cup {"release"}
    BY <1>16
    DEF ExpireRead, TypeInv, JobsOK, Job, At, Begin, Goto, Finish, Idle,
        UnheldPcs
  <2> QED
    BY <2>1, <2>2, <2>3, HoldsStay
<1>17. ASSUME NEW w \in Workers, ExpireLost(w)
      PROVE  HoldsMatchCarriers'
  <2>1. hold' = hold /\ captainId' = captainId
    BY <1>17 DEF ExpireLost, rowVars, rowButStatus, moneyVars, historyVars
  <2>2. \A u \in Payments : status'[u] \in TRANSACTION_HELD_STATES \cup {"SETTLED"}
                             <=> status[u] \in TRANSACTION_HELD_STATES \cup {"SETTLED"}
    BY <1>17
    DEF ExpireLost, At, TypeInv, RowsOK, JobsOK, JobOK, UnheldPcs,
        TRANSACTION_HELD_STATES, rowVars, rowButStatus, moneyVars, historyVars
  <2>3. /\ \A v \in Workers \ {w} : jobs'[v] = jobs[v]
        /\ jobs[w].pc \notin UnheldPcs \cup {"release"}
        /\ jobs'[w].pc \notin UnheldPcs \cup {"release"}
    BY <1>17
    DEF ExpireLost, TypeInv, JobsOK, Job, At, Begin, Goto, Finish, Idle,
        UnheldPcs
  <2> QED
    BY <2>1, <2>2, <2>3, HoldsStay
<1>18. ASSUME NEW w \in Workers, NEW t \in Payments, ResolveSettle(w, t)
      PROVE  HoldsMatchCarriers'
  <2>1. hold' = hold /\ captainId' = captainId
    BY <1>18 DEF ResolveSettle, rowVars, rowButStatus, moneyVars, historyVars
  <2>2. \A u \in Payments : status'[u] \in TRANSACTION_HELD_STATES \cup {"SETTLED"}
                             <=> status[u] \in TRANSACTION_HELD_STATES \cup {"SETTLED"}
    BY <1>18
    DEF ResolveSettle, At, TypeInv, RowsOK, JobsOK, JobOK, UnheldPcs,
        TRANSACTION_HELD_STATES, rowVars, rowButStatus, moneyVars, historyVars
  <2>3. /\ \A v \in Workers \ {w} : jobs'[v] = jobs[v]
        /\ jobs[w].pc \notin UnheldPcs \cup {"release"}
        /\ jobs'[w].pc \notin UnheldPcs \cup {"release"}
    BY <1>18
    DEF ResolveSettle, TypeInv, JobsOK, Job, At, Begin, Goto, Finish, Idle,
        UnheldPcs
  <2> QED
    BY <2>1, <2>2, <2>3, HoldsStay
<1>19. ASSUME NEW w \in Workers, NEW t \in Payments, ResolveRelease(w, t)
      PROVE  HoldsMatchCarriers'
  <2>1. hold' = hold /\ captainId' = captainId
    BY <1>19 DEF ResolveRelease, rowVars, rowButStatus, moneyVars, historyVars
  <2>2. \A u \in Payments : status'[u] \in TRANSACTION_HELD_STATES \cup {"SETTLED"}
                             <=> status[u] \in TRANSACTION_HELD_STATES \cup {"SETTLED"}
    BY <1>19
    DEF ResolveRelease, At, TypeInv, RowsOK, JobsOK, JobOK, UnheldPcs,
        TRANSACTION_HELD_STATES, rowVars, rowButStatus, moneyVars, historyVars
  <2>3. /\ \A v \in Workers \ {w} : jobs'[v] = jobs[v]
        /\ jobs[w].pc \notin UnheldPcs \cup {"release"}
        /\ jobs'[w].pc \notin UnheldPcs \cup {"release"}
    BY <1>19
    DEF ResolveRelease, TypeInv, JobsOK, Job, At, Begin, Goto, Finish, Idle,
        UnheldPcs
  <2> QED
    BY <2>1, <2>2, <2>3, HoldsStay
<1>20. ASSUME NEW t \in Payments, Dispute(t)
      PROVE  HoldsMatchCarriers'
  <2>1. hold' = hold /\ captainId' = captainId
    BY <1>20 DEF Dispute, rowVars, rowButStatus, moneyVars, historyVars
  <2>2. \A u \in Payments : status'[u] \in TRANSACTION_HELD_STATES \cup {"SETTLED"}
                             <=> status[u] \in TRANSACTION_HELD_STATES \cup {"SETTLED"}
    BY <1>20
    DEF Dispute, CanTransition, TRANSACTION_TRANSITIONS, TRANSACTION_STATES,
        At, TypeInv, RowsOK, JobsOK, JobOK, UnheldPcs,
        TRANSACTION_HELD_STATES, rowVars, rowButStatus, moneyVars, historyVars
  <2>3. jobs' = jobs
    BY <1>20 DEF Dispute
  <2> QED
    BY <2>1, <2>2, <2>3, HoldsStay
<1>21. ASSUME NEW t \in Payments, WindowCloses(t)
      PROVE  HoldsMatchCarriers'
  <2>1. hold' = hold /\ captainId' = captainId
    BY <1>21 DEF WindowCloses, rowVars, rowButStatus, moneyVars, historyVars
  <2>2. \A u \in Payments : status'[u] \in TRANSACTION_HELD_STATES \cup {"SETTLED"}
                             <=> status[u] \in TRANSACTION_HELD_STATES \cup {"SETTLED"}
    BY <1>21
    DEF WindowCloses, At, TypeInv, RowsOK, JobsOK, JobOK, UnheldPcs,
        TRANSACTION_HELD_STATES, rowVars, rowButStatus, moneyVars, historyVars
  <2>3. jobs' = jobs
    BY <1>21 DEF WindowCloses
  <2> QED
    BY <2>1, <2>2, <2>3, HoldsStay
<1>22. ASSUME Crash
      PROVE  HoldsMatchCarriers'
  BY <1>22, NoCrash
<1>23. ASSUME UNCHANGED vars
      PROVE  HoldsMatchCarriers'
  BY <1>23, HoldsStay DEF vars, rowVars, rowButStatus, historyVars
<1>24. ASSUME NEW w \in Workers, AssignInTransaction(w)
      PROVE  HoldsMatchCarriers'
  <2>1. PICK t \in Payments, c \in Captains : t = jobs[w].t /\ c = jobs[w].c
    BY <1>24 DEF AssignInTransaction, At, TypeInv, JobsOK, JobOK, UnheldPcs
  <2>2. /\ status[t] = "CREATED" /\ status'[t] = "ASSIGNED" /\ captainId'[t] = c
        /\ \A u \in Payments \ {t} : status'[u] = status[u] /\ captainId'[u] = captainId[u]
    BY <1>24, <2>1 DEF AssignInTransaction, AssignTo, TypeInv, RowsOK
  <2>3. \A d \in Captains \ {c} : Carries(t, d)' = Carries(t, d)
    BY <2>2 DEF Carries, TRANSACTION_HELD_STATES
  <2>4. Carried(t, c) = 0 /\ Carried(t, c)' = 1
    BY <2>2 DEF Carried, Carries, TRANSACTION_HELD_STATES
  <2>5. Due(w, t, c) = 0 /\ Concerns(w, t, c)
    BY <1>24, <2>1 DEF AssignInTransaction, At, Due, Concerns, UnheldPcs
  <2>6. TakeHold(w, t, c)
    BY <1>24, <2>1 DEF AssignInTransaction
  <2>7. CASE WithinCurrentLimit(c, Amount[t])
    <3>1. hold' = [hold EXCEPT ![t][c] = @ + 1] /\ Goto(w, "open")
      BY <2>6, <2>7 DEF TakeHold
    <3>2. /\ \A v \in Workers \ {w} : jobs'[v] = jobs[v]
          /\ jobs'[w].pc = "open" /\ jobs'[w].t = t /\ jobs'[w].c = c
      BY <2>1, <3>1 DEF Goto, TypeInv, JobsOK, Job
    <3>3. Due(w, t, c)' = 0 /\ Concerns(w, t, c)'
      BY <3>2 DEF Due, Concerns, UnheldPcs
    <3>4. /\ hold'[t][c] = hold[t][c] + 1
          /\ \A d \in Captains \ {c} : hold'[t][d] = hold[t][d]
          /\ \A u \in Payments \ {t} : hold'[u] = hold[u]
      BY <3>1 DEF TypeInv, HistoryOK
    <3>5. OnlyPair(w, t, c)
      BY <2>2, <2>3, <2>5, <3>2, <3>3, <3>4 DEF OnlyPair, RowStays
    <3>6. hold[t][c] \in Int
      BY DEF TypeInv, HistoryOK
    <3> QED
      BY <2>4, <2>5, <3>3, <3>4, <3>5, <3>6, PairMoves
  <2>8. CASE ~WithinCurrentLimit(c, Amount[t])
    <3>1. hold' = hold /\ Goto(w, "putBack")
      BY <2>6, <2>8 DEF TakeHold
    <3>2. /\ \A v \in Workers \ {w} : jobs'[v] = jobs[v]
          /\ jobs'[w].pc = "putBack" /\ jobs'[w].t = t /\ jobs'[w].c = c
      BY <2>1, <3>1 DEF Goto, TypeInv, JobsOK, Job
    <3>3. Due(w, t, c)' = 0 - 1 /\ Concerns(w, t, c)'
      BY <3>2 DEF Due, Concerns, UnheldPcs
    <3>4. /\ hold'[t][c] = hold[t][c]
          /\ \A d \in Captains \ {c} : hold'[t][d] = hold[t][d]
          /\ \A u \in Payments \ {t} : hold'[u] = hold[u]
      BY <3>1 DEF TypeInv, HistoryOK
    <3>5. OnlyPair(w, t, c)
      BY <2>2, <2>3, <2>5, <3>2, <3>3, <3>4 DEF OnlyPair, RowStays
    <3>6. hold[t][c] \in Int
      BY DEF TypeInv, HistoryOK
    <3> QED
      BY <2>4, <2>5, <3>3, <3>4, <3>5, <3>6, PairMoves
  <2> QED
    BY <2>7, <2>8
<1>25. ASSUME NEW w \in Workers, AssignHold(w)
      PROVE  HoldsMatchCarriers'
  <2>1. PICK t \in Payments, c \in Captains : t = jobs[w].t /\ c = jobs[w].c
    BY <1>25 DEF AssignHold, At, TypeInv, JobsOK, JobOK, UnheldPcs
  <2>2. Carries(t, c) /\ \A u \in Payments, d \in Captains : Carries(u, d)' = Carries(u, d)
    <3>1. Carries(t, c)
      BY <1>25, <2>1 DEF AssignHold, At, ClaimsStand, ClaimStands, HoldDue, UnheldPcs, Carries,
                      TRANSACTION_HELD_STATES
    <3>2. status' = status /\ captainId' = captainId
      BY <1>25 DEF AssignHold, rowVars, rowButStatus
    <3> QED
      BY <3>1, <3>2 DEF Carries
  <2>3. \A u \in Payments : status'[u] = status[u] /\ captainId'[u] = captainId[u]
    BY <1>25 DEF AssignHold, rowVars, rowButStatus
  <2>4. Carried(t, c) = 1 /\ Carried(t, c)' = 1
    BY <2>2 DEF Carried
  <2>5. Due(w, t, c) = 0 - 1 /\ Concerns(w, t, c)
    BY <1>25, <2>1 DEF AssignHold, At, Due, Concerns, UnheldPcs
  <2>6. TakeHold(w, t, c)
    BY <1>25, <2>1 DEF AssignHold
  <2>7. CASE WithinCurrentLimit(c, Amount[t])
    <3>1. hold' = [hold EXCEPT ![t][c] = @ + 1] /\ Goto(w, "open")
      BY <2>6, <2>7 DEF TakeHold
    <3>2. /\ \A v \in Workers \ {w} : jobs'[v] = jobs[v]
          /\ jobs'[w].pc = "open" /\ jobs'[w].t = t /\ jobs'[w].c = c
      BY <2>1, <3>1 DEF Goto, TypeInv, JobsOK, Job
    <3>3. Due(w, t, c)' = 0 /\ Concerns(w, t, c)'
      BY <3>2 DEF Due, Concerns, UnheldPcs
    <3>4. /\ hold'[t][c] = hold[t][c] + 1
          /\ \A d \in Captains \ {c} : hold'[t][d] = hold[t][d]
          /\ \A u \in Payments \ {t} : hold'[u] = hold[u]
      BY <3>1 DEF TypeInv, HistoryOK
    <3>5. OnlyPair(w, t, c)
      BY <2>2, <2>3, <2>5, <3>2, <3>3, <3>4 DEF OnlyPair, RowStays
    <3>6. hold[t][c] \in Int
      BY DEF TypeInv, HistoryOK
    <3> QED
      BY <2>4, <2>5, <3>3, <3>4, <3>5, <3>6, PairMoves
  <2>8. CASE ~WithinCurrentLimit(c, Amount[t])
    <3>1. hold' = hold /\ Goto(w, "putBack")
      BY <2>6, <2>8 DEF TakeHold
    <3>2. /\ \A v \in Workers \ {w} : jobs'[v] = jobs[v]
          /\ jobs'[w].pc = "putBack" /\ jobs'[w].t = t /\ jobs'[w].c = c
      BY <2>1, <3>1 DEF Goto, TypeInv, JobsOK, Job
    <3>3. Due(w, t, c)' = 0 - 1 /\ Concerns(w, t, c)'
      BY <3>2 DEF Due, Concerns, UnheldPcs
    <3>4. /\ hold'[t][c] = hold[t][c]
          /\ \A d \in Captains \ {c} : hold'[t][d] = hold[t][d]
          /\ \A u \in Payments \ {t} : hold'[u] = hold[u]
      BY <3>1 DEF TypeInv, HistoryOK
    <3>5. OnlyPair(w, t, c)
      BY <2>2, <2>3, <2>5, <3>2, <3>3, <3>4 DEF OnlyPair, RowStays
    <3>6. hold[t][c] \in Int
      BY DEF TypeInv, HistoryOK
    <3> QED
      BY <2>4, <2>5, <3>3, <3>4, <3>5, <3>6, PairMoves
  <2> QED
    BY <2>7, <2>8
<1>26. ASSUME NEW w \in Workers, AssignClaim(w)
      PROVE  HoldsMatchCarriers'
  <2>1. PICK t \in Payments, c \in Captains : t = jobs[w].t /\ c = jobs[w].c
    BY <1>26 DEF AssignClaim, At, TypeInv, JobsOK, JobOK, UnheldPcs
  <2>2. /\ status[t] = "CREATED" /\ status'[t] = "ASSIGNED" /\ captainId'[t] = c
        /\ \A u \in Payments \ {t} : status'[u] = status[u] /\ captainId'[u] = captainId[u]
    BY <1>26, <2>1 DEF AssignClaim, AssignTo, TypeInv, RowsOK
  <2>3. \A d \in Captains \ {c} : Carries(t, d)' = Carries(t, d)
    BY <2>2 DEF Carries, TRANSACTION_HELD_STATES
  <2>4. Carried(t, c) = 0 /\ Carried(t, c)' = 1
    BY <2>2 DEF Carried, Carries, TRANSACTION_HELD_STATES
  <2>5. Due(w, t, c) = 0 /\ Concerns(w, t, c)
    BY <1>26, <2>1 DEF AssignClaim, At, Due, Concerns, UnheldPcs
  <2>6. /\ \A v \in Workers \ {w} : jobs'[v] = jobs[v]
        /\ jobs'[w].pc = "hold" /\ jobs'[w].t = t /\ jobs'[w].c = c
    BY <1>26, <2>1 DEF AssignClaim, Goto, TypeInv, JobsOK, Job
  <2>7. Due(w, t, c)' = 0 - 1 /\ Concerns(w, t, c)'
    BY <2>6 DEF Due, Concerns, UnheldPcs
  <2>8. hold' = hold /\ hold[t][c] \in Int
    BY <1>26 DEF AssignClaim, historyVars, TypeInv, HistoryOK
  <2>9. OnlyPair(w, t, c)
    BY <2>2, <2>3, <2>5, <2>6, <2>7, <2>8 DEF OnlyPair, RowStays
  <2> QED
    BY <2>4, <2>5, <2>7, <2>8, <2>9, PairMoves
<1>27. ASSUME NEW w \in Workers, PutBack(w)
      PROVE  HoldsMatchCarriers'
  <2>1. PICK t \in Payments, c \in Captains : t = jobs[w].t /\ c = jobs[w].c
    BY <1>27 DEF PutBack, At, TypeInv, JobsOK, JobOK, UnheldPcs
  <2>2. status[t] = "ASSIGNED" /\ captainId[t] = c
    BY <1>27, <2>1 DEF PutBack, At, ClaimsStand, ClaimStands, HoldDue, UnheldPcs
  <2>3. /\ status'[t] = "CREATED" /\ hold' = hold
        /\ \A u \in Payments \ {t} : RowStays(u)
    BY <1>27, <2>1, <2>2 DEF PutBack, HandBack, RowStays, TypeInv, RowsOK, historyVars
  <2>4. Carried(t, c) = 1 /\ Carried(t, c)' = 0
    BY <2>2, <2>3 DEF Carried, Carries, TRANSACTION_HELD_STATES
  <2>5. \A d \in Captains \ {c} : Carries(t, d)' = Carries(t, d)
    BY <2>2, <2>3 DEF Carries, TRANSACTION_HELD_STATES
  <2>6. jobs'[w].pc = "idle" /\ \A v \in Workers \ {w} : jobs'[v] = jobs[v]
    BY <1>27 DEF PutBack, Finish, Idle, TypeInv, JobsOK
  <2>7. Due(w, t, c) = 0 - 1 /\ Due(w, t, c)' = 0
    BY <1>27, <2>1, <2>6 DEF PutBack, At, Due, UnheldPcs
  <2>8. OnlyPair(w, t, c)
    BY <2>1, <2>3, <2>5, <2>6 DEF OnlyPair, Concerns, UnheldPcs
  <2>9. hold[t][c] \in Int
    BY DEF TypeInv, HistoryOK
  <2> QED
    BY <2>3, <2>4, <2>7, <2>8, <2>9, PairMoves
<1>28. ASSUME NEW t \in Payments, NEW c \in Captains, DeclineInTransaction(t, c)
      PROVE  HoldsMatchCarriers'
  <2>1. status[t] = "ASSIGNED" /\ captainId[t] = c /\ jobs' = jobs
    BY <1>28 DEF DeclineInTransaction, Declined
  <2>2. status'[t] = "CREATED" /\ \A u \in Payments \ {t} : RowStays(u)
    BY <1>28 DEF DeclineInTransaction, Declined, HandBack, GiveBack, RowStays, TypeInv, RowsOK, HistoryOK
  <2>3. /\ hold'[t][c] = hold[t][c] - 1 /\ hold[t][c] \in Int
        /\ \A d \in Captains \ {c} : hold'[t][d] = hold[t][d]
    BY <1>28 DEF DeclineInTransaction, GiveBack, TypeInv, HistoryOK
  <2>4. Carried(t, c) = 1 /\ Carried(t, c)' = 0
    BY <2>1, <2>2 DEF Carried, Carries, TRANSACTION_HELD_STATES
  <2>5. \A d \in Captains \ {c} : Carries(t, d)' = Carries(t, d)
    BY <2>1, <2>2 DEF Carries, TRANSACTION_HELD_STATES
  <2> QED
    BY <2>1, <2>2, <2>3, <2>4, <2>5, PairUnmoved
<1>29. ASSUME NEW w \in Workers, NEW t \in Payments, NEW c \in Captains, Decline(w, t, c)
      PROVE  HoldsMatchCarriers'
  <2>1. status[t] = "ASSIGNED" /\ captainId[t] = c /\ jobs[w].pc = "idle"
    BY <1>29 DEF Decline, Declined, At
  <2>2. status'[t] = "CREATED" /\ hold' = hold /\ \A u \in Payments \ {t} : RowStays(u)
    BY <1>29 DEF Decline, Declined, HandBack, RowStays, TypeInv, RowsOK, historyVars
  <2>3. /\ \A v \in Workers \ {w} : jobs'[v] = jobs[v]
        /\ jobs'[w].pc = "release" /\ jobs'[w].t = t /\ jobs'[w].c = c
    BY <1>29 DEF Decline, TypeInv, JobsOK, Job
  <2>4. Carried(t, c) = 1 /\ Carried(t, c)' = 0
    BY <2>1, <2>2 DEF Carried, Carries, TRANSACTION_HELD_STATES
  <2>5. \A d \in Captains \ {c} : Carries(t, d)' = Carries(t, d)
    BY <2>1, <2>2 DEF Carries, TRANSACTION_HELD_STATES
  <2>6. Due(w, t, c) = 0 /\ Due(w, t, c)' = 1
    BY <2>1, <2>3 DEF Due, UnheldPcs
  <2>7. OnlyPair(w, t, c)
    BY <2>1, <2>2, <2>3, <2>5 DEF OnlyPair, Concerns, UnheldPcs
  <2>8. hold[t][c] \in Int
    BY DEF TypeInv, HistoryOK
  <2> QED
    BY <2>2, <2>4, <2>6, <2>7, <2>8, PairMoves
<1>30. ASSUME NEW w \in Workers, Release(w)
      PROVE  HoldsMatchCarriers'
  <2>1. PICK t \in Payments, c \in Captains : t = jobs[w].t /\ c = jobs[w].c
    BY <1>30 DEF Release, At, TypeInv, JobsOK, JobOK, UnheldPcs
  <2>2. status' = status /\ captainId' = captainId
    BY <1>30 DEF Release, rowVars, rowButStatus
  <2>3. /\ hold'[t][c] = hold[t][c] - 1 /\ hold[t][c] \in Int
        /\ \A d \in Captains \ {c} : hold'[t][d] = hold[t][d]
        /\ \A u \in Payments \ {t} : hold'[u] = hold[u]
    BY <1>30, <2>1 DEF Release, GiveBack, TypeInv, HistoryOK
  <2>4. jobs'[w].pc = "idle" /\ \A v \in Workers \ {w} : jobs'[v] = jobs[v]
    BY <1>30 DEF Release, Finish, Idle, TypeInv, JobsOK
  <2>5. Due(w, t, c) = 1 /\ Due(w, t, c)' = 0
    BY <1>30, <2>1, <2>4 DEF Release, At, Due, UnheldPcs
  <2>6. Carried(t, c)' = Carried(t, c) /\ Carried(t, c) \in Int
    BY <2>2 DEF Carried, Carries
  <2>7. OnlyPair(w, t, c)
    BY <2>1, <2>2, <2>3, <2>4 DEF OnlyPair, RowStays, Carries, Concerns, UnheldPcs
  <2>8. hold'[t][c] - hold[t][c] = Carried(t, c)' - Carried(t, c) + Due(w, t, c)' - Due(w, t, c)
    BY <2>3, <2>5, <2>6
  <2> QED
    BY <2>7, <2>8, PairMoves
<1>31. ASSUME NEW w \in Workers, ExpireInTransaction(w)
      PROVE  HoldsMatchCarriers'
  <2>1. PICK t \in Payments : t = jobs[w].t
    BY <1>31 DEF ExpireInTransaction, MarkExpired, At, TypeInv, JobsOK, JobOK
  <2>2. /\ status[t] = jobs[w].from /\ jobs[w].pc = "expireClaim" /\ status'[t] = "EXPIRED"
        /\ captainId' = captainId
        /\ \A u \in Payments \ {t} : status'[u] = status[u]
    BY <1>31, <2>1 DEF ExpireInTransaction, MarkExpired, At, TypeInv, RowsOK, rowButStatus
  <2>3. \A v \in Workers \ {w} : jobs'[v] = jobs[v]
    BY <1>31 DEF ExpireInTransaction, Finish, TypeInv, JobsOK
  <2>4. CASE ~WasHeld(w)
    <3>1. status[t] = "CREATED"
      <4>1. status[t] = "CREATED" \/ status[t] \in TRANSACTION_HELD_STATES
        BY <2>1, <2>2 DEF TypeInv, JobsOK, JobOK, TRANSACTION_HELD_STATES
      <4> QED
        BY <2>1, <2>2, <2>4, <4>1 DEF WasHeld, CarriedInv, CarriedOf
    <3>2. hold' = hold /\ jobs'[w].pc = "idle"
      BY <1>31, <2>4 DEF ExpireInTransaction, Finish, Idle, TypeInv, JobsOK, historyVars
    <3>3. \A u \in Payments : status'[u] \in TRANSACTION_HELD_STATES \cup {"SETTLED"}
                              <=> status[u] \in TRANSACTION_HELD_STATES \cup {"SETTLED"}
      BY <2>2, <3>1 DEF TRANSACTION_HELD_STATES
    <3> QED
      BY <2>2, <2>3, <3>2, <3>3, HoldsStay DEF UnheldPcs
  <2>5. CASE WasHeld(w)
    <3>1. PICK c \in Captains : c = captainId[t]
      BY <2>1, <2>5 DEF WasHeld, TypeInv, RowsOK
    <3>2. status[t] \in TRANSACTION_HELD_STATES
      BY <2>2, <2>5 DEF WasHeld
    <3>3. Carried(t, c) = 1 /\ Carried(t, c)' = 0
      BY <2>2, <3>1, <3>2 DEF Carried, Carries, TRANSACTION_HELD_STATES
    <3>4. \A d \in Captains \ {c} : Carries(t, d)' = Carries(t, d)
      BY <2>2, <3>1 DEF Carries, TRANSACTION_HELD_STATES
    <3>5. /\ hold'[t][c] = hold[t][c] - 1 /\ hold[t][c] \in Int
          /\ \A d \in Captains \ {c} : hold'[t][d] = hold[t][d]
          /\ \A u \in Payments \ {t} : hold'[u] = hold[u]
      BY <1>31, <2>1, <2>5, <3>1 DEF ExpireInTransaction, GiveBack, TypeInv, HistoryOK
    <3>6. jobs'[w].pc = "idle"
      BY <1>31 DEF ExpireInTransaction, Finish, Idle, TypeInv, JobsOK
    <3>7. Due(w, t, c) = 0 /\ Due(w, t, c)' = 0
      BY <2>2, <3>6 DEF Due, UnheldPcs
    <3>8. OnlyPair(w, t, c)
      BY <2>2, <2>3, <3>4, <3>5, <3>6 DEF OnlyPair, RowStays, Concerns, UnheldPcs
    <3> QED
      BY <3>3, <3>5, <3>7, <3>8, PairMoves
  <2> QED
    BY <2>4, <2>5
<1>32. ASSUME NEW w \in Workers, ExpireClaim(w)
      PROVE  HoldsMatchCarriers'
  <2>1. PICK t \in Payments : t = jobs[w].t
    BY <1>32 DEF ExpireClaim, MarkExpired, At, TypeInv, JobsOK, JobOK
  <2>2. /\ status[t] = jobs[w].from /\ jobs[w].pc = "expireClaim" /\ status'[t] = "EXPIRED"
        /\ captainId' = captainId
        /\ \A u \in Payments \ {t} : status'[u] = status[u]
    BY <1>32, <2>1 DEF ExpireClaim, MarkExpired, At, TypeInv, RowsOK, rowButStatus
  <2>3. \A v \in Workers \ {w} : jobs'[v] = jobs[v]
    BY <1>32 DEF ExpireClaim, Finish, TypeInv, JobsOK
  <2>4. CASE ~WasHeld(w)
    <3>1. status[t] = "CREATED"
      <4>1. status[t] = "CREATED" \/ status[t] \in TRANSACTION_HELD_STATES
        BY <2>1, <2>2 DEF TypeInv, JobsOK, JobOK, TRANSACTION_HELD_STATES
      <4> QED
        BY <2>1, <2>2, <2>4, <4>1 DEF WasHeld, CarriedInv, CarriedOf
    <3>2. hold' = hold /\ jobs'[w].pc = "idle"
      BY <1>32, <2>4 DEF ExpireClaim, Finish, Idle, TypeInv, JobsOK, historyVars
    <3>3. \A u \in Payments : status'[u] \in TRANSACTION_HELD_STATES \cup {"SETTLED"}
                              <=> status[u] \in TRANSACTION_HELD_STATES \cup {"SETTLED"}
      BY <2>2, <3>1 DEF TRANSACTION_HELD_STATES
    <3> QED
      BY <2>2, <2>3, <3>2, <3>3, HoldsStay DEF UnheldPcs
  <2>5. CASE WasHeld(w)
    <3>1. PICK c \in Captains : c = captainId[t]
      BY <2>1, <2>5 DEF WasHeld, TypeInv, RowsOK
    <3>2. status[t] \in TRANSACTION_HELD_STATES
      BY <2>2, <2>5 DEF WasHeld
    <3>3. Carried(t, c) = 1 /\ Carried(t, c)' = 0
      BY <2>2, <3>1, <3>2 DEF Carried, Carries, TRANSACTION_HELD_STATES
    <3>4. \A d \in Captains \ {c} : Carries(t, d)' = Carries(t, d)
      BY <2>2, <3>1 DEF Carries, TRANSACTION_HELD_STATES
    <3>5. hold' = hold /\ hold[t][c] \in Int
      BY <1>32 DEF ExpireClaim, historyVars, TypeInv, HistoryOK
    <3>6. jobs'[w].pc = "release" /\ jobs'[w].t = t /\ jobs'[w].c = c
      BY <1>32, <2>1, <2>5, <3>1 DEF ExpireClaim, TypeInv, JobsOK, Job
    <3>7. Due(w, t, c) = 0 /\ Due(w, t, c)' = 1
      BY <2>2, <3>6 DEF Due, UnheldPcs
    <3>8. OnlyPair(w, t, c)
      BY <2>2, <2>3, <3>4, <3>5, <3>6 DEF OnlyPair, RowStays, Concerns, UnheldPcs
    <3> QED
      BY <3>3, <3>5, <3>7, <3>8, PairMoves
  <2> QED
    BY <2>4, <2>5
<1>33. ASSUME NEW w \in Workers, SettleCreditFails(w)
      PROVE  HoldsMatchCarriers'
  <2>1. hold' = hold /\ captainId' = captainId
    BY <1>33 DEF SettleCreditFails, rowVars, rowButStatus, moneyVars, historyVars
  <2>2. \A u \in Payments : status'[u] \in TRANSACTION_HELD_STATES \cup {"SETTLED"}
                             <=> status[u] \in TRANSACTION_HELD_STATES \cup {"SETTLED"}
    BY <1>33
    DEF SettleCreditFails, At, TypeInv, RowsOK, JobsOK, JobOK, UnheldPcs,
        TRANSACTION_HELD_STATES, rowVars, rowButStatus, moneyVars, historyVars
  <2>3. /\ \A v \in Workers \ {w} : jobs'[v] = jobs[v]
        /\ jobs[w].pc \notin UnheldPcs \cup {"release"}
        /\ jobs'[w].pc \notin UnheldPcs \cup {"release"}
    BY <1>33
    DEF SettleCreditFails, TypeInv, JobsOK, Job, At, Begin, Goto, Finish, Idle,
        UnheldPcs
  <2> QED
    BY <2>1, <2>2, <2>3, HoldsStay
<1>34. ASSUME NEW w \in Workers, SettleEntryFails(w)
      PROVE  HoldsMatchCarriers'
  <2>1. hold' = hold /\ captainId' = captainId
    BY <1>34 DEF SettleEntryFails, rowVars, rowButStatus, moneyVars, historyVars
  <2>2. \A u \in Payments : status'[u] \in TRANSACTION_HELD_STATES \cup {"SETTLED"}
                             <=> status[u] \in TRANSACTION_HELD_STATES \cup {"SETTLED"}
    BY <1>34
    DEF SettleEntryFails, At, TypeInv, RowsOK, JobsOK, JobOK, UnheldPcs,
        TRANSACTION_HELD_STATES, rowVars, rowButStatus, moneyVars, historyVars
  <2>3. /\ \A v \in Workers \ {w} : jobs'[v] = jobs[v]
        /\ jobs[w].pc \notin UnheldPcs \cup {"release"}
        /\ jobs'[w].pc \notin UnheldPcs \cup {"release"}
    BY <1>34
    DEF SettleEntryFails, TypeInv, JobsOK, Job, At, Begin, Goto, Finish, Idle,
        UnheldPcs
  <2> QED
    BY <2>1, <2>2, <2>3, HoldsStay
<1>35. ASSUME NEW w \in Workers, SettleCollectBack(w)
      PROVE  HoldsMatchCarriers'
  <2>1. hold' = hold /\ captainId' = captainId
    BY <1>35 DEF SettleCollectBack, rowVars, rowButStatus, moneyVars, historyVars
  <2>2. \A u \in Payments : status'[u] \in TRANSACTION_HELD_STATES \cup {"SETTLED"}
                             <=> status[u] \in TRANSACTION_HELD_STATES \cup {"SETTLED"}
    BY <1>35
    DEF SettleCollectBack, At, TypeInv, RowsOK, JobsOK, JobOK, UnheldPcs,
        TRANSACTION_HELD_STATES, rowVars, rowButStatus, moneyVars, historyVars
  <2>3. /\ \A v \in Workers \ {w} : jobs'[v] = jobs[v]
        /\ jobs[w].pc \notin UnheldPcs \cup {"release"}
        /\ jobs'[w].pc \notin UnheldPcs \cup {"release"}
    BY <1>35
    DEF SettleCollectBack, TypeInv, JobsOK, Job, At, Begin, Goto, Finish, Idle,
        UnheldPcs
  <2> QED
    BY <2>1, <2>2, <2>3, HoldsStay
<1>36. ASSUME NEW w \in Workers, SettleFlag(w)
      PROVE  HoldsMatchCarriers'
  <2>1. hold' = hold /\ captainId' = captainId
    BY <1>36 DEF SettleFlag, rowVars, rowButStatus, moneyVars, historyVars
  <2>2. \A u \in Payments : status'[u] \in TRANSACTION_HELD_STATES \cup {"SETTLED"}
                             <=> status[u] \in TRANSACTION_HELD_STATES \cup {"SETTLED"}
    BY <1>36
    DEF SettleFlag, At, TypeInv, RowsOK, JobsOK, JobOK, UnheldPcs,
        TRANSACTION_HELD_STATES, rowVars, rowButStatus, moneyVars, historyVars
  <2>3. /\ \A v \in Workers \ {w} : jobs'[v] = jobs[v]
        /\ jobs[w].pc \notin UnheldPcs \cup {"release"}
        /\ jobs'[w].pc \notin UnheldPcs \cup {"release"}
    BY <1>36
    DEF SettleFlag, TypeInv, JobsOK, Job, At, Begin, Goto, Finish, Idle,
        UnheldPcs
  <2> QED
    BY <2>1, <2>2, <2>3, HoldsStay
<1>37. ASSUME NEW w \in Workers, SettleAborts(w)
      PROVE  HoldsMatchCarriers'
  <2>1. hold' = hold /\ captainId' = captainId
    BY <1>37 DEF SettleAborts, rowVars, rowButStatus, moneyVars, historyVars
  <2>2. \A u \in Payments : status'[u] \in TRANSACTION_HELD_STATES \cup {"SETTLED"}
                             <=> status[u] \in TRANSACTION_HELD_STATES \cup {"SETTLED"}
    BY <1>37
    DEF SettleAborts, At, TypeInv, RowsOK, JobsOK, JobOK, UnheldPcs,
        TRANSACTION_HELD_STATES, rowVars, rowButStatus, moneyVars, historyVars
  <2>3. /\ \A v \in Workers \ {w} : jobs'[v] = jobs[v]
        /\ jobs[w].pc \notin UnheldPcs \cup {"release"}
        /\ jobs'[w].pc \notin UnheldPcs \cup {"release"}
    BY <1>37
    DEF SettleAborts, TypeInv, JobsOK, Job, At, Begin, Goto, Finish, Idle,
        UnheldPcs
  <2> QED
    BY <2>1, <2>2, <2>3, HoldsStay
<1>38. ASSUME NEW amount \in Withdrawals, DebitPool(amount)
      PROVE  HoldsMatchCarriers'
  <2>1. hold' = hold /\ captainId' = captainId
    BY <1>38 DEF DebitPool, rowVars, rowButStatus, moneyVars, historyVars
  <2>2. \A u \in Payments : status'[u] \in TRANSACTION_HELD_STATES \cup {"SETTLED"}
                             <=> status[u] \in TRANSACTION_HELD_STATES \cup {"SETTLED"}
    BY <1>38
    DEF DebitPool, At, TypeInv, RowsOK, JobsOK, JobOK, UnheldPcs,
        TRANSACTION_HELD_STATES, rowVars, rowButStatus, moneyVars, historyVars
  <2>3. jobs' = jobs
    BY <1>38 DEF DebitPool
  <2> QED
    BY <2>1, <2>2, <2>3, HoldsStay
<1>39. ASSUME NEW amount \in Fundings, FundPool(amount)
      PROVE  HoldsMatchCarriers'
  <2>1. hold' = hold /\ captainId' = captainId
    BY <1>39 DEF FundPool, rowVars, rowButStatus, moneyVars, historyVars
  <2>2. \A u \in Payments : status'[u] \in TRANSACTION_HELD_STATES \cup {"SETTLED"}
                             <=> status[u] \in TRANSACTION_HELD_STATES \cup {"SETTLED"}
    BY <1>39
    DEF FundPool, At, TypeInv, RowsOK, JobsOK, JobOK, UnheldPcs,
        TRANSACTION_HELD_STATES, rowVars, rowButStatus, moneyVars, historyVars
  <2>3. jobs' = jobs
    BY <1>39 DEF FundPool
  <2> QED
    BY <2>1, <2>2, <2>3, HoldsStay
<1> QED
  BY <1>1, <1>2, <1>3, <1>4, <1>5, <1>6, <1>7, <1>8, <1>9, <1>10, <1>11,
     <1>12, <1>13, <1>14, <1>15, <1>16, <1>17, <1>18, <1>19, <1>20, <1>21,
     <1>22, <1>23, <1>24, <1>25, <1>26, <1>27, <1>28, <1>29, <1>30, <1>31,
     <1>32, <1>33, <1>34, <1>35, <1>36, <1>37, <1>38, <1>39
  DEF Next, Request, Decision, JobStep, Workers

\* A captain's DMC is committed exactly while they carry the pay-in: once from
\* the hold until it is given back or handed over, whoever else acts on it.
THEOREM HoldsFollowCarriers == ASSUME Undisrupted PROVE Spec => []HoldsMatchCarriers
<1>1. Init => HoldsMatchCarriers
  BY HoldsInit
<1>2. /\ TypeInv /\ TypeInv' /\ CarriedInv /\ ClaimsStand /\ HoldsMatchCarriers
      /\ [Next]_vars
      => HoldsMatchCarriers'
  BY HoldsStep
<1> QED
  BY <1>1, <1>2, TypeInvariant, CarriedInvariant, ClaimsInvariant, PTL DEF Spec

-----------------------------------------------------------------------------
(* What is given back *)

\* A captain's DMC is given back only if it had been taken: what a running job
\* still gives back it counts, and a claim whose hold is due holds nothing.
THEOREM NothingIsGivenUnheld == ASSUME Undisrupted PROVE Spec => []NothingGivenUnheld
<1>1. TypeInv /\ CarriedInv /\ ClaimsStand /\ HoldsMatchCarriers => NothingGivenUnheld
  <2> SUFFICES ASSUME TypeInv, CarriedInv, ClaimsStand, HoldsMatchCarriers,
                      NEW t \in Payments, NEW c \in Captains
               PROVE  hold[t][c] >= 0
    BY DEF NothingGivenUnheld
  <2>1. CASE \E w \in Workers : HoldDue(w, t) /\ jobs[w].c = c
    <3>1. PICK w \in Workers : HoldDue(w, t) /\ jobs[w].c = c
      BY <2>1
    <3>2. status[t] = "ASSIGNED" /\ captainId[t] = c
      BY <3>1 DEF ClaimsStand, ClaimStands
    <3>3. Assigns(w, t) /\ jobs[w].pc # "open"
      BY <3>1 DEF HoldDue, Assigns, AssigningPcs, UnheldPcs
    <3>4. HeldFrom(t, 0)
      BY <3>2, <3>3 DEF CarriedInv, CarriedOf, AssignmentOK
    <3>5. hold[t][c] = 0
      BY <3>2, <3>4 DEF HeldFrom
    <3> QED
      BY <3>5
  <2>2. CASE ~ \E w \in Workers : HoldDue(w, t) /\ jobs[w].c = c
    <3>1. \A w \in Workers : DueBy(t, c)[w] \in Nat
      BY <2>2 DEF HoldDue, DueBy, Due
    <3>2. PICK s \in Nat : s = DueSum(t, c)
      BY <3>1, PayInFiniteAssumption, TotalNat DEF DueSum
    <3>3. PICK k \in Nat : k = Carried(t, c)
      BY DEF Carried
    <3>4. hold[t][c] = k + s
      BY <3>2, <3>3, HoldsMatchPairwise DEF HoldMatches
    <3> QED
      BY <3>2, <3>3, <3>4
  <2> QED
    BY <2>1, <2>2
<1> QED
  BY <1>1, TypeInvariant, CarriedInvariant, ClaimsInvariant, HoldsFollowCarriers, PTL

-----------------------------------------------------------------------------
(* Books *)

HeldBy == [t \in Payments |-> Held(t)]
FlightOf == [w \in Workers |-> InFlight(w)]

Dmcs  == Total(dmc, Captains)
Rows  == Total(HeldBy, Payments)
Hands == Total(FlightOf, Workers)

LEMMA BooksAre == Books = partyDmc + pool + Dmcs + Rows + Hands
BY DEF Books, Dmcs, Rows, Hands, HeldBy, FlightOf

LEMMA BooksAreNext == Books' = partyDmc' + pool' + Dmcs' + Rows' + Hands'
<1>1. (Books = partyDmc + pool + Dmcs + Rows + Hands)'
  BY BooksAre, PTL
<1> QED
  BY <1>1

LEMMA HeldIsInt == \A t \in Payments : Held(t) \in Int
<1> SUFFICES ASSUME NEW t \in Payments
             PROVE  Held(t) \in Int
  OBVIOUS
<1>1. PICK a \in Nat : a = Amount[t]
  OBVIOUS
<1> QED
  BY <1>1 DEF Held

LEMMA InFlightIsInt ==
  ASSUME TypeInv
  PROVE  \A w \in Workers : InFlight(w) \in Int
<1> SUFFICES ASSUME NEW w \in Workers
             PROVE  InFlight(w) \in Int
  OBVIOUS
<1>1. CASE jobs[w].pc = "idle"
  BY <1>1 DEF InFlight, UnheldPcs
<1>2. CASE jobs[w].pc # "idle"
  <2>1. PICK a \in Nat, z \in Nat, x \in Nat :
          a = Amount[jobs[w].t] /\ z = Charge[jobs[w].t] /\ x = commissionPaise[jobs[w].t]
    BY <1>2 DEF TypeInv, JobsOK, JobOK, RowsOK
  <2> QED
    BY <2>1 DEF InFlight
<1> QED
  BY <1>1, <1>2

BooksAreInts ==
  /\ Dmcs \in Int /\ Rows \in Int /\ Hands \in Int
  /\ partyDmc \in Int /\ pool \in Int

LEMMA BooksType == TypeInv => BooksAreInts
<1> SUFFICES ASSUME TypeInv
             PROVE  BooksAreInts
  OBVIOUS
<1>1. \A t \in Payments : HeldBy[t] \in Int
  BY HeldIsInt DEF HeldBy
<1>2. \A w \in Workers : FlightOf[w] \in Int
  BY InFlightIsInt DEF FlightOf
<1>3. \A c \in Captains : dmc[c] \in Int
  BY DEF TypeInv, MoneyOK
<1>4. partyDmc \in Int /\ pool \in Int
  BY DEF TypeInv, MoneyOK
<1>5. Dmcs \in Int
  BY <1>3, PayInFiniteAssumption, TotalInt DEF Dmcs
<1>6. Rows \in Int
  BY <1>1, PayInFiniteAssumption, TotalInt DEF Rows
<1>7. Hands \in Int
  BY <1>2, PayInFiniteAssumption, TotalInt DEF Hands
<1> QED
  BY <1>4, <1>5, <1>6, <1>7 DEF BooksAreInts

LEMMA BooksPicked ==
  ASSUME TypeInv
  PROVE  \E p \in Int, o \in Int, b \in Int : p = partyDmc /\ o = pool /\ b = Dmcs
BY BooksType DEF BooksAreInts

LEMMA Prices ==
  ASSUME TypeInv, NEW t \in Payments
  PROVE  \E a \in Int, z \in Int, x \in Int :
           a = Amount[t] /\ z = Charge[t] /\ x = commissionPaise[t] /\ 0 <= x /\ x <= z
BY DEF TypeInv, RowsOK

LEMMA OneBalanceMoves ==
  ASSUME TypeInv, NEW c \in Captains, NEW d \in Int, dmc' = [dmc EXCEPT ![c] = @ + d]
  PROVE  Dmcs' = Dmcs + d
<1>1. dmc \in [Captains -> Int]
  BY DEF TypeInv, MoneyOK
<1>2. IsFiniteSet(Captains)
  BY PayInFiniteAssumption
<1>3. Total([dmc EXCEPT ![c] = @ + d], Captains) = Total(dmc, Captains) + d
  <2> HIDE PayInAssumption
  <2> QED
    BY <1>1, <1>2, TotalPaidIn
<1> QED
  BY <1>1, <1>3 DEF Dmcs

LEMMA OneBalancePays ==
  ASSUME TypeInv, NEW c \in Captains, NEW a \in Int, dmc' = [dmc EXCEPT ![c] = @ - a]
  PROVE  Dmcs' = Dmcs - a
<1>1. PICK d \in Int : d = 0 - a
  OBVIOUS
<1>2. PICK i \in Int, b \in Int : i = dmc[c] /\ b = Dmcs
  BY BooksType DEF TypeInv, MoneyOK, BooksAreInts
<1>3. i - a = i + d /\ b + d = b - a
  BY <1>1
<1>4. dmc' = [dmc EXCEPT ![c] = @ + d]
  BY <1>2, <1>3
<1> QED
  BY <1>2, <1>3, <1>4, OneBalanceMoves

LEMMA RowsMove ==
  ASSUME NEW t \in Payments, \A u \in Payments \ {t} : status'[u] = status[u]
  PROVE  Rows' = Rows + Held(t)' - Held(t)
<1> DEFINE g == [u \in Payments |-> Held(u)']
<1>1. g = HeldBy'
  BY DEF HeldBy
<1>2. \A u \in Payments \ {t} : g[u] = HeldBy[u]
  BY DEF HeldBy, Held
<1>3. \A u \in Payments : HeldBy[u] \in Int /\ g[u] \in Int
  BY DEF HeldBy, Held
<1>4. Total(g, Payments) = Total(HeldBy, Payments) + g[t] - HeldBy[t]
  BY <1>2, <1>3, PayInFiniteAssumption, TotalOneChanges
<1>5. g[t] = Held(t)' /\ HeldBy[t] = Held(t)
  BY DEF HeldBy
<1>6. Total(g, Payments) = Rows' /\ Total(HeldBy, Payments) = Rows
  BY <1>1 DEF Rows
<1> HIDE DEF g
<1> QED
  BY <1>4, <1>5, <1>6

LEMMA InFlightIsIntNext ==
  ASSUME TypeInv'
  PROVE  \A w \in Workers : InFlight(w)' \in Int
<1>1. (\A w \in Workers : InFlight(w) \in Int)'
  BY InFlightIsInt, PTL
<1> QED
  BY <1>1

LEMMA HandsMove ==
  ASSUME TypeInv, TypeInv', NEW w \in Workers,
         \A v \in Workers \ {w} : InFlight(v)' = InFlight(v)
  PROVE  Hands' = Hands + InFlight(w)' - InFlight(w)
<1> DEFINE g == [v \in Workers |-> InFlight(v)']
<1>1. g = FlightOf'
  BY DEF FlightOf
<1>2. \A v \in Workers \ {w} : g[v] = FlightOf[v]
  BY DEF FlightOf
<1>3. \A v \in Workers : FlightOf[v] \in Int /\ g[v] \in Int
  BY InFlightIsInt, InFlightIsIntNext DEF FlightOf
<1>4. Total(g, Workers) = Total(FlightOf, Workers) + g[w] - FlightOf[w]
  BY <1>2, <1>3, PayInFiniteAssumption, TotalOneChanges
<1>5. g[w] = InFlight(w)' /\ FlightOf[w] = InFlight(w)
  BY DEF FlightOf
<1>6. Total(g, Workers) = Hands' /\ Total(FlightOf, Workers) = Hands
  BY <1>1 DEF Hands
<1> HIDE DEF g
<1> QED
  BY <1>4, <1>5, <1>6

\* A step changes the status of t and what the job of w has in hand, and no
\* other of either.
Changes(w, t) ==
  /\ \A v \in Workers \ {w} : InFlight(v)' = InFlight(v)
  /\ \A u \in Payments \ {t} : status'[u] = status[u]

\* Such a step keeps the books if it keeps the sum of what it changes.
Local(w, t) == partyDmc + pool + Dmcs + Held(t) + InFlight(w)

LEMMA Balanced ==
  ASSUME TypeInv, TypeInv', NEW w \in Workers, NEW t \in Payments, Changes(w, t),
         Local(w, t)' = Local(w, t)
  PROVE  Books' = Books
<1>1. PICK x \in Int, z \in Int : x = Held(t) /\ z = Held(t)'
  BY DEF Held
<1>2. PICK i \in Int, k \in Int : i = InFlight(w) /\ k = InFlight(w)'
  BY InFlightIsInt, InFlightIsIntNext
<1>3. BooksAreInts /\ BooksAreInts'
  <2>1. (TypeInv => BooksAreInts)'
    BY BooksType, PTL
  <2> QED
    BY <2>1, BooksType
<1>4. PICK r \in Int, h \in Int : r = Rows /\ h = Hands
  BY <1>3 DEF BooksAreInts
<1>5. PICK b \in Int, c \in Int : b = partyDmc + pool + Dmcs /\ c = partyDmc' + pool' + Dmcs'
  <2>1. partyDmc + pool + Dmcs \in Int
    BY <1>3 DEF BooksAreInts
  <2>2. partyDmc' + pool' + Dmcs' \in Int
    BY <1>3 DEF BooksAreInts
  <2> QED
    BY <2>1, <2>2
<1>6. Rows' = r + z - x /\ Hands' = h + k - i
  BY <1>1, <1>2, <1>4, RowsMove, HandsMove DEF Changes
<1>7. c + z + k = b + x + i
  BY <1>1, <1>2, <1>5 DEF Local
<1>8. Books' = partyDmc' + pool' + Dmcs' + Rows' + Hands'
  BY BooksAreNext
<1>9. Books = b + r + h /\ Books' = c + (r + z - x) + (h + k - i)
  BY <1>4, <1>5, <1>6, <1>8, BooksAre
<1>10. c + (r + z - x) + (h + k - i) = b + r + h
  BY <1>7
<1> QED
  BY <1>9, <1>10

\* A step that moves nothing.
Still ==
  /\ UNCHANGED <<dmc, partyDmc, pool>>
  /\ \A t \in Payments : Held(t)' = Held(t)
  /\ \A w \in Workers : InFlight(w)' = InFlight(w)

LEMMA StillBalanced ==
  ASSUME Still
  PROVE  Books' = Books
<1>1. HeldBy' = HeldBy /\ FlightOf' = FlightOf
  BY DEF Still, HeldBy, FlightOf
<1>2. Rows' = Rows /\ Hands' = Hands /\ Dmcs' = Dmcs
  BY <1>1 DEF Rows, Hands, Dmcs, Still
<1>3. Books' = partyDmc' + pool' + Dmcs' + Rows' + Hands'
  BY BooksAreNext
<1> QED
  BY <1>2, <1>3, BooksAre DEF Still

\* A captain's share is repriced only while nothing pays it out.
SharesStand ==
  \A v \in Workers, u \in Payments : Settles(v, u) => commissionPaise'[u] = commissionPaise[u]

LEMMA SameFlight ==
  ASSUME TypeInv, SharesStand, NEW v \in Workers, jobs'[v] = jobs[v]
  PROVE  InFlight(v)' = InFlight(v)
<1>1. jobs[v].pc \in {"creditShare", "collectBack"} => commissionPaise'[jobs[v].t] = commissionPaise[jobs[v].t]
  BY DEF SharesStand, Settles, SettlingPcs, TypeInv, JobsOK, JobOK
<1> QED
  BY <1>1 DEF InFlight

LEMMA RepricedUnsettled ==
  ASSUME SettledInv, NEW t \in Payments, status[t] # "SETTLED",
         \A u \in Payments \ {t} : commissionPaise'[u] = commissionPaise[u]
  PROVE  SharesStand
BY DEF SharesStand, SettledInv, PayoutOfOK

\* Jobs that have nothing in hand.
EmptyPcs ==
  {"idle", "route", "assign", "open", "expire", "expireClaim", "settle", "settleClaim", "flag"}

LEMMA EmptyHands ==
  ASSUME NEW w, jobs[w].pc \in EmptyPcs
  PROVE  InFlight(w) = 0
BY DEF InFlight, EmptyPcs, UnheldPcs

LEMMA EmptyHandsNext ==
  ASSUME NEW w, jobs'[w].pc \in EmptyPcs
  PROVE  InFlight(w)' = 0
BY DEF InFlight, EmptyPcs, UnheldPcs

LEMMA EmptyMoveIsStill ==
  ASSUME TypeInv, SharesStand, NEW w \in Workers, \A v \in Workers \ {w} : jobs'[v] = jobs[v],
         jobs[w].pc \in EmptyPcs, jobs'[w].pc \in EmptyPcs, UNCHANGED moneyVars,
         \A t \in Payments : status'[t] \in TRANSACTION_HELD_STATES
                             <=> status[t] \in TRANSACTION_HELD_STATES
  PROVE  Still
<1>1. \A t \in Payments : Held(t)' = Held(t)
  BY DEF Held
<1>2. \A v \in Workers : InFlight(v)' = InFlight(v)
  BY SameFlight, EmptyHands, EmptyHandsNext
<1> QED
  BY <1>1, <1>2 DEF Still, moneyVars

LEMMA JobsStillIsStill ==
  ASSUME TypeInv, jobs' = jobs, commissionPaise' = commissionPaise, UNCHANGED moneyVars,
         \A t \in Payments : status'[t] \in TRANSACTION_HELD_STATES
                             <=> status[t] \in TRANSACTION_HELD_STATES
  PROVE  Still
<1>1. \A t \in Payments : Held(t)' = Held(t)
  BY DEF Held
<1>2. SharesStand
  BY DEF SharesStand
<1>3. \A v \in Workers : InFlight(v)' = InFlight(v)
  BY <1>2, SameFlight
<1> QED
  BY <1>1, <1>3 DEF Still, moneyVars

\* Nothing comes in from outside the books, and nothing leaves them.
OutsideStands == UNCHANGED <<drawn, funded, minted>>

LEMMA BooksStep ==
  ASSUME Undisrupted, TypeInv, TypeInv', CarriedInv, SettledInv, ClaimsStand, [Next]_vars,
         OutsideStands
  PROVE  Books' = Books
<1>1. ASSUME NEW w \in Workers, NEW t \in Payments, Create(w, t)
      PROVE  Books' = Books
  <2>1. UNCHANGED moneyVars
    BY <1>1 DEF Create
  <2>2. \A u \in Payments : status'[u] \in TRANSACTION_HELD_STATES
                             <=> status[u] \in TRANSACTION_HELD_STATES
    BY <1>1
    DEF Create, At, TypeInv, RowsOK, JobsOK, JobOK, UnheldPcs,
        TRANSACTION_HELD_STATES, rowVars, rowButStatus
  <2>3. /\ \A v \in Workers \ {w} : jobs'[v] = jobs[v]
        /\ jobs[w].pc \in EmptyPcs /\ jobs'[w].pc \in EmptyPcs
    BY <1>1
    DEF Create, TypeInv, JobsOK, Job, At, Begin, Goto, Finish, Idle, EmptyPcs
  <2>4. status[t] # "SETTLED" /\ \A u \in Payments \ {t} : commissionPaise'[u] = commissionPaise[u]
    BY <1>1 DEF Create, TypeInv, RowsOK
  <2>5. SharesStand
    BY <2>4, RepricedUnsettled
  <2> QED
    BY <2>1, <2>2, <2>3, <2>5, EmptyMoveIsStill, StillBalanced
<1>2. ASSUME NEW w \in Workers, NEW c \in Captains, Route(w, c)
      PROVE  Books' = Books
  <2>1. UNCHANGED moneyVars
    BY <1>2 DEF Route, Eligible
  <2>2. \A u \in Payments : status'[u] \in TRANSACTION_HELD_STATES
                             <=> status[u] \in TRANSACTION_HELD_STATES
    BY <1>2
    DEF Route, Eligible, At, TypeInv, RowsOK, JobsOK, JobOK, UnheldPcs,
        TRANSACTION_HELD_STATES, rowVars, rowButStatus
  <2>3. /\ \A v \in Workers \ {w} : jobs'[v] = jobs[v]
        /\ jobs[w].pc \in EmptyPcs /\ jobs'[w].pc \in EmptyPcs
    BY <1>2
    DEF Route, Eligible, TypeInv, JobsOK, Job, At, Begin, Goto, Finish, Idle,
        EmptyPcs
  <2>4. SharesStand
    BY <1>2 DEF Route, Eligible, SharesStand, rowVars, rowButStatus
  <2> QED
    BY <2>1, <2>2, <2>3, <2>4, EmptyMoveIsStill, StillBalanced
<1>3. ASSUME NEW w \in Workers, NotRouted(w)
      PROVE  Books' = Books
  <2>1. UNCHANGED moneyVars
    BY <1>3 DEF NotRouted
  <2>2. \A u \in Payments : status'[u] \in TRANSACTION_HELD_STATES
                             <=> status[u] \in TRANSACTION_HELD_STATES
    BY <1>3
    DEF NotRouted, At, TypeInv, RowsOK, JobsOK, JobOK, UnheldPcs,
        TRANSACTION_HELD_STATES, rowVars, rowButStatus
  <2>3. /\ \A v \in Workers \ {w} : jobs'[v] = jobs[v]
        /\ jobs[w].pc \in EmptyPcs /\ jobs'[w].pc \in EmptyPcs
    BY <1>3
    DEF NotRouted, TypeInv, JobsOK, Job, At, Begin, Goto, Finish, Idle,
        EmptyPcs
  <2>4. SharesStand
    BY <1>3 DEF NotRouted, SharesStand, rowVars, rowButStatus
  <2> QED
    BY <2>1, <2>2, <2>3, <2>4, EmptyMoveIsStill, StillBalanced
<1>4. ASSUME NEW w \in Workers, AssignLost(w)
      PROVE  Books' = Books
  <2>1. UNCHANGED moneyVars
    BY <1>4 DEF AssignLost
  <2>2. \A u \in Payments : status'[u] \in TRANSACTION_HELD_STATES
                             <=> status[u] \in TRANSACTION_HELD_STATES
    BY <1>4
    DEF AssignLost, At, TypeInv, RowsOK, JobsOK, JobOK, UnheldPcs,
        TRANSACTION_HELD_STATES, rowVars, rowButStatus
  <2>3. /\ \A v \in Workers \ {w} : jobs'[v] = jobs[v]
        /\ jobs[w].pc \in EmptyPcs /\ jobs'[w].pc \in EmptyPcs
    BY <1>4
    DEF AssignLost, TypeInv, JobsOK, Job, At, Begin, Goto, Finish, Idle,
        EmptyPcs
  <2>4. SharesStand
    BY <1>4 DEF AssignLost, SharesStand, rowVars, rowButStatus
  <2> QED
    BY <2>1, <2>2, <2>3, <2>4, EmptyMoveIsStill, StillBalanced
<1>5. ASSUME NEW w \in Workers, Open(w)
      PROVE  Books' = Books
  <2>1. UNCHANGED moneyVars
    BY <1>5 DEF Open
  <2>2. \A u \in Payments : status'[u] \in TRANSACTION_HELD_STATES
                             <=> status[u] \in TRANSACTION_HELD_STATES
    BY <1>5
    DEF Open, At, TypeInv, RowsOK, JobsOK, JobOK, UnheldPcs,
        TRANSACTION_HELD_STATES, rowVars, rowButStatus
  <2>3. /\ \A v \in Workers \ {w} : jobs'[v] = jobs[v]
        /\ jobs[w].pc \in EmptyPcs /\ jobs'[w].pc \in EmptyPcs
    BY <1>5
    DEF Open, TypeInv, JobsOK, Job, At, Begin, Goto, Finish, Idle, EmptyPcs
  <2>4. SharesStand
    BY <1>5 DEF Open, SharesStand, rowVars, rowButStatus
  <2> QED
    BY <2>1, <2>2, <2>3, <2>4, EmptyMoveIsStill, StillBalanced
<1>6. ASSUME NEW w \in Workers, NEW t \in Payments, Webhook(w, t)
      PROVE  Books' = Books
  <2>1. UNCHANGED moneyVars
    BY <1>6 DEF Webhook
  <2>2. \A u \in Payments : status'[u] \in TRANSACTION_HELD_STATES
                             <=> status[u] \in TRANSACTION_HELD_STATES
    BY <1>6
    DEF Webhook, At, TypeInv, RowsOK, JobsOK, JobOK, UnheldPcs,
        TRANSACTION_HELD_STATES, rowVars, rowButStatus
  <2>3. /\ \A v \in Workers \ {w} : jobs'[v] = jobs[v]
        /\ jobs[w].pc \in EmptyPcs /\ jobs'[w].pc \in EmptyPcs
    BY <1>6
    DEF Webhook, TypeInv, JobsOK, Job, At, Begin, Goto, Finish, Idle, EmptyPcs
  <2>4. SharesStand
    BY <1>6 DEF Webhook, SharesStand, rowVars, rowButStatus
  <2> QED
    BY <2>1, <2>2, <2>3, <2>4, EmptyMoveIsStill, StillBalanced
<1>7. ASSUME NEW w \in Workers, SettleRead(w)
      PROVE  Books' = Books
  <2>1. UNCHANGED moneyVars
    BY <1>7 DEF SettleRead
  <2>2. \A u \in Payments : status'[u] \in TRANSACTION_HELD_STATES
                             <=> status[u] \in TRANSACTION_HELD_STATES
    BY <1>7
    DEF SettleRead, At, TypeInv, RowsOK, JobsOK, JobOK, UnheldPcs,
        TRANSACTION_HELD_STATES, rowVars, rowButStatus
  <2>3. /\ \A v \in Workers \ {w} : jobs'[v] = jobs[v]
        /\ jobs[w].pc \in EmptyPcs /\ jobs'[w].pc \in EmptyPcs
    BY <1>7
    DEF SettleRead, TypeInv, JobsOK, Job, At, Begin, Goto, Finish, Idle,
        EmptyPcs
  <2>4. SharesStand
    BY <1>7 DEF SettleRead, SharesStand, rowVars, rowButStatus
  <2> QED
    BY <2>1, <2>2, <2>3, <2>4, EmptyMoveIsStill, StillBalanced
<1>8. ASSUME NEW w \in Workers, SettleLost(w)
      PROVE  Books' = Books
  <2>1. UNCHANGED moneyVars
    BY <1>8 DEF SettleLost
  <2>2. \A u \in Payments : status'[u] \in TRANSACTION_HELD_STATES
                             <=> status[u] \in TRANSACTION_HELD_STATES
    BY <1>8
    DEF SettleLost, At, TypeInv, RowsOK, JobsOK, JobOK, UnheldPcs,
        TRANSACTION_HELD_STATES, rowVars, rowButStatus
  <2>3. /\ \A v \in Workers \ {w} : jobs'[v] = jobs[v]
        /\ jobs[w].pc \in EmptyPcs /\ jobs'[w].pc \in EmptyPcs
    BY <1>8
    DEF SettleLost, TypeInv, JobsOK, Job, At, Begin, Goto, Finish, Idle,
        EmptyPcs
  <2>4. SharesStand
    BY <1>8 DEF SettleLost, SharesStand, rowVars, rowButStatus
  <2> QED
    BY <2>1, <2>2, <2>3, <2>4, EmptyMoveIsStill, StillBalanced
<1>9. ASSUME NEW w \in Workers, NEW t \in Payments, SweepList(w, t)
      PROVE  Books' = Books
  <2>1. UNCHANGED moneyVars
    BY <1>9 DEF SweepList
  <2>2. \A u \in Payments : status'[u] \in TRANSACTION_HELD_STATES
                             <=> status[u] \in TRANSACTION_HELD_STATES
    BY <1>9
    DEF SweepList, At, TypeInv, RowsOK, JobsOK, JobOK, UnheldPcs,
        TRANSACTION_HELD_STATES, rowVars, rowButStatus
  <2>3. /\ \A v \in Workers \ {w} : jobs'[v] = jobs[v]
        /\ jobs[w].pc \in EmptyPcs /\ jobs'[w].pc \in EmptyPcs
    BY <1>9
    DEF SweepList, TypeInv, JobsOK, Job, At, Begin, Goto, Finish, Idle,
        EmptyPcs
  <2>4. SharesStand
    BY <1>9 DEF SweepList, SharesStand, rowVars, rowButStatus
  <2> QED
    BY <2>1, <2>2, <2>3, <2>4, EmptyMoveIsStill, StillBalanced
<1>10. ASSUME NEW w \in Workers, ExpireRead(w)
      PROVE  Books' = Books
  <2>1. UNCHANGED moneyVars
    BY <1>10 DEF ExpireRead
  <2>2. \A u \in Payments : status'[u] \in TRANSACTION_HELD_STATES
                             <=> status[u] \in TRANSACTION_HELD_STATES
    BY <1>10
    DEF ExpireRead, At, TypeInv, RowsOK, JobsOK, JobOK, UnheldPcs,
        TRANSACTION_HELD_STATES, rowVars, rowButStatus
  <2>3. /\ \A v \in Workers \ {w} : jobs'[v] = jobs[v]
        /\ jobs[w].pc \in EmptyPcs /\ jobs'[w].pc \in EmptyPcs
    BY <1>10
    DEF ExpireRead, TypeInv, JobsOK, Job, At, Begin, Goto, Finish, Idle,
        EmptyPcs
  <2>4. SharesStand
    BY <1>10 DEF ExpireRead, SharesStand, rowVars, rowButStatus
  <2> QED
    BY <2>1, <2>2, <2>3, <2>4, EmptyMoveIsStill, StillBalanced
<1>11. ASSUME NEW w \in Workers, ExpireLost(w)
      PROVE  Books' = Books
  <2>1. UNCHANGED moneyVars
    BY <1>11 DEF ExpireLost
  <2>2. \A u \in Payments : status'[u] \in TRANSACTION_HELD_STATES
                             <=> status[u] \in TRANSACTION_HELD_STATES
    BY <1>11
    DEF ExpireLost, At, TypeInv, RowsOK, JobsOK, JobOK, UnheldPcs,
        TRANSACTION_HELD_STATES, rowVars, rowButStatus
  <2>3. /\ \A v \in Workers \ {w} : jobs'[v] = jobs[v]
        /\ jobs[w].pc \in EmptyPcs /\ jobs'[w].pc \in EmptyPcs
    BY <1>11
    DEF ExpireLost, TypeInv, JobsOK, Job, At, Begin, Goto, Finish, Idle,
        EmptyPcs
  <2>4. SharesStand
    BY <1>11 DEF ExpireLost, SharesStand, rowVars, rowButStatus
  <2> QED
    BY <2>1, <2>2, <2>3, <2>4, EmptyMoveIsStill, StillBalanced
<1>12. ASSUME NEW w \in Workers, NEW t \in Payments, ResolveSettle(w, t)
      PROVE  Books' = Books
  <2>1. UNCHANGED moneyVars
    BY <1>12 DEF ResolveSettle
  <2>2. \A u \in Payments : status'[u] \in TRANSACTION_HELD_STATES
                             <=> status[u] \in TRANSACTION_HELD_STATES
    BY <1>12
    DEF ResolveSettle, At, TypeInv, RowsOK, JobsOK, JobOK, UnheldPcs,
        TRANSACTION_HELD_STATES, rowVars, rowButStatus
  <2>3. /\ \A v \in Workers \ {w} : jobs'[v] = jobs[v]
        /\ jobs[w].pc \in EmptyPcs /\ jobs'[w].pc \in EmptyPcs
    BY <1>12
    DEF ResolveSettle, TypeInv, JobsOK, Job, At, Begin, Goto, Finish, Idle,
        EmptyPcs
  <2>4. SharesStand
    BY <1>12 DEF ResolveSettle, SharesStand, rowVars, rowButStatus
  <2> QED
    BY <2>1, <2>2, <2>3, <2>4, EmptyMoveIsStill, StillBalanced
<1>13. ASSUME NEW w \in Workers, NEW t \in Payments, ResolveRelease(w, t)
      PROVE  Books' = Books
  <2>1. UNCHANGED moneyVars
    BY <1>13 DEF ResolveRelease
  <2>2. \A u \in Payments : status'[u] \in TRANSACTION_HELD_STATES
                             <=> status[u] \in TRANSACTION_HELD_STATES
    BY <1>13
    DEF ResolveRelease, At, TypeInv, RowsOK, JobsOK, JobOK, UnheldPcs,
        TRANSACTION_HELD_STATES, rowVars, rowButStatus
  <2>3. /\ \A v \in Workers \ {w} : jobs'[v] = jobs[v]
        /\ jobs[w].pc \in EmptyPcs /\ jobs'[w].pc \in EmptyPcs
    BY <1>13
    DEF ResolveRelease, TypeInv, JobsOK, Job, At, Begin, Goto, Finish, Idle,
        EmptyPcs
  <2>4. SharesStand
    BY <1>13 DEF ResolveRelease, SharesStand, rowVars, rowButStatus
  <2> QED
    BY <2>1, <2>2, <2>3, <2>4, EmptyMoveIsStill, StillBalanced
<1>14. ASSUME NEW t \in Payments, Dispute(t)
      PROVE  Books' = Books
  <2>1. jobs' = jobs /\ commissionPaise' = commissionPaise /\ UNCHANGED moneyVars
    BY <1>14 DEF Dispute, rowVars, rowButStatus
  <2>2. \A u \in Payments : status'[u] \in TRANSACTION_HELD_STATES
                             <=> status[u] \in TRANSACTION_HELD_STATES
    BY <1>14
    DEF Dispute, CanTransition, TRANSACTION_TRANSITIONS, TRANSACTION_STATES,
        TypeInv, RowsOK, TRANSACTION_HELD_STATES, rowVars
  <2> QED
    BY <2>1, <2>2, JobsStillIsStill, StillBalanced
<1>15. ASSUME NEW t \in Payments, WindowCloses(t)
      PROVE  Books' = Books
  <2>1. jobs' = jobs /\ commissionPaise' = commissionPaise /\ UNCHANGED moneyVars
    BY <1>15 DEF WindowCloses, rowVars, rowButStatus
  <2>2. \A u \in Payments : status'[u] \in TRANSACTION_HELD_STATES
                             <=> status[u] \in TRANSACTION_HELD_STATES
    BY <1>15 DEF WindowCloses, TypeInv, RowsOK, TRANSACTION_HELD_STATES, rowVars
  <2> QED
    BY <2>1, <2>2, JobsStillIsStill, StillBalanced
<1>16. ASSUME UNCHANGED vars
      PROVE  Books' = Books
  <2>1. jobs' = jobs /\ commissionPaise' = commissionPaise /\ UNCHANGED moneyVars
    BY <1>16 DEF vars, rowVars, rowButStatus
  <2>2. \A u \in Payments : status'[u] \in TRANSACTION_HELD_STATES
                             <=> status[u] \in TRANSACTION_HELD_STATES
    BY <1>16 DEF vars, TypeInv, RowsOK, TRANSACTION_HELD_STATES, rowVars
  <2> QED
    BY <2>1, <2>2, JobsStillIsStill, StillBalanced
<1>17. ASSUME Crash
      PROVE  Books' = Books
  BY <1>17, NoCrash
<1>18. ASSUME NEW w \in Workers, AssignClaim(w)
      PROVE  Books' = Books
  <2>1. PICK t \in Payments : t = jobs[w].t
    BY <1>18
    DEF AssignClaim, AssignTo, RepricedShare, At, TypeInv, JobsOK, JobOK,
        UnheldPcs
  <2>2. PICK a \in Int, z \in Int, x \in Int :
          a = Amount[t] /\ z = Charge[t] /\ x = commissionPaise[t] /\ 0 <= x /\ x <= z
    BY Prices
  <2>3. PICK p \in Int, o \in Int, b \in Int : p = partyDmc /\ o = pool /\ b = Dmcs
    BY BooksPicked
  <2>4. SharesStand
    <3>1. status[t] # "SETTLED" /\ \A u \in Payments \ {t} : commissionPaise'[u] = commissionPaise[u]
      BY <1>18, <2>1 DEF AssignClaim, AssignTo, RepricedShare, TypeInv, RowsOK
    <3> QED
      BY <3>1, RepricedUnsettled
  <2>5. Changes(w, t)
    <3>1. \A v \in Workers \ {w} : jobs'[v] = jobs[v]
      BY <1>18
      DEF AssignClaim, AssignTo, RepricedShare, TypeInv, JobsOK, Goto, Finish
    <3>2. \A u \in Payments \ {t} : status'[u] = status[u]
      BY <1>18, <2>1
      DEF AssignClaim, AssignTo, RepricedShare, TypeInv, RowsOK, rowVars
    <3> QED
      BY <2>4, <3>1, <3>2, SameFlight DEF Changes
  <2>6. Held(t) = 0 /\ Held(t)' = a
    BY <1>18, <2>1, <2>2
    DEF AssignClaim, AssignTo, RepricedShare, TypeInv, RowsOK, Held,
        TRANSACTION_HELD_STATES
  <2>7. InFlight(w) = 0 /\ InFlight(w)' = 0 - a
    <3>1. jobs[w].pc = "assign" /\ jobs[w].t = t
      BY <1>18, <2>1 DEF AssignClaim, AssignTo, RepricedShare, At
    <3>2. jobs'[w].pc = "hold" /\ jobs'[w].t = t
      BY <1>18, <2>1
      DEF AssignClaim, AssignTo, RepricedShare, Goto, TypeInv, JobsOK, Job
    <3>3. InFlight(w) = 0
      BY <2>2, <3>1 DEF InFlight, UnheldPcs
    <3>4. InFlight(w)' = 0 - a
      BY <2>1, <2>2, <2>4, <3>1, <3>2 DEF InFlight, UnheldPcs
    <3> QED
      BY <3>3, <3>4
  <2>8. partyDmc' = p /\ pool' = o
    BY <1>18, <2>1, <2>2, <2>3
    DEF AssignClaim, AssignTo, RepricedShare, moneyVars
  <2>9. Dmcs' = b
    BY <1>18, <2>3 DEF AssignClaim, AssignTo, RepricedShare, Dmcs, moneyVars
  <2>10. Local(w, t)' = Local(w, t)
    BY <2>2, <2>3, <2>6, <2>7, <2>8, <2>9 DEF Local
  <2> QED
    BY <2>5, <2>10, Balanced
<1>19. ASSUME NEW w \in Workers, AssignInTransaction(w)
      PROVE  Books' = Books
  <2>1. PICK t \in Payments, c \in Captains : t = jobs[w].t /\ c = jobs[w].c
    BY <1>19 DEF AssignInTransaction, At, TypeInv, JobsOK, JobOK, UnheldPcs
  <2>2. PICK a \in Int, z \in Int, x \in Int :
          a = Amount[t] /\ z = Charge[t] /\ x = commissionPaise[t] /\ 0 <= x /\ x <= z
    BY Prices
  <2>3. PICK p \in Int, o \in Int, b \in Int : p = partyDmc /\ o = pool /\ b = Dmcs
    BY BooksPicked
  <2>4. SharesStand
    <3>1. status[t] # "SETTLED" /\ \A u \in Payments \ {t} : commissionPaise'[u] = commissionPaise[u]
      BY <1>19, <2>1 DEF AssignInTransaction, AssignTo, TakeHold, TypeInv, RowsOK
    <3> QED
      BY <3>1, RepricedUnsettled
  <2>5. Changes(w, t)
    <3>1. \A v \in Workers \ {w} : jobs'[v] = jobs[v]
      BY <1>19
      DEF AssignInTransaction, AssignTo, TakeHold, TypeInv, JobsOK, Goto,
          Finish
    <3>2. \A u \in Payments \ {t} : status'[u] = status[u]
      BY <1>19, <2>1
      DEF AssignInTransaction, AssignTo, TakeHold, TypeInv, RowsOK, rowVars
    <3> QED
      BY <2>4, <3>1, <3>2, SameFlight DEF Changes
  <2>6. Held(t) = 0 /\ Held(t)' = a
    BY <1>19, <2>1, <2>2
    DEF AssignInTransaction, AssignTo, TypeInv, RowsOK, Held,
        TRANSACTION_HELD_STATES
  <2>7. TakeHold(w, t, c)
    BY <1>19, <2>1 DEF AssignInTransaction
  <2>8. partyDmc' = p /\ pool' = o
    BY <1>19, <2>1, <2>2, <2>3 DEF AssignInTransaction, moneyVars
  <2>9. jobs[w].pc = "assign" /\ InFlight(w) = 0
    BY <1>19, <2>1, <2>2 DEF AssignInTransaction, At, InFlight, UnheldPcs
  <2>10. CASE WithinCurrentLimit(c, Amount[t])
    <3>1. dmc' = [dmc EXCEPT ![c] = @ - a] /\ Goto(w, "open")
      BY <2>2, <2>7, <2>10 DEF TakeHold
    <3>2. Dmcs' = b - a
      BY <2>2, <2>3, <3>1, OneBalancePays
    <3>3. InFlight(w)' = 0
      BY <3>1, EmptyHandsNext DEF Goto, TypeInv, JobsOK, Job, EmptyPcs
    <3>4. Local(w, t)' = Local(w, t)
      BY <2>2, <2>3, <2>6, <2>8, <2>9, <3>2, <3>3 DEF Local
    <3> QED
      BY <2>5, <3>4, Balanced
  <2>11. CASE ~WithinCurrentLimit(c, Amount[t])
    <3>1. dmc' = dmc /\ Goto(w, "putBack")
      BY <2>7, <2>11 DEF TakeHold
    <3>2. Dmcs' = b
      BY <2>3, <3>1 DEF Dmcs
    <3>3. jobs'[w].pc = "putBack" /\ jobs'[w].t = t
      BY <2>1, <3>1 DEF Goto, TypeInv, JobsOK, Job
    <3>4. InFlight(w)' = 0 - a
      BY <2>2, <3>3 DEF InFlight, UnheldPcs
    <3>5. Local(w, t)' = Local(w, t)
      BY <2>2, <2>3, <2>6, <2>8, <2>9, <3>2, <3>4 DEF Local
    <3> QED
      BY <2>5, <3>5, Balanced
  <2> QED
    BY <2>10, <2>11
<1>20. ASSUME NEW w \in Workers, AssignHold(w)
      PROVE  Books' = Books
  <2>1. PICK t \in Payments, c \in Captains : t = jobs[w].t /\ c = jobs[w].c
    BY <1>20 DEF AssignHold, At, TypeInv, JobsOK, JobOK, UnheldPcs
  <2>2. PICK a \in Int, z \in Int, x \in Int :
          a = Amount[t] /\ z = Charge[t] /\ x = commissionPaise[t] /\ 0 <= x /\ x <= z
    BY Prices
  <2>3. PICK p \in Int, o \in Int, b \in Int : p = partyDmc /\ o = pool /\ b = Dmcs
    BY BooksPicked
  <2>4. SharesStand
    BY <1>20 DEF AssignHold, TakeHold, SharesStand, rowVars, rowButStatus
  <2>5. Changes(w, t)
    <3>1. \A v \in Workers \ {w} : jobs'[v] = jobs[v]
      BY <1>20 DEF AssignHold, TakeHold, TypeInv, JobsOK, Goto, Finish
    <3>2. \A u \in Payments \ {t} : status'[u] = status[u]
      BY <1>20, <2>1 DEF AssignHold, TakeHold, TypeInv, RowsOK, rowVars
    <3> QED
      BY <2>4, <3>1, <3>2, SameFlight DEF Changes
  <2>6. PICK y \in Int : y = Held(t) /\ y = Held(t)'
    BY <1>20, HeldIsInt DEF AssignHold, Held, rowVars
  <2>7. TakeHold(w, t, c)
    BY <1>20, <2>1 DEF AssignHold
  <2>8. partyDmc' = p /\ pool' = o
    BY <1>20, <2>1, <2>2, <2>3 DEF AssignHold, moneyVars
  <2>9. jobs[w].pc = "hold" /\ InFlight(w) = 0 - a
    BY <1>20, <2>1, <2>2 DEF AssignHold, At, InFlight, UnheldPcs
  <2>10. CASE WithinCurrentLimit(c, Amount[t])
    <3>1. dmc' = [dmc EXCEPT ![c] = @ - a] /\ Goto(w, "open")
      BY <2>2, <2>7, <2>10 DEF TakeHold
    <3>2. Dmcs' = b - a
      BY <2>2, <2>3, <3>1, OneBalancePays
    <3>3. InFlight(w)' = 0
      BY <3>1, EmptyHandsNext DEF Goto, TypeInv, JobsOK, Job, EmptyPcs
    <3>4. Local(w, t)' = Local(w, t)
      BY <2>2, <2>3, <2>6, <2>8, <2>9, <3>2, <3>3 DEF Local
    <3> QED
      BY <2>5, <3>4, Balanced
  <2>11. CASE ~WithinCurrentLimit(c, Amount[t])
    <3>1. dmc' = dmc /\ Goto(w, "putBack")
      BY <2>7, <2>11 DEF TakeHold
    <3>2. Dmcs' = b
      BY <2>3, <3>1 DEF Dmcs
    <3>3. jobs'[w].pc = "putBack" /\ jobs'[w].t = t
      BY <2>1, <3>1 DEF Goto, TypeInv, JobsOK, Job
    <3>4. InFlight(w)' = 0 - a
      BY <2>2, <3>3 DEF InFlight, UnheldPcs
    <3>5. Local(w, t)' = Local(w, t)
      BY <2>2, <2>3, <2>6, <2>8, <2>9, <3>2, <3>4 DEF Local
    <3> QED
      BY <2>5, <3>5, Balanced
  <2> QED
    BY <2>10, <2>11
<1>21. ASSUME NEW w \in Workers, PutBack(w)
      PROVE  Books' = Books
  <2>1. PICK t \in Payments : t = jobs[w].t
    BY <1>21 DEF PutBack, HandBack, At, TypeInv, JobsOK, JobOK, UnheldPcs
  <2>2. PICK a \in Int, z \in Int, x \in Int :
          a = Amount[t] /\ z = Charge[t] /\ x = commissionPaise[t] /\ 0 <= x /\ x <= z
    BY Prices
  <2>3. PICK p \in Int, o \in Int, b \in Int : p = partyDmc /\ o = pool /\ b = Dmcs
    BY BooksPicked
  <2>4. SharesStand
    BY <1>21 DEF PutBack, HandBack, SharesStand, rowVars, rowButStatus
  <2>5. Changes(w, t)
    <3>1. \A v \in Workers \ {w} : jobs'[v] = jobs[v]
      BY <1>21 DEF PutBack, HandBack, TypeInv, JobsOK, Goto, Finish
    <3>2. \A u \in Payments \ {t} : status'[u] = status[u]
      BY <1>21, <2>1 DEF PutBack, HandBack, TypeInv, RowsOK, rowVars
    <3> QED
      BY <2>4, <3>1, <3>2, SameFlight DEF Changes
  <2>6. Held(t) = a /\ Held(t)' = 0
    <3>1. status[t] = "ASSIGNED"
      BY <1>21, <2>1 DEF PutBack, At, ClaimsStand, ClaimStands, HoldDue, UnheldPcs
    <3>2. status'[t] = "CREATED"
      BY <1>21, <2>1, <3>1 DEF PutBack, HandBack, TypeInv, RowsOK
    <3> QED
      BY <2>2, <3>1, <3>2 DEF Held, TRANSACTION_HELD_STATES
  <2>7. InFlight(w) = 0 - a /\ InFlight(w)' = 0
    <3>1. jobs[w].pc = "putBack" /\ jobs[w].t = t
      BY <1>21, <2>1 DEF PutBack, HandBack, At
    <3>2. jobs'[w].pc = "idle"
      BY <1>21 DEF PutBack, HandBack, Finish, Idle, TypeInv, JobsOK
    <3>3. InFlight(w) = 0 - a
      BY <2>2, <3>1 DEF InFlight, UnheldPcs
    <3>4. InFlight(w)' = 0
      BY <2>1, <2>2, <2>4, <3>1, <3>2 DEF InFlight, UnheldPcs
    <3> QED
      BY <3>3, <3>4
  <2>8. partyDmc' = p /\ pool' = o
    BY <1>21, <2>1, <2>2, <2>3 DEF PutBack, moneyVars
  <2>9. Dmcs' = b
    BY <1>21, <2>3 DEF PutBack, Dmcs, moneyVars
  <2>10. Local(w, t)' = Local(w, t)
    BY <2>2, <2>3, <2>6, <2>7, <2>8, <2>9 DEF Local
  <2> QED
    BY <2>5, <2>10, Balanced
<1>22. ASSUME NEW w \in Workers, NEW t \in Payments, NEW c \in Captains, Decline(w, t, c)
      PROVE  Books' = Books
  <2>1. jobs[w].pc = "idle"
    BY <1>22 DEF Decline, At
  <2>2. PICK a \in Int, z \in Int, x \in Int :
          a = Amount[t] /\ z = Charge[t] /\ x = commissionPaise[t] /\ 0 <= x /\ x <= z
    BY Prices
  <2>3. PICK p \in Int, o \in Int, b \in Int : p = partyDmc /\ o = pool /\ b = Dmcs
    BY BooksPicked
  <2>4. SharesStand
    BY <1>22 DEF Decline, Declined, HandBack, SharesStand, rowVars, rowButStatus
  <2>5. Changes(w, t)
    <3>1. \A v \in Workers \ {w} : jobs'[v] = jobs[v]
      BY <1>22 DEF Decline, Declined, HandBack, TypeInv, JobsOK, Goto, Finish
    <3>2. \A u \in Payments \ {t} : status'[u] = status[u]
      BY <1>22, <2>1 DEF Decline, Declined, HandBack, TypeInv, RowsOK, rowVars
    <3> QED
      BY <2>4, <3>1, <3>2, SameFlight DEF Changes
  <2>6. Held(t) = a /\ Held(t)' = 0
    BY <1>22, <2>2
    DEF Decline, Declined, HandBack, TypeInv, RowsOK, Held,
        TRANSACTION_HELD_STATES
  <2>7. InFlight(w) = 0 /\ InFlight(w)' = a
    <3>1. jobs[w].pc = "idle"
      BY <1>22 DEF Decline, At
    <3>2. jobs'[w].pc = "release" /\ jobs'[w].t = t
      BY <1>22 DEF Decline, TypeInv, JobsOK, Job
    <3> QED
      BY <2>2, <3>1, <3>2 DEF InFlight, UnheldPcs
  <2>8. partyDmc' = p /\ pool' = o
    BY <1>22, <2>1, <2>2, <2>3 DEF Decline, moneyVars
  <2>9. Dmcs' = b
    BY <1>22, <2>3 DEF Decline, Dmcs, moneyVars
  <2>10. Local(w, t)' = Local(w, t)
    BY <2>2, <2>3, <2>6, <2>7, <2>8, <2>9 DEF Local
  <2> QED
    BY <2>5, <2>10, Balanced
<1>23. ASSUME NEW w \in Workers, Release(w)
      PROVE  Books' = Books
  <2>1. PICK t \in Payments, c \in Captains : t = jobs[w].t /\ c = jobs[w].c
    BY <1>23 DEF Release, At, TypeInv, JobsOK, JobOK, UnheldPcs
  <2>2. PICK a \in Int, z \in Int, x \in Int :
          a = Amount[t] /\ z = Charge[t] /\ x = commissionPaise[t] /\ 0 <= x /\ x <= z
    BY Prices
  <2>3. PICK p \in Int, o \in Int, b \in Int : p = partyDmc /\ o = pool /\ b = Dmcs
    BY BooksPicked
  <2>4. SharesStand
    BY <1>23 DEF Release, GiveBack, SharesStand, rowVars, rowButStatus
  <2>5. Changes(w, t)
    <3>1. \A v \in Workers \ {w} : jobs'[v] = jobs[v]
      BY <1>23 DEF Release, GiveBack, TypeInv, JobsOK, Goto, Finish
    <3>2. \A u \in Payments \ {t} : status'[u] = status[u]
      BY <1>23, <2>1 DEF Release, GiveBack, TypeInv, RowsOK, rowVars
    <3> QED
      BY <2>4, <3>1, <3>2, SameFlight DEF Changes
  <2>6. PICK y \in Int : y = Held(t) /\ y = Held(t)'
    BY <1>23, HeldIsInt DEF Release, Held, rowVars
  <2>7. InFlight(w) = a /\ InFlight(w)' = 0
    <3>1. jobs[w].pc = "release" /\ jobs[w].t = t
      BY <1>23, <2>1 DEF Release, At
    <3>2. jobs'[w].pc = "idle"
      BY <1>23 DEF Release, Finish, Idle, TypeInv, JobsOK
    <3>3. InFlight(w) = a
      BY <2>2, <3>1 DEF InFlight, UnheldPcs
    <3>4. InFlight(w)' = 0
      BY <2>1, <2>2, <2>4, <3>1, <3>2 DEF InFlight, UnheldPcs
    <3> QED
      BY <3>3, <3>4
  <2>8. partyDmc' = p /\ pool' = o
    BY <1>23, <2>1, <2>2, <2>3 DEF Release, moneyVars
  <2>9. Dmcs' = b + a
    <3>1. dmc' = [dmc EXCEPT ![c] = @ + a]
      BY <1>23, <2>1, <2>2 DEF Release, GiveBack
    <3> QED
      BY <2>3, <3>1, OneBalanceMoves
  <2>10. Local(w, t)' = Local(w, t)
    BY <2>2, <2>3, <2>6, <2>7, <2>8, <2>9 DEF Local
  <2> QED
    BY <2>5, <2>10, Balanced
<1>24. ASSUME NEW w \in Workers, SettleInTransaction(w)
      PROVE  Books' = Books
  <2>1. PICK t \in Payments : t = jobs[w].t
    BY <1>24
    DEF SettleInTransaction, MarkSettled, At, TypeInv, JobsOK, JobOK,
        UnheldPcs
  <2>2. PICK a \in Int, z \in Int, x \in Int :
          a = Amount[t] /\ z = Charge[t] /\ x = commissionPaise[t] /\ 0 <= x /\ x <= z
    BY Prices
  <2>3. PICK p \in Int, o \in Int, b \in Int : p = partyDmc /\ o = pool /\ b = Dmcs
    BY BooksPicked
  <2>4. SharesStand
    BY <1>24
    DEF SettleInTransaction, MarkSettled, SharesStand, rowVars, rowButStatus
  <2>5. Changes(w, t)
    <3>1. \A v \in Workers \ {w} : jobs'[v] = jobs[v]
      BY <1>24
      DEF SettleInTransaction, MarkSettled, TypeInv, JobsOK, Goto, Finish
    <3>2. \A u \in Payments \ {t} : status'[u] = status[u]
      BY <1>24, <2>1
      DEF SettleInTransaction, MarkSettled, TypeInv, RowsOK, rowVars
    <3> QED
      BY <2>4, <3>1, <3>2, SameFlight DEF Changes
  <2>6. Held(t) = a /\ Held(t)' = 0
    BY <1>24, <2>1, <2>2
    DEF SettleInTransaction, MarkSettled, At, TypeInv, RowsOK, JobsOK, JobOK,
        Held, TRANSACTION_HELD_STATES
  <2>7. InFlight(w) = 0 /\ InFlight(w)' = 0
    <3>1. jobs[w].pc = "settleClaim" /\ jobs[w].t = t
      BY <1>24, <2>1 DEF SettleInTransaction, MarkSettled, At
    <3>2. jobs'[w].pc = "idle"
      BY <1>24
      DEF SettleInTransaction, MarkSettled, Finish, Idle, TypeInv, JobsOK
    <3>3. InFlight(w) = 0
      BY <2>2, <3>1 DEF InFlight, UnheldPcs
    <3>4. InFlight(w)' = 0
      BY <2>1, <2>2, <2>4, <3>1, <3>2 DEF InFlight, UnheldPcs
    <3> QED
      BY <3>3, <3>4
  <2>8. x <= o + z
    BY <2>2, <2>3 DEF TypeInv, MoneyOK
  <2>9. partyDmc' = p + a - z /\ pool' = o + z - x
    BY <1>24, <2>1, <2>2, <2>3, <2>8 DEF SettleInTransaction, moneyVars
  <2>10. Dmcs' = b + x
    <3>1. PICK c \in Captains : c = captainId[t]
      BY <2>1, <1>24 DEF SettleInTransaction, MarkSettled, At, TypeInv, JobsOK, JobOK, CarriedInv,
                       CarriedOf, TRANSACTION_HELD_STATES
    <3>2. dmc' = [dmc EXCEPT ![c] = @ + x]
      BY <1>24, <2>1, <2>2, <2>3, <2>8, <3>1 DEF SettleInTransaction
    <3> QED
      BY <2>2, <2>3, <3>2, OneBalanceMoves
  <2>11. Local(w, t)' = Local(w, t)
    BY <2>2, <2>3, <2>6, <2>7, <2>8, <2>9, <2>10 DEF Local
  <2> QED
    BY <2>5, <2>11, Balanced
<1>25. ASSUME NEW w \in Workers, SettleClaim(w)
      PROVE  Books' = Books
  <2>1. PICK t \in Payments : t = jobs[w].t
    BY <1>25 DEF SettleClaim, MarkSettled, At, TypeInv, JobsOK, JobOK, UnheldPcs
  <2>2. PICK a \in Int, z \in Int, x \in Int :
          a = Amount[t] /\ z = Charge[t] /\ x = commissionPaise[t] /\ 0 <= x /\ x <= z
    BY Prices
  <2>3. PICK p \in Int, o \in Int, b \in Int : p = partyDmc /\ o = pool /\ b = Dmcs
    BY BooksPicked
  <2>4. SharesStand
    BY <1>25 DEF SettleClaim, MarkSettled, SharesStand, rowVars, rowButStatus
  <2>5. Changes(w, t)
    <3>1. \A v \in Workers \ {w} : jobs'[v] = jobs[v]
      BY <1>25 DEF SettleClaim, MarkSettled, TypeInv, JobsOK, Goto, Finish
    <3>2. \A u \in Payments \ {t} : status'[u] = status[u]
      BY <1>25, <2>1 DEF SettleClaim, MarkSettled, TypeInv, RowsOK, rowVars
    <3> QED
      BY <2>4, <3>1, <3>2, SameFlight DEF Changes
  <2>6. Held(t) = a /\ Held(t)' = 0
    BY <1>25, <2>1, <2>2
    DEF SettleClaim, MarkSettled, At, TypeInv, RowsOK, JobsOK, JobOK, Held,
        TRANSACTION_HELD_STATES
  <2>7. InFlight(w) = 0 /\ InFlight(w)' = a
    <3>1. jobs[w].pc = "settleClaim" /\ jobs[w].t = t
      BY <1>25, <2>1 DEF SettleClaim, MarkSettled, At
    <3>2. jobs'[w].pc = "credit" /\ jobs'[w].t = t
      BY <1>25, <2>1 DEF SettleClaim, MarkSettled, Goto, TypeInv, JobsOK, Job
    <3>3. InFlight(w) = 0
      BY <2>2, <3>1 DEF InFlight, UnheldPcs
    <3>4. InFlight(w)' = a
      BY <2>1, <2>2, <2>4, <3>1, <3>2 DEF InFlight, UnheldPcs
    <3> QED
      BY <3>3, <3>4
  <2>8. partyDmc' = p /\ pool' = o
    BY <1>25, <2>1, <2>2, <2>3 DEF SettleClaim, moneyVars
  <2>9. Dmcs' = b
    BY <1>25, <2>3 DEF SettleClaim, Dmcs, moneyVars
  <2>10. Local(w, t)' = Local(w, t)
    BY <2>2, <2>3, <2>6, <2>7, <2>8, <2>9 DEF Local
  <2> QED
    BY <2>5, <2>10, Balanced
<1>26. ASSUME NEW w \in Workers, SettleCredit(w)
      PROVE  Books' = Books
  <2>1. PICK t \in Payments : t = jobs[w].t
    BY <1>26 DEF SettleCredit, At, TypeInv, JobsOK, JobOK, UnheldPcs
  <2>2. PICK a \in Int, z \in Int, x \in Int :
          a = Amount[t] /\ z = Charge[t] /\ x = commissionPaise[t] /\ 0 <= x /\ x <= z
    BY Prices
  <2>3. PICK p \in Int, o \in Int, b \in Int : p = partyDmc /\ o = pool /\ b = Dmcs
    BY BooksPicked
  <2>4. SharesStand
    BY <1>26 DEF SettleCredit, SharesStand, rowVars, rowButStatus
  <2>5. Changes(w, t)
    <3>1. \A v \in Workers \ {w} : jobs'[v] = jobs[v]
      BY <1>26 DEF SettleCredit, TypeInv, JobsOK, Goto, Finish
    <3>2. \A u \in Payments \ {t} : status'[u] = status[u]
      BY <1>26, <2>1 DEF SettleCredit, TypeInv, RowsOK, rowVars
    <3> QED
      BY <2>4, <3>1, <3>2, SameFlight DEF Changes
  <2>6. PICK y \in Int : y = Held(t) /\ y = Held(t)'
    BY <1>26, HeldIsInt DEF SettleCredit, Held, rowVars
  <2>7. InFlight(w) = a /\ InFlight(w)' = z
    <3>1. jobs[w].pc = "credit" /\ jobs[w].t = t
      BY <1>26, <2>1 DEF SettleCredit, At
    <3>2. jobs'[w].pc = "collect" /\ jobs'[w].t = t
      BY <1>26, <2>1 DEF SettleCredit, Goto, TypeInv, JobsOK, Job
    <3>3. InFlight(w) = a
      BY <2>2, <3>1 DEF InFlight, UnheldPcs
    <3>4. InFlight(w)' = z
      BY <2>1, <2>2, <2>4, <3>1, <3>2 DEF InFlight, UnheldPcs
    <3> QED
      BY <3>3, <3>4
  <2>8. partyDmc' = p + a - z /\ pool' = o
    BY <1>26, <2>1, <2>2, <2>3 DEF SettleCredit, moneyVars
  <2>9. Dmcs' = b
    BY <1>26, <2>3 DEF SettleCredit, Dmcs, moneyVars
  <2>10. Local(w, t)' = Local(w, t)
    BY <2>2, <2>3, <2>6, <2>7, <2>8, <2>9 DEF Local
  <2> QED
    BY <2>5, <2>10, Balanced
<1>27. ASSUME NEW w \in Workers, SettleCollect(w)
      PROVE  Books' = Books
  <2>1. PICK t \in Payments : t = jobs[w].t
    BY <1>27 DEF SettleCollect, At, TypeInv, JobsOK, JobOK, UnheldPcs
  <2>2. PICK a \in Int, z \in Int, x \in Int :
          a = Amount[t] /\ z = Charge[t] /\ x = commissionPaise[t] /\ 0 <= x /\ x <= z
    BY Prices
  <2>3. PICK p \in Int, o \in Int, b \in Int : p = partyDmc /\ o = pool /\ b = Dmcs
    BY BooksPicked
  <2>4. SharesStand
    BY <1>27 DEF SettleCollect, SharesStand, rowVars, rowButStatus
  <2>5. Changes(w, t)
    <3>1. \A v \in Workers \ {w} : jobs'[v] = jobs[v]
      BY <1>27 DEF SettleCollect, TypeInv, JobsOK, Goto, Finish
    <3>2. \A u \in Payments \ {t} : status'[u] = status[u]
      BY <1>27, <2>1 DEF SettleCollect, TypeInv, RowsOK, rowVars
    <3> QED
      BY <2>4, <3>1, <3>2, SameFlight DEF Changes
  <2>6. PICK y \in Int : y = Held(t) /\ y = Held(t)'
    BY <1>27, HeldIsInt DEF SettleCollect, Held, rowVars
  <2>7. InFlight(w) = z /\ InFlight(w)' = 0
    <3>1. jobs[w].pc = "collect" /\ jobs[w].t = t
      BY <1>27, <2>1 DEF SettleCollect, At
    <3>2. jobs'[w].pc = "payShare" /\ jobs'[w].t = t
      BY <1>27, <2>1 DEF SettleCollect, Goto, TypeInv, JobsOK, Job
    <3>3. InFlight(w) = z
      BY <2>2, <3>1 DEF InFlight, UnheldPcs
    <3>4. InFlight(w)' = 0
      BY <2>1, <2>2, <2>4, <3>1, <3>2 DEF InFlight, UnheldPcs
    <3> QED
      BY <3>3, <3>4
  <2>8. partyDmc' = p /\ pool' = o + z
    BY <1>27, <2>1, <2>2, <2>3 DEF SettleCollect, moneyVars
  <2>9. Dmcs' = b
    BY <1>27, <2>3 DEF SettleCollect, Dmcs, moneyVars
  <2>10. Local(w, t)' = Local(w, t)
    BY <2>2, <2>3, <2>6, <2>7, <2>8, <2>9 DEF Local
  <2> QED
    BY <2>5, <2>10, Balanced
<1>28. ASSUME NEW w \in Workers, SettlePayShare(w)
      PROVE  Books' = Books
  <2>1. PICK t \in Payments : t = jobs[w].t
    BY <1>28 DEF SettlePayShare, At, TypeInv, JobsOK, JobOK, UnheldPcs
  <2>2. PICK a \in Int, z \in Int, x \in Int :
          a = Amount[t] /\ z = Charge[t] /\ x = commissionPaise[t] /\ 0 <= x /\ x <= z
    BY Prices
  <2>3. PICK p \in Int, o \in Int, b \in Int : p = partyDmc /\ o = pool /\ b = Dmcs
    BY BooksPicked
  <2>4. SharesStand
    BY <1>28 DEF SettlePayShare, SharesStand, rowVars, rowButStatus
  <2>5. Changes(w, t)
    <3>1. \A v \in Workers \ {w} : jobs'[v] = jobs[v]
      BY <1>28 DEF SettlePayShare, TypeInv, JobsOK, Goto, Finish
    <3>2. \A u \in Payments \ {t} : status'[u] = status[u]
      BY <1>28, <2>1 DEF SettlePayShare, TypeInv, RowsOK, rowVars
    <3> QED
      BY <2>4, <3>1, <3>2, SameFlight DEF Changes
  <2>6. PICK y \in Int : y = Held(t) /\ y = Held(t)'
    BY <1>28, HeldIsInt DEF SettlePayShare, Held, rowVars
  <2>7. jobs[w].pc = "payShare" /\ InFlight(w) = 0
    BY <1>28, <2>1 DEF SettlePayShare, At, InFlight, UnheldPcs
  <2>8. partyDmc' = p /\ Dmcs' = b
    BY <1>28, <2>3 DEF SettlePayShare, Dmcs
  <2>9. CASE x = 0 /\ pool' = o /\ Goto(w, "flag")
    <3>1. InFlight(w)' = 0
      BY <2>9, EmptyHandsNext DEF Goto, TypeInv, JobsOK, Job, EmptyPcs
    <3>2. Local(w, t)' = Local(w, t)
      BY <2>3, <2>6, <2>7, <2>8, <2>9, <3>1 DEF Local
    <3> QED
      BY <2>5, <3>2, Balanced
  <2>10. CASE pool' = o - x /\ Goto(w, "creditShare")
    <3>1. jobs'[w].pc = "creditShare" /\ jobs'[w].t = t
      BY <2>1, <2>10 DEF Goto, TypeInv, JobsOK, Job
    <3>2. commissionPaise' = commissionPaise
      BY <1>28 DEF SettlePayShare, rowVars, rowButStatus
    <3>3. InFlight(w)' = x
      BY <2>2, <3>1, <3>2 DEF InFlight, UnheldPcs
    <3>4. Local(w, t)' = Local(w, t)
      BY <2>2, <2>3, <2>6, <2>7, <2>8, <2>10, <3>3 DEF Local
    <3> QED
      BY <2>5, <3>4, Balanced
  <2>11. CASE pool' = o /\ Finish(w)
    <3>1. InFlight(w)' = 0
      BY <2>11, EmptyHandsNext DEF Finish, Idle, TypeInv, JobsOK, EmptyPcs
    <3>2. Local(w, t)' = Local(w, t)
      BY <2>3, <2>6, <2>7, <2>8, <2>11, <3>1 DEF Local
    <3> QED
      BY <2>5, <3>2, Balanced
  <2> QED
    BY <1>28, <2>1, <2>2, <2>3, <2>9, <2>10, <2>11 DEF SettlePayShare
<1>29. ASSUME NEW w \in Workers, SettleCreditShare(w)
      PROVE  Books' = Books
  <2>1. PICK t \in Payments : t = jobs[w].t
    BY <1>29 DEF SettleCreditShare, At, TypeInv, JobsOK, JobOK, UnheldPcs
  <2>2. PICK a \in Int, z \in Int, x \in Int :
          a = Amount[t] /\ z = Charge[t] /\ x = commissionPaise[t] /\ 0 <= x /\ x <= z
    BY Prices
  <2>3. PICK p \in Int, o \in Int, b \in Int : p = partyDmc /\ o = pool /\ b = Dmcs
    BY BooksPicked
  <2>4. SharesStand
    BY <1>29 DEF SettleCreditShare, SharesStand, rowVars, rowButStatus
  <2>5. Changes(w, t)
    <3>1. \A v \in Workers \ {w} : jobs'[v] = jobs[v]
      BY <1>29 DEF SettleCreditShare, TypeInv, JobsOK, Goto, Finish
    <3>2. \A u \in Payments \ {t} : status'[u] = status[u]
      BY <1>29, <2>1 DEF SettleCreditShare, TypeInv, RowsOK, rowVars
    <3> QED
      BY <2>4, <3>1, <3>2, SameFlight DEF Changes
  <2>6. PICK y \in Int : y = Held(t) /\ y = Held(t)'
    BY <1>29, HeldIsInt DEF SettleCreditShare, Held, rowVars
  <2>7. InFlight(w) = x /\ InFlight(w)' = 0
    <3>1. jobs[w].pc = "creditShare" /\ jobs[w].t = t
      BY <1>29, <2>1 DEF SettleCreditShare, At
    <3>2. jobs'[w].pc = "flag"
      BY <1>29 DEF SettleCreditShare, Goto, TypeInv, JobsOK, Job
    <3>3. InFlight(w) = x
      BY <2>2, <3>1 DEF InFlight, UnheldPcs
    <3>4. InFlight(w)' = 0
      BY <2>1, <2>2, <2>4, <3>1, <3>2 DEF InFlight, UnheldPcs
    <3> QED
      BY <3>3, <3>4
  <2>8. partyDmc' = p /\ pool' = o
    BY <1>29, <2>1, <2>2, <2>3 DEF SettleCreditShare, moneyVars
  <2>9. Dmcs' = b + x
    <3>1. Settles(w, t)
      BY <1>29, <2>1 DEF SettleCreditShare, At, Settles, SettlingPcs
    <3>2. status[t] = "SETTLED"
      BY <3>1 DEF SettledInv, PayoutOfOK
    <3>3. PICK c \in Captains : c = captainId[t]
      BY <3>2 DEF CarriedInv, CarriedOf, PaidStates, HeldFrom
    <3>4. dmc' = [dmc EXCEPT ![c] = @ + x]
      BY <1>29, <2>1, <2>2, <3>3 DEF SettleCreditShare
    <3> QED
      BY <2>2, <2>3, <3>4, OneBalanceMoves
  <2>10. Local(w, t)' = Local(w, t)
    BY <2>2, <2>3, <2>6, <2>7, <2>8, <2>9 DEF Local
  <2> QED
    BY <2>5, <2>10, Balanced
<1>30. ASSUME NEW w \in Workers, ExpireInTransaction(w)
      PROVE  Books' = Books
  <2>1. PICK t \in Payments : t = jobs[w].t
    BY <1>30
    DEF ExpireInTransaction, MarkExpired, At, TypeInv, JobsOK, JobOK,
        UnheldPcs
  <2>2. PICK a \in Int, z \in Int, x \in Int :
          a = Amount[t] /\ z = Charge[t] /\ x = commissionPaise[t] /\ 0 <= x /\ x <= z
    BY Prices
  <2>3. PICK p \in Int, o \in Int, b \in Int : p = partyDmc /\ o = pool /\ b = Dmcs
    BY BooksPicked
  <2>4. SharesStand
    BY <1>30
    DEF ExpireInTransaction, MarkExpired, SharesStand, rowVars, rowButStatus
  <2>5. Changes(w, t)
    <3>1. \A v \in Workers \ {w} : jobs'[v] = jobs[v]
      BY <1>30
      DEF ExpireInTransaction, MarkExpired, TypeInv, JobsOK, Goto, Finish
    <3>2. \A u \in Payments \ {t} : status'[u] = status[u]
      BY <1>30, <2>1
      DEF ExpireInTransaction, MarkExpired, TypeInv, RowsOK, rowVars
    <3> QED
      BY <2>4, <3>1, <3>2, SameFlight DEF Changes
  <2>6. status[t] = jobs[w].from /\ status'[t] = "EXPIRED" /\ InFlight(w) = 0
    BY <1>30, <2>1
    DEF ExpireInTransaction, MarkExpired, At, TypeInv, RowsOK, InFlight,
        UnheldPcs
  <2>7. ~WasHeld(w) => status[t] \notin TRANSACTION_HELD_STATES
    BY <2>1, <2>6 DEF WasHeld, CarriedInv, CarriedOf
  <2>8. partyDmc' = p /\ pool' = o
    BY <1>30, <2>1, <2>2, <2>3 DEF ExpireInTransaction, moneyVars
  <2>9. CASE ~WasHeld(w)
    <3>1. Held(t) = 0 /\ Held(t)' = 0
      BY <2>6, <2>7, <2>9 DEF Held, TRANSACTION_HELD_STATES
    <3>2. dmc' = dmc /\ jobs'[w].pc = "idle"
      BY <1>30, <2>9 DEF ExpireInTransaction, Finish, Idle, TypeInv, JobsOK, moneyVars
    <3>3. Dmcs' = b /\ InFlight(w)' = 0
      BY <2>3, <3>2, EmptyHandsNext DEF Dmcs, EmptyPcs
    <3>4. Local(w, t)' = Local(w, t)
      BY <2>3, <2>6, <2>8, <3>1, <3>3 DEF Local
    <3> QED
      BY <2>5, <3>4, Balanced
  <2>10. CASE WasHeld(w)
    <3>1. PICK c \in Captains : c = captainId[t]
      BY <2>1, <2>10 DEF WasHeld, TypeInv, RowsOK
    <3>2. Held(t) = a /\ Held(t)' = 0
      BY <2>2, <2>6, <2>10 DEF WasHeld, Held, TRANSACTION_HELD_STATES
    <3>3. dmc' = [dmc EXCEPT ![c] = @ + a] /\ jobs'[w].pc = "idle"
      BY <1>30, <2>1, <2>2, <2>10, <3>1 DEF ExpireInTransaction, GiveBack, Finish, Idle, TypeInv, JobsOK
    <3>4. Dmcs' = b + a /\ InFlight(w)' = 0
      <4>1. Dmcs' = b + a
        BY <2>2, <2>3, <3>3, OneBalanceMoves
      <4>2. InFlight(w)' = 0
        BY <3>3, EmptyHandsNext DEF EmptyPcs
      <4> QED
        BY <4>1, <4>2
    <3>5. Local(w, t)' = Local(w, t)
      BY <2>2, <2>3, <2>6, <2>8, <3>2, <3>4 DEF Local
    <3> QED
      BY <2>5, <3>5, Balanced
  <2> QED
    BY <2>9, <2>10
<1>31. ASSUME NEW w \in Workers, ExpireClaim(w)
      PROVE  Books' = Books
  <2>1. PICK t \in Payments : t = jobs[w].t
    BY <1>31 DEF ExpireClaim, MarkExpired, At, TypeInv, JobsOK, JobOK, UnheldPcs
  <2>2. PICK a \in Int, z \in Int, x \in Int :
          a = Amount[t] /\ z = Charge[t] /\ x = commissionPaise[t] /\ 0 <= x /\ x <= z
    BY Prices
  <2>3. PICK p \in Int, o \in Int, b \in Int : p = partyDmc /\ o = pool /\ b = Dmcs
    BY BooksPicked
  <2>4. SharesStand
    BY <1>31 DEF ExpireClaim, MarkExpired, SharesStand, rowVars, rowButStatus
  <2>5. Changes(w, t)
    <3>1. \A v \in Workers \ {w} : jobs'[v] = jobs[v]
      BY <1>31 DEF ExpireClaim, MarkExpired, TypeInv, JobsOK, Goto, Finish
    <3>2. \A u \in Payments \ {t} : status'[u] = status[u]
      BY <1>31, <2>1 DEF ExpireClaim, MarkExpired, TypeInv, RowsOK, rowVars
    <3> QED
      BY <2>4, <3>1, <3>2, SameFlight DEF Changes
  <2>6. status[t] = jobs[w].from /\ status'[t] = "EXPIRED" /\ InFlight(w) = 0
    BY <1>31, <2>1
    DEF ExpireClaim, MarkExpired, At, TypeInv, RowsOK, InFlight, UnheldPcs
  <2>7. ~WasHeld(w) => status[t] \notin TRANSACTION_HELD_STATES
    BY <2>1, <2>6 DEF WasHeld, CarriedInv, CarriedOf
  <2>8. partyDmc' = p /\ pool' = o
    BY <1>31, <2>1, <2>2, <2>3 DEF ExpireClaim, moneyVars
  <2>9. CASE ~WasHeld(w)
    <3>1. Held(t) = 0 /\ Held(t)' = 0
      BY <2>6, <2>7, <2>9 DEF Held, TRANSACTION_HELD_STATES
    <3>2. dmc' = dmc /\ jobs'[w].pc = "idle"
      BY <1>31, <2>9 DEF ExpireClaim, Finish, Idle, TypeInv, JobsOK, moneyVars
    <3>3. Dmcs' = b /\ InFlight(w)' = 0
      BY <2>3, <3>2, EmptyHandsNext DEF Dmcs, EmptyPcs
    <3>4. Local(w, t)' = Local(w, t)
      BY <2>3, <2>6, <2>8, <3>1, <3>3 DEF Local
    <3> QED
      BY <2>5, <3>4, Balanced
  <2>10. CASE WasHeld(w)
    <3>1. PICK c \in Captains : c = captainId[t]
      BY <2>1, <2>10 DEF WasHeld, TypeInv, RowsOK
    <3>2. Held(t) = a /\ Held(t)' = 0
      BY <2>2, <2>6, <2>10 DEF WasHeld, Held, TRANSACTION_HELD_STATES
    <3>3. dmc' = dmc /\ jobs'[w].pc = "release" /\ jobs'[w].t = t
      BY <1>31, <2>1, <2>10 DEF ExpireClaim, TypeInv, JobsOK, Job, moneyVars
    <3>4. Dmcs' = b /\ InFlight(w)' = a
      BY <2>2, <2>3, <3>3 DEF Dmcs, InFlight, UnheldPcs
    <3>5. Local(w, t)' = Local(w, t)
      BY <2>2, <2>3, <2>6, <2>8, <3>2, <3>4 DEF Local
    <3> QED
      BY <2>5, <3>5, Balanced
  <2> QED
    BY <2>9, <2>10
<1>32. ASSUME NEW t \in Payments, NEW c \in Captains, DeclineInTransaction(t, c)
      PROVE  Books' = Books
  <2>1. /\ status[t] = "ASSIGNED" /\ status'[t] = "CREATED" /\ jobs' = jobs
        /\ \A u \in Payments \ {t} : status'[u] = status[u]
    BY <1>32 DEF DeclineInTransaction, Declined, HandBack, TypeInv, RowsOK
  <2>2. PICK a \in Int, z \in Int, x \in Int :
          a = Amount[t] /\ z = Charge[t] /\ x = commissionPaise[t] /\ 0 <= x /\ x <= z
    BY Prices
  <2>3. PICK p \in Int, o \in Int, b \in Int : p = partyDmc /\ o = pool /\ b = Dmcs
    BY BooksPicked
  <2>4. Held(t) = a /\ Held(t)' = 0
    BY <2>1, <2>2 DEF Held, TRANSACTION_HELD_STATES
  <2>5. PICK r \in Int, h \in Int : r = Rows /\ h = Hands
    BY BooksType DEF BooksAreInts
  <2>6. Rows' = r - a
    <3>1. Rows' = Rows + Held(t)' - Held(t)
      BY <2>1, RowsMove
    <3> QED
      BY <2>2, <2>4, <2>5, <3>1
  <2>7. Hands' = h
    <3>1. commissionPaise' = commissionPaise
      BY <1>32 DEF DeclineInTransaction, Declined, HandBack
    <3>2. FlightOf' = FlightOf
      BY <2>1, <3>1 DEF FlightOf, InFlight
    <3> QED
      BY <2>5, <3>2 DEF Hands
  <2>8. Dmcs' = b + a
    <3>1. dmc' = [dmc EXCEPT ![c] = @ + a]
      BY <1>32, <2>2 DEF DeclineInTransaction, GiveBack
    <3> QED
      BY <2>3, <3>1, OneBalanceMoves
  <2>9. partyDmc' = p /\ pool' = o
    BY <1>32, <2>3 DEF DeclineInTransaction
  <2>10. Books' = partyDmc' + pool' + Dmcs' + Rows' + Hands'
    BY BooksAreNext
  <2>11. p + o + (b + a) + (r - a) + h = p + o + b + r + h
    BY <2>2, <2>3, <2>5
  <2> QED
    BY <2>3, <2>5, <2>6, <2>7, <2>8, <2>9, <2>10, <2>11, BooksAre
<1>33. ASSUME NEW w \in Workers, SettleCreditFails(w)
      PROVE  Books' = Books
  <2>1. PICK t \in Payments : t = jobs[w].t
    BY <1>33 DEF SettleCreditFails, At, TypeInv, JobsOK, JobOK, UnheldPcs
  <2>2. PICK a \in Int, z \in Int, x \in Int :
          a = Amount[t] /\ z = Charge[t] /\ x = commissionPaise[t] /\ 0 <= x /\ x <= z
    BY Prices
  <2>3. PICK p \in Int, o \in Int, b \in Int : p = partyDmc /\ o = pool /\ b = Dmcs
    BY BooksPicked
  <2>4. SharesStand
    BY <1>33 DEF SettleCreditFails, SharesStand, rowVars, rowButStatus
  <2>5. Changes(w, t)
    <3>1. \A v \in Workers \ {w} : jobs'[v] = jobs[v]
      BY <1>33 DEF SettleCreditFails, TypeInv, JobsOK, Goto, Finish
    <3>2. \A u \in Payments \ {t} : status'[u] = status[u]
      BY <1>33, <2>1 DEF SettleCreditFails, TypeInv, RowsOK, rowVars
    <3> QED
      BY <2>4, <3>1, <3>2, SameFlight DEF Changes
  <2>6. PICK y \in Int : y = Held(t) /\ y = Held(t)'
    BY <1>33, HeldIsInt DEF SettleCreditFails, Held, rowVars
  <2>7. InFlight(w) = x /\ InFlight(w)' = x
    <3>1. jobs[w].pc = "creditShare" /\ jobs[w].t = t
      BY <1>33, <2>1 DEF SettleCreditFails, At
    <3>2. jobs'[w].pc = "collectBack" /\ jobs'[w].t = t
      BY <1>33, <2>1 DEF SettleCreditFails, Goto, TypeInv, JobsOK, Job
    <3>3. InFlight(w) = x
      BY <2>2, <3>1 DEF InFlight, UnheldPcs
    <3>4. commissionPaise' = commissionPaise
      BY <1>33 DEF SettleCreditFails, rowVars, rowButStatus
    <3>5. InFlight(w)' = x
      BY <2>2, <3>2, <3>4 DEF InFlight, UnheldPcs
    <3> QED
      BY <3>3, <3>5
  <2>8. partyDmc' = p /\ pool' = o
    BY <1>33, <2>1, <2>2, <2>3 DEF SettleCreditFails, moneyVars
  <2>9. Dmcs' = b
    BY <1>33, <2>3 DEF SettleCreditFails, Dmcs, moneyVars
  <2>10. Local(w, t)' = Local(w, t)
    BY <2>2, <2>3, <2>6, <2>7, <2>8, <2>9 DEF Local
  <2> QED
    BY <2>5, <2>10, Balanced
<1>34. ASSUME NEW w \in Workers, SettleCollectBack(w)
      PROVE  Books' = Books
  <2>1. PICK t \in Payments : t = jobs[w].t
    BY <1>34 DEF SettleCollectBack, At, TypeInv, JobsOK, JobOK, UnheldPcs
  <2>2. PICK a \in Int, z \in Int, x \in Int :
          a = Amount[t] /\ z = Charge[t] /\ x = commissionPaise[t] /\ 0 <= x /\ x <= z
    BY Prices
  <2>3. PICK p \in Int, o \in Int, b \in Int : p = partyDmc /\ o = pool /\ b = Dmcs
    BY BooksPicked
  <2>4. SharesStand
    BY <1>34 DEF SettleCollectBack, SharesStand, rowVars, rowButStatus
  <2>5. Changes(w, t)
    <3>1. \A v \in Workers \ {w} : jobs'[v] = jobs[v]
      BY <1>34 DEF SettleCollectBack, TypeInv, JobsOK, Goto, Finish
    <3>2. \A u \in Payments \ {t} : status'[u] = status[u]
      BY <1>34, <2>1 DEF SettleCollectBack, TypeInv, RowsOK, rowVars
    <3> QED
      BY <2>4, <3>1, <3>2, SameFlight DEF Changes
  <2>6. PICK y \in Int : y = Held(t) /\ y = Held(t)'
    BY <1>34, HeldIsInt DEF SettleCollectBack, Held, rowVars
  <2>7. InFlight(w) = x /\ InFlight(w)' = 0
    <3>1. jobs[w].pc = "collectBack" /\ jobs[w].t = t
      BY <1>34, <2>1 DEF SettleCollectBack, At
    <3>2. jobs'[w].pc = "idle"
      BY <1>34 DEF SettleCollectBack, Finish, Idle, TypeInv, JobsOK
    <3>3. InFlight(w) = x
      BY <2>2, <3>1 DEF InFlight, UnheldPcs
    <3>4. InFlight(w)' = 0
      BY <2>1, <2>2, <2>4, <3>1, <3>2 DEF InFlight, UnheldPcs
    <3> QED
      BY <3>3, <3>4
  <2>8. partyDmc' = p /\ pool' = o + x
    BY <1>34, <2>1, <2>2, <2>3 DEF SettleCollectBack, moneyVars
  <2>9. Dmcs' = b
    BY <1>34, <2>3 DEF SettleCollectBack, Dmcs, moneyVars
  <2>10. Local(w, t)' = Local(w, t)
    BY <2>2, <2>3, <2>6, <2>7, <2>8, <2>9 DEF Local
  <2> QED
    BY <2>5, <2>10, Balanced
<1>35. ASSUME NEW w \in Workers, SettleFlag(w)
      PROVE  Books' = Books
  <2>1. UNCHANGED moneyVars
    BY <1>35 DEF SettleFlag
  <2>2. \A u \in Payments : status'[u] \in TRANSACTION_HELD_STATES
                             <=> status[u] \in TRANSACTION_HELD_STATES
    BY <1>35
    DEF SettleFlag, At, TypeInv, RowsOK, JobsOK, JobOK, UnheldPcs,
        TRANSACTION_HELD_STATES, rowVars, rowButStatus
  <2>3. /\ \A v \in Workers \ {w} : jobs'[v] = jobs[v]
        /\ jobs[w].pc \in EmptyPcs /\ jobs'[w].pc \in EmptyPcs
    BY <1>35
    DEF SettleFlag, TypeInv, JobsOK, Job, At, Begin, Goto, Finish, Idle,
        EmptyPcs
  <2>4. SharesStand
    BY <1>35 DEF SettleFlag, SharesStand, rowVars, rowButStatus
  <2> QED
    BY <2>1, <2>2, <2>3, <2>4, EmptyMoveIsStill, StillBalanced
<1>36. ASSUME NEW w \in Workers, SettleAborts(w)
      PROVE  Books' = Books
  <2>1. UNCHANGED moneyVars
    BY <1>36 DEF SettleAborts
  <2>2. \A u \in Payments : status'[u] \in TRANSACTION_HELD_STATES
                             <=> status[u] \in TRANSACTION_HELD_STATES
    BY <1>36
    DEF SettleAborts, At, TypeInv, RowsOK, JobsOK, JobOK, UnheldPcs,
        TRANSACTION_HELD_STATES, rowVars, rowButStatus
  <2>3. /\ \A v \in Workers \ {w} : jobs'[v] = jobs[v]
        /\ jobs[w].pc \in EmptyPcs /\ jobs'[w].pc \in EmptyPcs
    BY <1>36
    DEF SettleAborts, TypeInv, JobsOK, Job, At, Begin, Goto, Finish, Idle,
        EmptyPcs
  <2>4. SharesStand
    BY <1>36 DEF SettleAborts, SharesStand, rowVars, rowButStatus
  <2> QED
    BY <2>1, <2>2, <2>3, <2>4, EmptyMoveIsStill, StillBalanced
<1>37. ASSUME NEW w \in Workers, SettleEntryFails(w)
      PROVE  Books' = Books
  <2>1. PICK x \in Nat : x = commissionPaise[jobs[w].t] /\ x > 0
    BY <1>37 DEF SettleEntryFails, At, TypeInv, RowsOK, JobsOK, JobOK
  <2> QED
    BY <1>37, <2>1 DEF SettleEntryFails, OutsideStands, TypeInv, HistoryOK
<1>38. ASSUME NEW amount \in Withdrawals, DebitPool(amount)
      PROVE  Books' = Books
  BY <1>38 DEF DebitPool, OutsideStands, TypeInv, HistoryOK
<1>39. ASSUME NEW amount \in Fundings, FundPool(amount)
      PROVE  Books' = Books
  BY <1>39 DEF FundPool, OutsideStands, TypeInv, HistoryOK
<1> QED
  BY <1>1, <1>2, <1>3, <1>4, <1>5, <1>6, <1>7, <1>8, <1>9, <1>10, <1>11,
     <1>12, <1>13, <1>14, <1>15, <1>16, <1>17, <1>18, <1>19, <1>20, <1>21,
     <1>22, <1>23, <1>24, <1>25, <1>26, <1>27, <1>28, <1>29, <1>30, <1>31,
     <1>32, <1>33, <1>34, <1>35, <1>36, <1>37, <1>38, <1>39
  DEF Next, Request, Decision, JobStep, Workers

\* Only three steps do.
LEMMA OutsideStep ==
  ASSUME [Next]_vars
  PROVE  \/ OutsideStands
         \/ \E w \in Workers : SettleEntryFails(w)
         \/ \E amount \in Withdrawals : DebitPool(amount)
         \/ \E amount \in Fundings : FundPool(amount)
<1>1. ASSUME NEW w \in Workers, NEW t \in Payments, Create(w, t)
      PROVE  OutsideStands
  BY <1>1 DEF Create, envVars, OutsideStands
<1>2. ASSUME NEW w \in Workers, NEW t \in Payments, Webhook(w, t)
      PROVE  OutsideStands
  BY <1>2 DEF Webhook, envVars, OutsideStands
<1>3. ASSUME NEW w \in Workers, NEW t \in Payments, ResolveSettle(w, t)
      PROVE  OutsideStands
  BY <1>3 DEF ResolveSettle, envVars, OutsideStands
<1>4. ASSUME NEW w \in Workers, NEW t \in Payments, ResolveRelease(w, t)
      PROVE  OutsideStands
  BY <1>4 DEF ResolveRelease, envVars, OutsideStands
<1>5. ASSUME NEW w \in Workers, NEW t \in Payments, SweepList(w, t)
      PROVE  OutsideStands
  BY <1>5 DEF SweepList, envVars, OutsideStands
<1>6. ASSUME NEW w \in Workers, NEW t \in Payments, NEW c \in Captains, Decline(w, t, c)
      PROVE  OutsideStands
  BY <1>6 DEF Decline, envVars, OutsideStands
<1>7. ASSUME NEW t \in Payments, Dispute(t)
      PROVE  OutsideStands
  BY <1>7 DEF Dispute, envVars, OutsideStands
<1>8. ASSUME NEW t \in Payments, WindowCloses(t)
      PROVE  OutsideStands
  BY <1>8 DEF WindowCloses, envVars, OutsideStands
<1>9. ASSUME NEW t \in Payments, NEW c \in Captains, DeclineInTransaction(t, c)
      PROVE  OutsideStands
  BY <1>9 DEF DeclineInTransaction, envVars, OutsideStands
<1>10. ASSUME NEW w \in Workers, NEW c \in Captains, Route(w, c)
      PROVE  OutsideStands
  BY <1>10 DEF Route, envVars, OutsideStands
<1>11. ASSUME NEW w \in Workers, NotRouted(w)
      PROVE  OutsideStands
  BY <1>11 DEF NotRouted, envVars, OutsideStands
<1>12. ASSUME NEW w \in Workers, AssignInTransaction(w)
      PROVE  OutsideStands
  BY <1>12 DEF AssignInTransaction, envVars, OutsideStands
<1>13. ASSUME NEW w \in Workers, AssignClaim(w)
      PROVE  OutsideStands
  BY <1>13 DEF AssignClaim, envVars, OutsideStands
<1>14. ASSUME NEW w \in Workers, AssignHold(w)
      PROVE  OutsideStands
  BY <1>14 DEF AssignHold, envVars, OutsideStands
<1>15. ASSUME NEW w \in Workers, AssignLost(w)
      PROVE  OutsideStands
  BY <1>15 DEF AssignLost, envVars, OutsideStands
<1>16. ASSUME NEW w \in Workers, PutBack(w)
      PROVE  OutsideStands
  BY <1>16 DEF PutBack, envVars, OutsideStands
<1>17. ASSUME NEW w \in Workers, Open(w)
      PROVE  OutsideStands
  BY <1>17 DEF Open, envVars, OutsideStands
<1>18. ASSUME NEW w \in Workers, Release(w)
      PROVE  OutsideStands
  BY <1>18 DEF Release, envVars, OutsideStands
<1>19. ASSUME NEW w \in Workers, SettleRead(w)
      PROVE  OutsideStands
  BY <1>19 DEF SettleRead, envVars, OutsideStands
<1>20. ASSUME NEW w \in Workers, SettleInTransaction(w)
      PROVE  OutsideStands
  BY <1>20 DEF SettleInTransaction, envVars, OutsideStands
<1>21. ASSUME NEW w \in Workers, SettleClaim(w)
      PROVE  OutsideStands
  BY <1>21 DEF SettleClaim, envVars, OutsideStands
<1>22. ASSUME NEW w \in Workers, SettleLost(w)
      PROVE  OutsideStands
  BY <1>22 DEF SettleLost, envVars, OutsideStands
<1>23. ASSUME NEW w \in Workers, SettleCredit(w)
      PROVE  OutsideStands
  BY <1>23 DEF SettleCredit, envVars, OutsideStands
<1>24. ASSUME NEW w \in Workers, SettleCollect(w)
      PROVE  OutsideStands
  BY <1>24 DEF SettleCollect, envVars, OutsideStands
<1>25. ASSUME NEW w \in Workers, SettlePayShare(w)
      PROVE  OutsideStands
  BY <1>25 DEF SettlePayShare, envVars, OutsideStands
<1>26. ASSUME NEW w \in Workers, SettleCreditShare(w)
      PROVE  OutsideStands
  BY <1>26 DEF SettleCreditShare, envVars, OutsideStands
<1>27. ASSUME NEW w \in Workers, SettleCreditFails(w)
      PROVE  OutsideStands
  BY <1>27 DEF SettleCreditFails, envVars, OutsideStands
<1>28. ASSUME NEW w \in Workers, SettleCollectBack(w)
      PROVE  OutsideStands
  BY <1>28 DEF SettleCollectBack, envVars, OutsideStands
<1>29. ASSUME NEW w \in Workers, SettleFlag(w)
      PROVE  OutsideStands
  BY <1>29 DEF SettleFlag, envVars, OutsideStands
<1>30. ASSUME NEW w \in Workers, SettleAborts(w)
      PROVE  OutsideStands
  BY <1>30 DEF SettleAborts, envVars, OutsideStands
<1>31. ASSUME NEW w \in Workers, ExpireRead(w)
      PROVE  OutsideStands
  BY <1>31 DEF ExpireRead, envVars, OutsideStands
<1>32. ASSUME NEW w \in Workers, ExpireInTransaction(w)
      PROVE  OutsideStands
  BY <1>32 DEF ExpireInTransaction, envVars, OutsideStands
<1>33. ASSUME NEW w \in Workers, ExpireClaim(w)
      PROVE  OutsideStands
  BY <1>33 DEF ExpireClaim, envVars, OutsideStands
<1>34. ASSUME NEW w \in Workers, ExpireLost(w)
      PROVE  OutsideStands
  BY <1>34 DEF ExpireLost, envVars, OutsideStands
<1>35. ASSUME Crash
      PROVE  OutsideStands
  BY <1>35 DEF Crash, envVars, OutsideStands
<1>36. ASSUME UNCHANGED vars
      PROVE  OutsideStands
  BY <1>36 DEF vars, envVars, OutsideStands
<1> QED
  BY <1>1, <1>2, <1>3, <1>4, <1>5, <1>6, <1>7, <1>8, <1>9, <1>10, <1>11, <1>12,
     <1>13, <1>14, <1>15, <1>16, <1>17, <1>18, <1>19, <1>20, <1>21, <1>22, <1>23,
     <1>24, <1>25, <1>26, <1>27, <1>28, <1>29, <1>30, <1>31, <1>32, <1>33, <1>34,
     <1>35, <1>36
  DEF Next, Request, Decision, JobStep, Workers

\* A share that is put back although the captain has it is in the books twice.
LEMMA EntryFailsMints ==
  ASSUME TypeInv, TypeInv', NEW w \in Workers, SettleEntryFails(w)
  PROVE  Books' - minted' = Books - minted /\ UNCHANGED <<drawn, funded>>
<1>1. PICK t \in Payments : t = jobs[w].t
  BY DEF SettleEntryFails, At, TypeInv, JobsOK, JobOK, UnheldPcs
<1>2. PICK x \in Nat : x = commissionPaise[t]
  BY DEF TypeInv, RowsOK
<1>3. SharesStand
  BY DEF SettleEntryFails, SharesStand, rowVars, rowButStatus
<1>4. \A v \in Workers \ {w} : jobs'[v] = jobs[v]
  BY DEF SettleEntryFails, TypeInv, JobsOK, Goto
<1>5. Hands' = Hands + InFlight(w)' - InFlight(w)
  BY <1>3, <1>4, SameFlight, HandsMove
<1>6. InFlight(w) = 0
  BY EmptyHands DEF SettleEntryFails, At, EmptyPcs
<1>7. InFlight(w)' = x
  <2>1. jobs'[w].pc = "collectBack" /\ jobs'[w].t = t
    BY <1>1 DEF SettleEntryFails, Goto, TypeInv, JobsOK, Job
  <2>2. commissionPaise' = commissionPaise
    BY DEF SettleEntryFails, rowVars, rowButStatus
  <2> QED
    BY <1>2, <2>1, <2>2 DEF InFlight, UnheldPcs
<1>8. Rows' = Rows /\ Dmcs' = Dmcs /\ partyDmc' = partyDmc /\ pool' = pool
  <2>1. HeldBy' = HeldBy
    BY DEF SettleEntryFails, HeldBy, Held, rowVars
  <2> QED
    BY <2>1 DEF SettleEntryFails, Rows, Dmcs, moneyVars
<1>9. PICK p \in Int, o \in Int, b \in Int : p = partyDmc /\ o = pool /\ b = Dmcs
  BY BooksPicked
<1>10. PICK r \in Int, h \in Int : r = Rows /\ h = Hands
  BY BooksType DEF BooksAreInts
<1>11. PICK m \in Int : m = minted /\ minted' = m + x
  BY <1>1, <1>2 DEF SettleEntryFails, TypeInv, HistoryOK
<1>12. Books = p + o + b + r + h /\ Books' = p + o + b + r + (h + x)
  <2>1. Hands' = h + x
    BY <1>5, <1>6, <1>7, <1>10, <1>2
  <2> QED
    BY <1>8, <1>9, <1>10, <2>1, BooksAre, BooksAreNext
<1>13. (p + o + b + r + (h + x)) - (m + x) = (p + o + b + r + h) - m
  BY <1>2, <1>9, <1>10, <1>11
<1> QED
  BY <1>11, <1>12, <1>13 DEF SettleEntryFails

\* What others take or put in is all that leaves or enters.
LEMMA PoolMovesBooks ==
  ASSUME TypeInv, UNCHANGED <<rowVars, dmc, partyDmc, jobs>>, NEW d \in Int, pool' = pool + d
  PROVE  Books' = Books + d
<1>1. HeldBy' = HeldBy /\ FlightOf' = FlightOf
  BY DEF HeldBy, Held, FlightOf, InFlight, rowVars, rowButStatus
<1>2. Rows' = Rows /\ Hands' = Hands /\ Dmcs' = Dmcs
  BY <1>1 DEF Rows, Hands, Dmcs
<1>3. PICK p \in Int, o \in Int, b \in Int : p = partyDmc /\ o = pool /\ b = Dmcs
  BY BooksPicked
<1>4. PICK r \in Int, h \in Int : r = Rows /\ h = Hands
  BY BooksType DEF BooksAreInts
<1>5. Books = p + o + b + r + h /\ Books' = p + (o + d) + b + r + h
  BY <1>2, <1>3, <1>4, BooksAre, BooksAreNext
<1>6. p + (o + d) + b + r + h = (p + o + b + r + h) + d
  BY <1>3, <1>4
<1> QED
  BY <1>5, <1>6

LEMMA BooksMove ==
  ASSUME Undisrupted, TypeInv, TypeInv', CarriedInv, SettledInv, ClaimsStand, BooksBalance,
         [Next]_vars
  PROVE  BooksBalance'
<1>1. PICK k \in Int : k = Total(OpeningDmc, Captains)
  BY PayInFiniteAssumption, PayInAssumption, TotalInt
<1>2. PICK f \in Int, d \in Int, m \in Int : f = funded /\ d = drawn /\ m = minted
  BY DEF TypeInv, HistoryOK
<1>3. Books = k + f - d + m
  BY <1>1, <1>2 DEF BooksBalance
<1>4. CASE OutsideStands
  <2>1. Books' = Books
    BY <1>4, BooksStep
  <2> QED
    BY <1>4, <2>1 DEF OutsideStands, BooksBalance
<1>5. ASSUME NEW w \in Workers, SettleEntryFails(w)
      PROVE  BooksBalance'
  <2>1. PICK x \in Int : minted' = m + x
    <3>1. PICK x \in Nat : x = commissionPaise[jobs[w].t]
      BY <1>5 DEF SettleEntryFails, At, TypeInv, RowsOK, JobsOK, JobOK, UnheldPcs
    <3> QED
      BY <1>2, <1>5, <3>1 DEF SettleEntryFails
  <2>2. Books' - (m + x) = k + f - d + m - m /\ UNCHANGED <<drawn, funded>>
    BY <1>5, <1>2, <1>3, <2>1, EntryFailsMints
  <2>3. Books' \in Int
    <3>1. BooksAreInts'
      <4>1. (TypeInv => BooksAreInts)'
        BY BooksType, PTL
      <4> QED
        BY <4>1
    <3> QED
      BY <3>1, BooksAreNext DEF BooksAreInts
  <2>4. Books' = k + f - d + (m + x)
    BY <1>1, <1>2, <2>1, <2>2, <2>3
  <2> QED
    BY <1>1, <1>2, <2>1, <2>2, <2>4 DEF BooksBalance
<1>6. ASSUME NEW amount \in Withdrawals, DebitPool(amount)
      PROVE  BooksBalance'
  <2>1. PICK a \in Int : a = amount
    BY PayInAssumption
  <2>2. PICK o \in Int : o = pool
    BY DEF TypeInv, MoneyOK
  <2>3. pool' = pool + (0 - a)
    BY <1>6, <2>1, <2>2 DEF DebitPool
  <2>4. Books' = Books + (0 - a)
    BY <1>6, <2>1, <2>3, PoolMovesBooks DEF DebitPool
  <2>5. drawn' = d + a /\ funded' = f /\ minted' = m
    BY <1>6, <1>2, <2>1 DEF DebitPool
  <2>6. Books' = k + f - (d + a) + m
    BY <1>1, <1>2, <1>3, <2>1, <2>4
  <2> QED
    BY <1>1, <2>5, <2>6 DEF BooksBalance
<1>7. ASSUME NEW amount \in Fundings, FundPool(amount)
      PROVE  BooksBalance'
  <2>1. PICK a \in Int : a = amount
    BY PayInAssumption
  <2>2. Books' = Books + a
    BY <1>7, <2>1, PoolMovesBooks DEF FundPool
  <2>3. drawn' = d /\ funded' = f + a /\ minted' = m
    BY <1>7, <1>2, <2>1 DEF FundPool
  <2>4. Books' = k + (f + a) - d + m
    BY <1>1, <1>2, <1>3, <2>1, <2>2
  <2> QED
    BY <1>1, <2>3, <2>4 DEF BooksBalance
<1> QED
  BY <1>4, <1>5, <1>6, <1>7, OutsideStep

\* Every paise that captains began with, and what others put into the pool, less
\* what they took from it, is in a balance, held for an open pay-in or in the
\* hands of a running request; DMC is made only where the entry of a share fails
\* after its credit.
THEOREM BooksAlwaysBalance == ASSUME Undisrupted PROVE Spec => []BooksBalance
<1>1. Init => BooksBalance
  <2> SUFFICES ASSUME Init
               PROVE  BooksBalance
    OBVIOUS
  <2>1. Rows = 0
    <3>1. \A t \in Payments : HeldBy[t] = 0
      BY DEF Init, HeldBy, Held, TRANSACTION_HELD_STATES
    <3> QED
      BY <3>1, PayInFiniteAssumption, TotalZero DEF Rows
  <2>2. Hands = 0
    <3>1. \A w \in Workers : FlightOf[w] = 0
      BY EmptyHands DEF Init, FlightOf, Idle, EmptyPcs
    <3> QED
      BY <3>1, PayInFiniteAssumption, TotalZero DEF Hands
  <2>3. partyDmc = 0 /\ pool = 0 /\ Dmcs = Total(OpeningDmc, Captains)
    BY DEF Init, Dmcs
  <2>4. PICK b \in Int : b = Dmcs
    BY <2>3, PayInFiniteAssumption, TotalInt
  <2> QED
    BY <2>1, <2>2, <2>3, <2>4, BooksAre DEF BooksBalance, Init
<1>2. /\ TypeInv /\ TypeInv' /\ CarriedInv /\ SettledInv /\ ClaimsStand /\ BooksBalance
      /\ [Next]_vars
      => BooksBalance'
  BY BooksMove
<1> QED
  BY <1>1, <1>2, TypeInvariant, CarriedInvariant, SettledInvariant, ClaimsInvariant, PTL DEF Spec

=============================================================================
