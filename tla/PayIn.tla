-------------------------------- MODULE PayIn --------------------------------
(***************************************************************************)
(* The life of a pay-in: transaction.service.ts, its sweep, and the        *)
(* handlers that call them.  A party's customer pays a captain in rupees,  *)
(* and the captain's DMC, held since the pay-in was assigned, becomes the  *)
(* party's.                                                                *)
(*                                                                         *)
(* Handlers are jobs, as in PayoutWorkflow: a job remembers what it read   *)
(* and the write it does next; between two writes anything may run.  A     *)
(* handler whose only write re-tests everything it read is one action.     *)
(*                                                                         *)
(* The pool is shared: admin withdraws from it and funds it, and pay-outs   *)
(* add their charges and take their shares.  DebitPool and FundPool stand  *)
(* for all of them.                                                        *)
(*                                                                         *)
(* assignCaptain takes the best of the eligible captains; here it may take *)
(* any of them.  Presence and suspension of captains, history and audit    *)
(* rows and callbacks are left out, and so is cancel, which nothing calls. *)
(***************************************************************************)
EXTENDS Integers

CONSTANTS
  Payments,          \* what a party's customers pay, one per partyReference
  Captains,
  Handlers,          \* requests being served at a time
  Sweepers,          \* passes of the sweep that may overlap
  None,              \* null
  Amount,            \* Amount[t]: what the customer pays and the captain gives up
  Charge,            \* Charge[t]: partyCommissionPaise
  DefaultShare,      \* DefaultShare[t]: captain's share at the default rate
  AgreedShare,       \* AgreedShare[c]: the share captain c's own rate gives
  Ceiling,           \* Ceiling[c]: creditLimitPaise ?? collateralBalancePaise
  OpeningDmc,        \* OpeningDmc[c]: captain c's balance at the start
  UseTransactions,   \* supportsTransactions(): MongoDB is a replica set
  PromptAssignment,  \* timing assumption, see Undisturbed
  MaxCrashes,        \* bound: how often the process may stop
  MaxFailures,       \* bound: failed writes when a share is paid, per pay-in
  Withdrawals,       \* amounts others take from the pool at a time
  Fundings,          \* amounts others put into the pool at a time
  MaxFunded          \* bound: what others put into the pool in all

Workers == Handlers \cup Sweepers

TRANSACTION_STATES ==
  {"CREATED", "ASSIGNED", "AWAITING_CUSTOMER", "CONFIRMED", "SETTLED",
   "EXPIRED", "CANCELLED", "DISPUTED"}

\* "ABSENT": no row has been inserted yet.
Statuses == TRANSACTION_STATES \cup {"ABSENT"}

TRANSACTION_TRANSITIONS ==
  [s \in TRANSACTION_STATES |->
     CASE s = "CREATED"           -> {"ASSIGNED", "CANCELLED", "EXPIRED"}
       [] s = "ASSIGNED"          -> {"AWAITING_CUSTOMER", "CREATED", "CANCELLED", "EXPIRED"}
       [] s = "AWAITING_CUSTOMER" -> {"CONFIRMED", "EXPIRED", "DISPUTED"}
       [] s = "CONFIRMED"         -> {"SETTLED", "DISPUTED"}
       [] s = "DISPUTED"          -> {"SETTLED", "EXPIRED"}
       [] OTHER                   -> {}]

TRANSACTION_TERMINAL_STATES == {"SETTLED", "EXPIRED", "CANCELLED"}

TRANSACTION_HELD_STATES == {"ASSIGNED", "AWAITING_CUSTOMER", "CONFIRMED", "DISPUTED"}

CanTransition(from, to) ==
  from \in TRANSACTION_STATES /\ to \in TRANSACTION_TRANSITIONS[from]

ASSUME PayInAssumption ==
  /\ None \notin Captains /\ None \notin Payments
  /\ Amount \in [Payments -> Nat \ {0}]
  /\ Charge \in [Payments -> Nat]
  /\ DefaultShare \in [Payments -> Nat]
  /\ \A t \in Payments : DefaultShare[t] <= Charge[t] /\ Charge[t] <= Amount[t]
  /\ AgreedShare \in [Captains -> Nat]
  /\ Ceiling \in [Captains -> Nat]
  /\ OpeningDmc \in [Captains -> Nat]
  /\ UseTransactions \in BOOLEAN
  /\ PromptAssignment \in BOOLEAN
  /\ MaxCrashes \in Nat /\ MaxFailures \in Nat /\ MaxFunded \in Nat
  /\ Withdrawals \subseteq Nat \ {0} /\ Fundings \subseteq Nat \ {0}

VARIABLES
  \* the Transaction row
  status, captainId, previousCaptainIds, commissionPaise, commissionPaid,
  windowClosed,      \* expiresAt has passed
  \* balances
  dmc, earned,       \* Captain.dmcBalancePaise, commissionEarnedTotalPaise
  partyDmc, pool,    \* Party.dmcBalancePaise, poolBalancePaise
  \* the process
  jobs, crashes,
  \* history: writes that failed when a pay-in's share was paid; what others
  \* have taken from the pool and put into it; shares that were put back into
  \* the pool although the captain has them
  failures, drawn, funded, minted,
  \* history: amounts taken from a captain for a pay-in and not given back,
  \* and credits to the party
  hold, credited

rowButStatus ==
  <<captainId, previousCaptainIds, commissionPaise, commissionPaid, windowClosed>>
rowVars == <<status, rowButStatus>>
moneyVars == <<dmc, earned, partyDmc, pool>>
historyVars == <<hold, credited>>
envVars == <<crashes, failures, drawn, funded, minted>>
vars == <<rowVars, moneyVars, jobs, envVars, historyVars>>

-----------------------------------------------------------------------------
(* Jobs *)

\* Assigned, but the captain's capital is not committed: the two writes of
\* assignCaptain that follow the claim.
UnheldPcs == {"hold", "putBack"}

Pcs == UnheldPcs \cup
       {"idle", "route", "assign", "open", "release", "expire", "expireClaim",
        "settle", "settleClaim", "credit", "collect", "payShare", "creditShare",
        "flag", "collectBack"}

Idle == [pc |-> "idle", t |-> None, c |-> None, from |-> "ABSENT", by |-> "request"]

At(w, p) == jobs[w].pc = p

Begin(w, p, t) == At(w, "idle") /\ jobs' = [jobs EXCEPT ![w].pc = p, ![w].t = t]
Goto(w, p)     == jobs' = [jobs EXCEPT ![w].pc = p]
Finish(w)      == jobs' = [jobs EXCEPT ![w] = Idle]

(***************************************************************************)
(* If PromptAssignment, nobody acts on a pay-in between its claim for a    *)
(* captain and the hold of that captain's DMC (or the claim's undoing): a  *)
(* request takes milliseconds, a captain's answer and the closing of a     *)
(* fifteen-minute window do not.  The code does not enforce it.            *)
(***************************************************************************)
Undisturbed(t) ==
  PromptAssignment => \A w \in Workers : jobs[w].t = t => jobs[w].pc \notin UnheldPcs

\* Fault: the captain's rate is not capped by what was charged.
UncappedShare(t, c) == AgreedShare[c]

\* repriceCaptainShare
RepricedShare(t, c) == IF AgreedShare[c] <= Charge[t] THEN AgreedShare[c] ELSE Charge[t]

\* Fault: the ceiling is tested, the balance is not.
WithinCeiling(c, amount) == amount <= Ceiling[c]

WithinCurrentLimit(c, amount) == amount <= Ceiling[c] /\ amount <= dmc[c] - earned[c]

-----------------------------------------------------------------------------
Init ==
  /\ status = [t \in Payments |-> "ABSENT"]
  /\ captainId = [t \in Payments |-> None]
  /\ previousCaptainIds = [t \in Payments |-> {}]
  /\ commissionPaise = [t \in Payments |-> 0]
  /\ commissionPaid = [t \in Payments |-> FALSE]
  /\ windowClosed = [t \in Payments |-> FALSE]
  /\ dmc = OpeningDmc
  /\ earned = [c \in Captains |-> 0]
  /\ partyDmc = 0
  /\ pool = 0
  /\ jobs = [w \in Workers |-> Idle]
  /\ crashes = 0
  /\ failures = [t \in Payments |-> 0]
  /\ drawn = 0 /\ funded = 0 /\ minted = 0
  /\ hold = [t \in Payments |-> [c \in Captains |-> 0]]
  /\ credited = [t \in Payments |-> 0]

-----------------------------------------------------------------------------
(* payIn: create the row, find a captain, show the customer a QR.  A       *)
(* repeated reference returns the row there is, and routes nothing.        *)

Create(w, t) ==
  /\ status[t] = "ABSENT"
  /\ Begin(w, "route", t)
  /\ status' = [status EXCEPT ![t] = "CREATED"]
  /\ commissionPaise' = [commissionPaise EXCEPT ![t] = DefaultShare[t]]
  /\ UNCHANGED <<captainId, previousCaptainIds, commissionPaid, windowClosed,
                 moneyVars, envVars, historyVars>>

\* eligibleCaptains
Eligible(t) == {c \in Captains \ previousCaptainIds[t] : WithinCurrentLimit(c, Amount[t])}

\* assignCaptain: read the row and the captains, choose one.
Route(w, c) ==
  LET t == jobs[w].t IN
  /\ At(w, "route")
  /\ status[t] = "CREATED"
  /\ c \in Eligible(t)
  /\ jobs' = [jobs EXCEPT ![w].pc = "assign", ![w].c = c]
  /\ UNCHANGED <<rowVars, moneyVars, envVars, historyVars>>

\* NO_CAPTAIN_AVAILABLE, or the row has expired meanwhile.
NotRouted(w) ==
  LET t == jobs[w].t IN
  /\ At(w, "route")
  /\ status[t] # "CREATED" \/ Eligible(t) = {}
  /\ Finish(w)
  /\ UNCHANGED <<rowVars, moneyVars, envVars, historyVars>>

\* The claim of assignCaptain, when its filter matches.
AssignTo(t, c) ==
  /\ status[t] = "CREATED"
  /\ status' = [status EXCEPT ![t] = "ASSIGNED"]
  /\ captainId' = [captainId EXCEPT ![t] = c]
  /\ commissionPaise' = [commissionPaise EXCEPT ![t] = RepricedShare(t, c)]
  /\ UNCHANGED <<previousCaptainIds, commissionPaid, windowClosed>>

TakeHold(w, t, c) ==
  IF WithinCurrentLimit(c, Amount[t])
  THEN /\ dmc' = [dmc EXCEPT ![c] = @ - Amount[t]]
       /\ hold' = [hold EXCEPT ![t][c] = @ + 1]
       /\ Goto(w, "open")
  ELSE Goto(w, "putBack") /\ UNCHANGED <<dmc, hold>>

\* Claim and hold in one transaction; a hold that does not fit leaves the
\* claim standing, and the transaction commits.
AssignInTransaction(w) ==
  /\ UseTransactions
  /\ At(w, "assign")
  /\ AssignTo(jobs[w].t, jobs[w].c)
  /\ TakeHold(w, jobs[w].t, jobs[w].c)
  /\ UNCHANGED <<earned, partyDmc, pool, envVars, credited>>

AssignClaim(w) ==
  /\ ~UseTransactions
  /\ At(w, "assign")
  /\ AssignTo(jobs[w].t, jobs[w].c)
  /\ Goto(w, "hold")
  /\ UNCHANGED <<moneyVars, envVars, historyVars>>

AssignHold(w) ==
  /\ At(w, "hold")
  /\ TakeHold(w, jobs[w].t, jobs[w].c)
  /\ UNCHANGED <<rowVars, earned, partyDmc, pool, envVars, credited>>

AssignLost(w) ==
  /\ At(w, "assign")
  /\ status[jobs[w].t] # "CREATED"
  /\ Finish(w)
  /\ UNCHANGED <<rowVars, moneyVars, envVars, historyVars>>

\* Back to CREATED without the captain, who is not to be asked again.
HandBack(t, c) ==
  /\ status' = [status EXCEPT ![t] = "CREATED"]
  /\ captainId' = [captainId EXCEPT ![t] = None]
  /\ previousCaptainIds' = [previousCaptainIds EXCEPT ![t] = @ \cup {c}]
  /\ UNCHANGED <<commissionPaise, commissionPaid, windowClosed>>

\* Fault: the claim is left standing when the hold did not fit.
PutBackSkipped(w) ==
  /\ At(w, "putBack")
  /\ Finish(w)
  /\ UNCHANGED <<rowVars, moneyVars, envVars, historyVars>>

\* The hold did not fit.  Pinned to the status only.
PutBack(w) ==
  LET t == jobs[w].t IN
  /\ At(w, "putBack")
  /\ IF status[t] = "ASSIGNED" THEN HandBack(t, jobs[w].c) ELSE UNCHANGED rowVars
  /\ Finish(w)
  /\ UNCHANGED <<moneyVars, envVars, historyVars>>

\* openToCustomer
Open(w) ==
  LET t == jobs[w].t IN
  /\ At(w, "open")
  /\ IF status[t] = "ASSIGNED"
     THEN status' = [status EXCEPT ![t] = "AWAITING_CUSTOMER"]
     ELSE UNCHANGED status
  /\ Finish(w)
  /\ UNCHANGED <<rowButStatus, moneyVars, envVars, historyVars>>

-----------------------------------------------------------------------------
(* declineAsCaptain: pinned to the status and the captain.                 *)

GiveBack(t, c) ==
  /\ dmc' = [dmc EXCEPT ![c] = @ + Amount[t]]
  /\ hold' = [hold EXCEPT ![t][c] = @ - 1]

Declined(t, c) ==
  /\ status[t] = "ASSIGNED" /\ captainId[t] = c
  /\ Undisturbed(t)
  /\ HandBack(t, c)

DeclineInTransaction(t, c) ==
  /\ UseTransactions
  /\ Declined(t, c)
  /\ GiveBack(t, c)
  /\ UNCHANGED <<earned, partyDmc, pool, jobs, envVars, credited>>

\* Fault: the claim is undone and the hold forgotten.
DeclineKeepingHold(w, t, c) ==
  /\ ~UseTransactions
  /\ Declined(t, c)
  /\ At(w, "idle")
  /\ UNCHANGED <<moneyVars, jobs, envVars, historyVars>>

Decline(w, t, c) ==
  /\ ~UseTransactions
  /\ Declined(t, c)
  /\ At(w, "idle")
  /\ jobs' = [jobs EXCEPT ![w].pc = "release", ![w].t = t, ![w].c = c]
  /\ UNCHANGED <<moneyVars, envVars, historyVars>>

Release(w) ==
  /\ At(w, "release")
  /\ GiveBack(jobs[w].t, jobs[w].c)
  /\ Finish(w)
  /\ UNCHANGED <<rowVars, earned, partyDmc, pool, envVars, credited>>

-----------------------------------------------------------------------------
(* upiWebhook: confirmMovement, then settle.  The gateway may deliver it   *)
(* again at any time.                                                      *)

Webhook(w, t) ==
  /\ status[t] \in {"AWAITING_CUSTOMER", "CONFIRMED"}
  /\ Begin(w, "settle", t)
  /\ status' = [status EXCEPT ![t] = "CONFIRMED"]
  /\ UNCHANGED <<rowButStatus, moneyVars, envVars, historyVars>>

\* settle reads the row to know what it settles from.
SettleRead(w) ==
  /\ At(w, "settle")
  /\ jobs' = [jobs EXCEPT ![w].pc = "settleClaim",
                ![w].from = IF status[jobs[w].t] = "DISPUTED" THEN "DISPUTED" ELSE "CONFIRMED"]
  /\ UNCHANGED <<rowVars, moneyVars, envVars, historyVars>>

\* Fault: settled on the strength of the read alone.
MarkSettledUnclaimed(w) ==
  /\ At(w, "settleClaim")
  /\ status' = [status EXCEPT ![jobs[w].t] = "SETTLED"]

MarkSettled(w) ==
  LET t == jobs[w].t IN
  /\ At(w, "settleClaim")
  /\ status[t] = jobs[w].from
  /\ CanTransition(jobs[w].from, "SETTLED")
  /\ status' = [status EXCEPT ![t] = "SETTLED"]

\* The pool holds at least this pay-in's charge when the share is paid.
SettleInTransaction(w) ==
  LET t == jobs[w].t  c == captainId[t]  share == commissionPaise[t]
      paid == share <= pool + Charge[t] IN
  /\ UseTransactions
  /\ MarkSettled(w)
  /\ partyDmc' = partyDmc + Amount[t] - Charge[t]
  /\ credited' = [credited EXCEPT ![t] = @ + 1]
  /\ pool' = pool + Charge[t] - (IF paid THEN share ELSE 0)
  /\ IF paid
     THEN dmc' = [dmc EXCEPT ![c] = @ + share] /\ earned' = [earned EXCEPT ![c] = @ + share]
     ELSE UNCHANGED <<dmc, earned>>
  /\ commissionPaid' = [commissionPaid EXCEPT ![t] = paid]
  /\ Finish(w)
  /\ UNCHANGED <<captainId, previousCaptainIds, commissionPaise, windowClosed, envVars, hold>>

SettleClaim(w) ==
  /\ ~UseTransactions
  /\ MarkSettled(w)
  /\ Goto(w, "credit")
  /\ UNCHANGED <<rowButStatus, moneyVars, envVars, historyVars>>

SettleLost(w) ==
  /\ At(w, "settleClaim")
  /\ status[jobs[w].t] # jobs[w].from
  /\ Finish(w)
  /\ UNCHANGED <<rowVars, moneyVars, envVars, historyVars>>

SettleCredit(w) ==
  LET t == jobs[w].t IN
  /\ At(w, "credit")
  /\ partyDmc' = partyDmc + Amount[t] - Charge[t]
  /\ credited' = [credited EXCEPT ![t] = @ + 1]
  /\ Goto(w, "collect")
  /\ UNCHANGED <<rowVars, dmc, earned, pool, envVars, hold>>

\* collectIntoPool
SettleCollect(w) ==
  /\ At(w, "collect")
  /\ pool' = pool + Charge[jobs[w].t]
  /\ Goto(w, "payShare")
  /\ UNCHANGED <<rowVars, dmc, earned, partyDmc, envVars, historyVars>>

(***************************************************************************)
(* payCommissionToCaptain.  A share of nothing is paid at once.  A pool    *)
(* that cannot cover the share pays nothing, and the pay-in stays settled  *)
(* with its commission unpaid; nothing pays it later.                      *)
(***************************************************************************)
SettlePayShare(w) ==
  LET share == commissionPaise[jobs[w].t] IN
  /\ At(w, "payShare")
  /\ \/ share = 0 /\ Goto(w, "flag") /\ UNCHANGED pool
     \/ share > 0 /\ share <= pool /\ pool' = pool - share /\ Goto(w, "creditShare")
     \/ share > pool /\ Finish(w) /\ UNCHANGED pool
  /\ UNCHANGED <<rowVars, dmc, earned, partyDmc, envVars, historyVars>>

SettleCreditShare(w) ==
  LET t == jobs[w].t  c == captainId[t]  share == commissionPaise[t] IN
  /\ At(w, "creditShare")
  /\ dmc' = [dmc EXCEPT ![c] = @ + share]
  /\ earned' = [earned EXCEPT ![c] = @ + share]
  /\ Goto(w, "flag")
  /\ UNCHANGED <<rowVars, partyDmc, pool, envVars, historyVars>>

\* A write of payCommissionToCaptain fails.
WriteFails(t) ==
  /\ failures[t] < MaxFailures
  /\ failures' = [failures EXCEPT ![t] = @ + 1]

SettleCreditFails(w) ==
  /\ At(w, "creditShare")
  /\ WriteFails(jobs[w].t)
  /\ Goto(w, "collectBack")
  /\ UNCHANGED <<rowVars, moneyVars, crashes, drawn, funded, minted, historyVars>>

\* The captain keeps a share that is about to be put back.
SettleEntryFails(w) ==
  LET t == jobs[w].t IN
  /\ At(w, "flag")
  /\ commissionPaise[t] > 0
  /\ WriteFails(t)
  /\ minted' = minted + commissionPaise[t]
  /\ Goto(w, "collectBack")
  /\ UNCHANGED <<rowVars, moneyVars, crashes, drawn, funded, historyVars>>

\* The catch: the share goes back to the pool and settle throws, so that the
\* row is not marked as paid.
SettleCollectBack(w) ==
  /\ At(w, "collectBack")
  /\ pool' = pool + commissionPaise[jobs[w].t]
  /\ Finish(w)
  /\ UNCHANGED <<rowVars, dmc, earned, partyDmc, envVars, historyVars>>

\* The captain's WalletEntry, which keeps no balance, and the flag on the row.
SettleFlag(w) ==
  /\ At(w, "flag")
  /\ commissionPaid' = [commissionPaid EXCEPT ![jobs[w].t] = TRUE]
  /\ Finish(w)
  /\ UNCHANGED <<status, captainId, previousCaptainIds, commissionPaise, windowClosed,
                 moneyVars, envVars, historyVars>>

\* In a transaction, a share that cannot be credited undoes the settlement;
\* the gateway or admin may ask for it again.
SettleAborts(w) ==
  LET t == jobs[w].t IN
  /\ UseTransactions
  /\ At(w, "settleClaim")
  /\ status[t] = jobs[w].from
  /\ commissionPaise[t] \in 1 .. pool + Charge[t]
  /\ WriteFails(t)
  /\ Finish(w)
  /\ UNCHANGED <<rowVars, moneyVars, crashes, drawn, funded, minted, historyVars>>

-----------------------------------------------------------------------------
(* expire, from the sweep and from resolveDispute (RELEASE); dispute       *)

\* Fault: a pay-in that no captain has is not swept.
SweepListAssigned(w, t) ==
  /\ status[t] \in {"ASSIGNED", "AWAITING_CUSTOMER"}
  /\ windowClosed[t]
  /\ At(w, "idle")
  /\ jobs' = [jobs EXCEPT ![w].pc = "expire", ![w].t = t, ![w].by = "sweep"]
  /\ UNCHANGED <<rowVars, moneyVars, envVars, historyVars>>

\* expireOverdueTransactions lists the rows first and expires them one after
\* the other; expire reads each again.
SweepList(w, t) ==
  /\ status[t] \in {"CREATED", "ASSIGNED", "AWAITING_CUSTOMER"}
  /\ windowClosed[t]
  /\ At(w, "idle")
  /\ jobs' = [jobs EXCEPT ![w].pc = "expire", ![w].t = t, ![w].by = "sweep"]
  /\ UNCHANGED <<rowVars, moneyVars, envVars, historyVars>>

ExpireRead(w) ==
  LET t == jobs[w].t IN
  /\ At(w, "expire")
  /\ IF CanTransition(status[t], "EXPIRED")
     THEN jobs' = [jobs EXCEPT ![w].pc = "expireClaim", ![w].from = status[t]]
     ELSE Finish(w)
  /\ UNCHANGED <<rowVars, moneyVars, envVars, historyVars>>

\* Fault: expired on the strength of the read alone.
MarkExpiredUnclaimed(w) ==
  /\ At(w, "expireClaim")
  /\ status' = [status EXCEPT ![jobs[w].t] = "EXPIRED"]
  /\ UNCHANGED rowButStatus

MarkExpired(w) ==
  LET t == jobs[w].t IN
  /\ At(w, "expireClaim")
  /\ status[t] = jobs[w].from
  /\ Undisturbed(t)
  /\ status' = [status EXCEPT ![t] = "EXPIRED"]
  /\ UNCHANGED rowButStatus

\* releaseHold decides by the state that was left.
WasHeld(w) == jobs[w].from \in TRANSACTION_HELD_STATES /\ captainId[jobs[w].t] # None

ExpireInTransaction(w) ==
  LET t == jobs[w].t IN
  /\ UseTransactions
  /\ MarkExpired(w)
  /\ IF WasHeld(w) THEN GiveBack(t, captainId[t]) ELSE UNCHANGED <<dmc, hold>>
  /\ Finish(w)
  /\ UNCHANGED <<earned, partyDmc, pool, envVars, credited>>

ExpireClaim(w) ==
  LET t == jobs[w].t IN
  /\ ~UseTransactions
  /\ MarkExpired(w)
  /\ IF WasHeld(w)
     THEN jobs' = [jobs EXCEPT ![w].pc = "release", ![w].c = captainId[t]]
     ELSE Finish(w)
  /\ UNCHANGED <<moneyVars, envVars, historyVars>>

ExpireLost(w) ==
  /\ At(w, "expireClaim")
  /\ status[jobs[w].t] # jobs[w].from
  /\ Finish(w)
  /\ UNCHANGED <<rowVars, moneyVars, envVars, historyVars>>

Dispute(t) ==
  /\ CanTransition(status[t], "DISPUTED")
  /\ status' = [status EXCEPT ![t] = "DISPUTED"]
  /\ UNCHANGED <<rowButStatus, moneyVars, jobs, envVars, historyVars>>

\* resolveDispute
ResolveSettle(w, t) ==
  /\ status[t] = "DISPUTED"
  /\ Begin(w, "settle", t)
  /\ UNCHANGED <<rowVars, moneyVars, envVars, historyVars>>

ResolveRelease(w, t) ==
  /\ status[t] = "DISPUTED"
  /\ At(w, "idle")
  /\ jobs' = [jobs EXCEPT ![w].pc = "expire", ![w].t = t, ![w].by = "admin"]
  /\ UNCHANGED <<rowVars, moneyVars, envVars, historyVars>>

-----------------------------------------------------------------------------
(* Time and failure *)

WindowCloses(t) ==
  /\ status[t] \notin TRANSACTION_TERMINAL_STATES \cup {"ABSENT"}
  /\ ~windowClosed[t]
  /\ windowClosed' = [windowClosed EXCEPT ![t] = TRUE]
  /\ UNCHANGED <<status, captainId, previousCaptainIds, commissionPaise, commissionPaid,
                 moneyVars, jobs, envVars, historyVars>>

(***************************************************************************)
(* The pool as others use it: admin's withdrawals and the shares of        *)
(* pay-outs, never more than it has; admin's funding and the charges of    *)
(* pay-outs.                                                               *)
(***************************************************************************)
DebitPool(amount) ==
  /\ amount <= pool
  /\ pool' = pool - amount
  /\ drawn' = drawn + amount
  /\ UNCHANGED <<rowVars, dmc, earned, partyDmc, jobs, crashes, failures, funded, minted,
                 historyVars>>

FundPool(amount) ==
  /\ funded + amount <= MaxFunded
  /\ pool' = pool + amount
  /\ funded' = funded + amount
  /\ UNCHANGED <<rowVars, dmc, earned, partyDmc, jobs, crashes, failures, drawn, minted,
                 historyVars>>

\* The process stops and is started again: what was running is forgotten.
Crash ==
  /\ crashes < MaxCrashes
  /\ \E w \in Workers : ~At(w, "idle")
  /\ jobs' = [w \in Workers |-> Idle]
  /\ crashes' = crashes + 1
  /\ UNCHANGED <<rowVars, moneyVars, failures, drawn, funded, minted, historyVars>>

-----------------------------------------------------------------------------
Request(w, t) ==
  \/ Create(w, t)
  \/ \E c \in Captains : Decline(w, t, c)
  \/ ResolveSettle(w, t) \/ ResolveRelease(w, t)

Decision(t) == Dispute(t) \/ \E c \in Captains : DeclineInTransaction(t, c)

\* The next write of a job that is running.
JobStep(w) ==
  \/ \E c \in Captains : Route(w, c)
  \/ NotRouted(w)
  \/ AssignInTransaction(w) \/ AssignClaim(w) \/ AssignHold(w) \/ AssignLost(w)
  \/ PutBack(w) \/ Open(w) \/ Release(w)
  \/ SettleRead(w) \/ SettleInTransaction(w) \/ SettleClaim(w) \/ SettleLost(w)
  \/ SettleCredit(w) \/ SettleCollect(w) \/ SettlePayShare(w) \/ SettleCreditShare(w)
  \/ SettleCreditFails(w) \/ SettleEntryFails(w) \/ SettleCollectBack(w)
  \/ SettleFlag(w) \/ SettleAborts(w)
  \/ ExpireRead(w) \/ ExpireInTransaction(w) \/ ExpireClaim(w) \/ ExpireLost(w)

Next ==
  \/ \E w \in Handlers, t \in Payments : Request(w, t) \/ Webhook(w, t)
  \/ \E t \in Payments : Decision(t) \/ WindowCloses(t)
  \/ \E w \in Sweepers, t \in Payments : SweepList(w, t)
  \/ \E w \in Workers : JobStep(w)
  \/ \E amount \in Withdrawals : DebitPool(amount)
  \/ \E amount \in Fundings : FundPool(amount)
  \/ Crash

Spec == Init /\ [][Next]_vars

(***************************************************************************)
(* The event loop serves every job, the sweep runs every minute and time   *)
(* passes.  Nothing is assumed of people, nor of the gateway.              *)
(***************************************************************************)
Fairness ==
  /\ \A w \in Workers : WF_vars(JobStep(w))
  /\ \A w \in Sweepers, t \in Payments : WF_vars(SweepList(w, t))
  /\ \A t \in Payments : WF_vars(WindowCloses(t))

FairSpec == Spec /\ Fairness

-----------------------------------------------------------------------------
(* Properties *)

Job == [pc : Pcs, t : Payments \cup {None}, c : Captains \cup {None},
        from : Statuses, by : {"request", "sweep", "admin"}]

\* The types of rows, balances, jobs and history; a captain's share never
\* exceeds what the party is charged, no captain is overdrawn, and none claims
\* with commission already earned.
TypeOK ==
  /\ status \in [Payments -> Statuses]
  /\ captainId \in [Payments -> Captains \cup {None}]
  /\ previousCaptainIds \in [Payments -> SUBSET Captains]
  /\ commissionPaise \in [Payments -> Nat]
  /\ \A t \in Payments : commissionPaise[t] <= Charge[t]
  /\ commissionPaid \in [Payments -> BOOLEAN]
  /\ windowClosed \in [Payments -> BOOLEAN]
  /\ dmc \in [Captains -> Int]
  /\ earned \in [Captains -> Nat]
  /\ \A c \in Captains : earned[c] <= dmc[c]
  /\ partyDmc \in Nat
  /\ pool \in Nat
  /\ jobs \in [Workers -> Job]
  /\ crashes \in Nat
  /\ failures \in [Payments -> Nat]
  /\ drawn \in Nat /\ funded \in Nat /\ minted \in Nat
  /\ hold \in [Payments -> [Captains -> Int]]
  /\ credited \in [Payments -> Nat]

\* A party is credited once, when its pay-in is settled, and with DMC that was
\* held from the captain for it and never given back ("the held amount is
\* simply handed to the other side.  Nothing is created").
SettledFromHold ==
  \A t \in Payments :
    /\ credited[t] <= 1
    /\ credited[t] = 1 => status[t] = "SETTLED"
    /\ status[t] = "SETTLED" => /\ captainId[t] # None
                                /\ hold[t][captainId[t]] = 1

\* A pay-in that has ended stays as it ended ("a settled transaction can never
\* afterwards be cancelled"), whatever a late job had read.
EndedIsFinal ==
  [][\A t \in Payments :
       status[t] \in TRANSACTION_TERMINAL_STATES => status'[t] = status[t]]_vars

\* What may leave the captain of t unpaid on a standalone server, and nothing
\* repairs: others had drawn on the pool ("admin can withdraw the pool down far
\* enough that captain commissions stop being payable"), a write failed while
\* t's share was paid, or the process stopped.
MayBeOwed(t) == ~UseTransactions /\ (drawn > 0 \/ failures[t] > 0 \/ crashes > 0)

\* A settled pay-in that nothing is running on has paid its captain, unless one
\* of these explains that "the commission is owed but unpaid": pay-ins never
\* leave each other unpaid.  With transactions it always has, whatever is drawn
\* from the pool, fails or stops.
CommissionIsFunded ==
  \A t \in Payments :
    status[t] = "SETTLED" /\ (\A w \in Workers : jobs[w].t # t) =>
      commissionPaid[t] \/ MayBeOwed(t)

\* A captain's DMC is given back only if it had been taken ("a pay-in that
\* never reached a captain never held anything, and refunding it would create
\* DMC").
NothingGivenUnheld == \A t \in Payments, c \in Captains : hold[t][c] >= 0

\* Left to the sweep, a pay-in nobody paid ends; one that was confirmed is
\* settled; a disputed one waits for admin.
EveryPayInEnds ==
  \A t \in Payments :
    []<>(status[t] \in TRANSACTION_TERMINAL_STATES \cup {"ABSENT", "DISPUTED"})
=============================================================================
