------------------------------- MODULE Funding -------------------------------
(***************************************************************************)
(* How DMC enters and leaves the system: top-ups of a party, security      *)
(* deposits, capacity purchases and redemptions of a captain, each asked   *)
(* for, paid and then decided by admin (partyTopUp, dmcPurchase,           *)
(* captainLimitPurchase and captainBalance.service.ts); commission paid    *)
(* from the pool; and the ceiling admin sets.                              *)
(*                                                                         *)
(* A decision is one conditional write and the balance it moves another,   *)
(* so admins, captains and claims interleave between them.  What a claim   *)
(* does to a captain's balance is one write, as in PayoutWorkflow.         *)
(***************************************************************************)
EXTENDS Integers, FiniteSets, Deployment

CONSTANTS
  TopUps, Deposits, LimitPurchases, Redemptions,   \* requests, by collection
  Captains,
  Owner,           \* Owner[r]: whose request it is
  Amount,          \* Amount[r]: amountPaise
  LockPercentages, \* values of collateralLockPercentage
  Shares,          \* commissions a captain may be paid
  Claims,          \* amounts a captain may claim
  Ceilings,        \* values admin may set a ceiling to
  Grants,          \* amounts admin may raise or lower one by
  Handlers,        \* requests being served at a time
  MaxFunded,       \* bound: what admin puts in the pool
  MaxCeiling,      \* bound: the highest ceiling
  MaxRefused       \* bound: how often an insert fails after the write before it

CaptainRequests == Deposits \cup LimitPurchases \cup Redemptions
AllRequests == TopUps \cup CaptainRequests

ASSUME FundingAssumption ==
  /\ Owner \in [AllRequests -> Parties \cup Captains]
  /\ \A r \in TopUps : Owner[r] \in Parties
  /\ \A r \in CaptainRequests : Owner[r] \in Captains
  /\ Redemptions \cap (TopUps \cup Deposits \cup LimitPurchases) = {}
  /\ Amount \in [AllRequests -> Nat \ {0}]
  /\ LockPercentages \subseteq 0..100
  /\ Shares \subseteq Nat \ {0} /\ Claims \subseteq Nat \ {0} /\ Ceilings \subseteq Nat
  /\ Grants \subseteq Int
  /\ MaxFunded \in Nat /\ MaxCeiling \in Nat /\ MaxRefused \in Nat /\ MaxCrashes \in Nat
  /\ None \notin Nat /\ None \notin AllRequests \cup Captains

VARIABLES
  status,        \* status[r]; ABSENT before the row is written
  locked,        \* collateralCreditedPaise of a deposit; the rest is dmcCreditedPaise
  consumed,      \* commissionConsumedPaise of a redemption
  dmc, earned,   \* dmcBalancePaise, commissionEarnedTotalPaise of a captain
  collateral,    \* collateralBalancePaise
  creditLimit,   \* creditLimitPaise, or None
  working,       \* what claims have taken of dmc and not given back
  partyBalance, poolBalance,
  funded,        \* poolFundedTotalPaise
  commissions,   \* history: the shares paid to each captain
  serving,       \* the request each handler is in the middle of
  refused,       \* inserts that failed
  stops          \* of the process

faultVars == <<useTransactions, refused, stops>>
requestVars == <<status, locked, consumed>>
captainVars == <<dmc, earned, collateral, creditLimit, working, commissions>>
poolVars == <<poolBalance, funded>>
fundingVars == <<requestVars, captainVars, partyBalance, poolVars, serving, faultVars>>

Statuses == {"ABSENT", "AWAITING_PAYMENT", "PENDING", "APPROVED", "PAID", "REJECTED"}

Stages == {"idle", "insert", "credit", "insertHeld", "giveBack", "creditShare", "entry", "collect"}

\* r: the request; c: the captain; amount, fee: what the job has in hand.
Free == [pc |-> "idle", r |-> None, c |-> None, amount |-> 0, fee |-> 0]
Serving == [pc : Stages, r : AllRequests \cup {None}, c : Captains \cup {None}, amount : Nat, fee : Nat]

Smaller(a, b) == IF a <= b THEN a ELSE b

FundingInit ==
  /\ useTransactions \in BOOLEAN
  /\ status = [r \in AllRequests |-> "ABSENT"]
  /\ locked = [r \in AllRequests |-> 0] /\ consumed = [r \in AllRequests |-> 0]
  /\ dmc = [c \in Captains |-> 0] /\ earned = [c \in Captains |-> 0]
  /\ collateral = [c \in Captains |-> 0] /\ creditLimit = [c \in Captains |-> None]
  /\ working = [c \in Captains |-> 0] /\ commissions = [c \in Captains |-> 0]
  /\ partyBalance = [p \in Parties |-> 0] /\ poolBalance = 0 /\ funded = 0
  /\ serving = [h \in Handlers |-> Free] /\ refused = 0 /\ stops = 0

On(h, pc) == serving[h].pc = pc
Serve(h, job) == On(h, "idle") /\ serving' = [serving EXCEPT ![h] = job]
End(h) == serving' = [serving EXCEPT ![h] = Free]
GoOn(h, pc) == serving' = [serving EXCEPT ![h].pc = pc]

Moves(r, from, to) == status[r] = from /\ status' = [status EXCEPT ![r] = to]

-----------------------------------------------------------------------------
(* Asking *)

Undecided(r) == status[r] \in {"AWAITING_PAYMENT", "PENDING"}

\* requestDeposit: any number at a time.
RequestDeposit(r) ==
  /\ r \in Deposits
  /\ Moves(r, "ABSENT", "AWAITING_PAYMENT")
  /\ UNCHANGED <<locked, consumed, captainVars, partyBalance, poolVars, serving, faultVars>>

\* requestTopUp and requestLimitPurchase look for an undecided request first; a
\* purchase is capped at the security posted.
RequestRead(h, r) ==
  /\ status[r] = "ABSENT"
  /\ \/ r \in TopUps /\ \A q \in TopUps : Owner[q] = Owner[r] => ~Undecided(q)
     \/ /\ r \in LimitPurchases /\ \A q \in LimitPurchases : Owner[q] = Owner[r] => ~Undecided(q)
        /\ Amount[r] <= collateral[Owner[r]]
  /\ \A g \in Handlers : serving[g].r # r
  /\ Serve(h, [Free EXCEPT !.pc = "insert", !.r = r])
  /\ UNCHANGED <<requestVars, captainVars, partyBalance, poolVars, faultVars>>

InsertRow(h) ==
  /\ On(h, "insert")
  /\ Moves(serving[h].r, "ABSENT", "AWAITING_PAYMENT")
  /\ End(h)
  /\ UNCHANGED <<locked, consumed, captainVars, partyBalance, poolVars, faultVars>>

\* markTopUpPaid, markDepositPaid, markLimitPurchasePaid: evidence, no money.
MarkPaid(r) ==
  /\ Moves(r, "AWAITING_PAYMENT", "PENDING")
  /\ UNCHANGED <<locked, consumed, captainVars, partyBalance, poolVars, serving, faultVars>>

-----------------------------------------------------------------------------
(* Admin decides *)

\* percentOfPaise rounds half up.
LockedPart(amount, percentage) == (amount * percentage + 50) \div 100

ApprovedAgain(r) ==
  /\ r \in TopUps \cup Deposits \cup LimitPurchases
  /\ status[r] \in {"PENDING", "APPROVED"}
  /\ status' = [status EXCEPT ![r] = "APPROVED"]

Approved(r) == r \in TopUps \cup Deposits \cup LimitPurchases /\ Moves(r, "PENDING", "APPROVED")

\* approveTopUp, approveDeposit and approveLimitPurchase claim the row; the split
\* of a deposit is written by the claim.
Approve(h, r) ==
  /\ Approved(r)
  /\ Serve(h, [Free EXCEPT !.pc = "credit", !.r = r])
  /\ IF r \in Deposits
     THEN \E percentage \in LockPercentages :
            locked' = [locked EXCEPT ![r] = LockedPart(Amount[r], percentage)]
     ELSE UNCHANGED locked
  /\ UNCHANGED <<consumed, captainVars, partyBalance, poolVars, faultVars>>

CeilingOf(c) == IF creditLimit[c] = None THEN collateral[c] ELSE creditLimit[c]

CreditTopUp(h) ==
  LET r == serving[h].r IN
  /\ On(h, "credit") /\ r \in TopUps
  /\ partyBalance' = [partyBalance EXCEPT ![Owner[r]] = @ + Amount[r]]
  /\ End(h)
  /\ UNCHANGED <<requestVars, captainVars, poolVars, faultVars>>

CreditDeposit(h) ==
  LET r == serving[h].r IN
  /\ On(h, "credit") /\ r \in Deposits
  /\ collateral' = [collateral EXCEPT ![Owner[r]] = @ + locked[r]]
  /\ dmc' = [dmc EXCEPT ![Owner[r]] = @ + Amount[r] - locked[r]]
  /\ End(h)
  /\ UNCHANGED <<requestVars, earned, creditLimit, working, commissions, partyBalance,
                 poolVars, faultVars>>

\* Balance and ceiling in one write, from the stored row.
CreditLimitPurchase(h) ==
  LET r == serving[h].r IN
  /\ On(h, "credit") /\ r \in LimitPurchases
  /\ dmc' = [dmc EXCEPT ![Owner[r]] = @ + Amount[r]]
  /\ creditLimit' = [creditLimit EXCEPT ![Owner[r]] = CeilingOf(Owner[r]) + Amount[r]]
  /\ End(h)
  /\ UNCHANGED <<requestVars, earned, collateral, working, commissions, partyBalance,
                 poolVars, faultVars>>

\* rejectTopUp, rejectDeposit, rejectLimitPurchase
Reject(r) ==
  /\ r \notin Redemptions
  /\ Moves(r, "PENDING", "REJECTED")
  /\ UNCHANGED <<locked, consumed, captainVars, partyBalance, poolVars, serving, faultVars>>

-----------------------------------------------------------------------------
(* Redemptions: requestRedemption, markRedemptionPaid, rejectRedemption *)

TakeUntested(r) ==
  LET c == Owner[r] IN
  /\ dmc' = [dmc EXCEPT ![c] = @ - Amount[r]]
  /\ earned' = [earned EXCEPT ![c] = @ - Smaller(Amount[r], @)]
  /\ UNCHANGED <<collateral, creditLimit, working, commissions>>

\* The captain's earnings are spent before their capital, in one write.
TakeForRedemption(r) ==
  LET c == Owner[r] IN
  /\ dmc[c] >= Amount[r]
  /\ dmc' = [dmc EXCEPT ![c] = @ - Amount[r]]
  /\ earned' = [earned EXCEPT ![c] = @ - Smaller(Amount[r], @)]
  /\ UNCHANGED <<collateral, creditLimit, working, commissions>>

Redeemable(r) ==
  r \in Redemptions /\ status[r] = "ABSENT" /\ \A g \in Handlers : serving[g].r # r

RedeemInTransaction(r) ==
  /\ useTransactions
  /\ Redeemable(r)
  /\ TakeForRedemption(r)
  /\ status' = [status EXCEPT ![r] = "PENDING"]
  /\ consumed' = [consumed EXCEPT ![r] = Smaller(Amount[r], earned[Owner[r]])]
  /\ UNCHANGED <<locked, partyBalance, poolVars, serving, faultVars>>

RedeemHold(h, r) ==
  /\ ~useTransactions
  /\ Redeemable(r)
  /\ TakeForRedemption(r)
  /\ Serve(h, [pc |-> "insertHeld", r |-> r, c |-> Owner[r], amount |-> Amount[r],
               fee |-> Smaller(Amount[r], earned[Owner[r]])])
  /\ UNCHANGED <<requestVars, partyBalance, poolVars, faultVars>>

InsertRedemption(h) ==
  /\ On(h, "insertHeld")
  /\ Moves(serving[h].r, "ABSENT", "PENDING")
  /\ consumed' = [consumed EXCEPT ![serving[h].r] = serving[h].fee]
  /\ End(h)
  /\ UNCHANGED <<locked, captainVars, partyBalance, poolVars, faultVars>>

Refused == refused < MaxRefused /\ refused' = refused + 1

\* The row cannot be written: both halves of the hold come back.
InsertFails(h) ==
  /\ On(h, "insertHeld")
  /\ Refused
  /\ GoOn(h, "giveBack")
  /\ UNCHANGED <<requestVars, captainVars, partyBalance, poolVars, useTransactions, stops>>

GiveBackCapital(h) ==
  LET j == serving[h] IN
  /\ On(h, "giveBack")
  /\ dmc' = [dmc EXCEPT ![j.c] = @ + j.amount]
  /\ End(h)
  /\ UNCHANGED <<requestVars, earned, collateral, creditLimit, working, commissions, partyBalance,
                 poolVars, faultVars>>

GiveBack(h) ==
  LET j == serving[h] IN
  /\ On(h, "giveBack")
  /\ dmc' = [dmc EXCEPT ![j.c] = @ + j.amount]
  /\ earned' = [earned EXCEPT ![j.c] = @ + j.fee]
  /\ End(h)
  /\ UNCHANGED <<requestVars, collateral, creditLimit, working, commissions, partyBalance,
                 poolVars, faultVars>>

MarkRedemptionPaid(r) ==
  /\ r \in Redemptions /\ Moves(r, "PENDING", "PAID")
  /\ UNCHANGED <<locked, consumed, captainVars, partyBalance, poolVars, serving, faultVars>>

\* What was held goes back with the write that follows.
RejectRedemption(h, r) ==
  /\ r \in Redemptions /\ Moves(r, "PENDING", "REJECTED")
  /\ Serve(h, [pc |-> "giveBack", r |-> r, c |-> Owner[r], amount |-> Amount[r],
               fee |-> consumed[r]])
  /\ UNCHANGED <<locked, consumed, captainVars, partyBalance, poolVars, faultVars>>

-----------------------------------------------------------------------------
(* The pool and the captains' other writes *)

FundPool(amount) ==
  /\ funded + amount <= MaxFunded
  /\ poolBalance' = poolBalance + amount /\ funded' = funded + amount
  /\ UNCHANGED <<requestVars, captainVars, partyBalance, serving, faultVars>>

CreditCaptain(c, share) ==
  /\ dmc' = [dmc EXCEPT ![c] = @ + share]
  /\ earned' = [earned EXCEPT ![c] = @ + share]
  /\ commissions' = [commissions EXCEPT ![c] = @ + share]
  /\ UNCHANGED <<collateral, creditLimit, working>>

\* payCommissionToCaptain: the pool first, then the captain, then the WalletEntry.
PayShareInTransaction(c, share) ==
  /\ useTransactions
  /\ poolBalance >= share
  /\ poolBalance' = poolBalance - share
  /\ CreditCaptain(c, share)
  /\ UNCHANGED <<requestVars, partyBalance, funded, serving, faultVars>>

TakeShare(h, c, share) ==
  /\ ~useTransactions
  /\ poolBalance >= share
  /\ poolBalance' = poolBalance - share
  /\ Serve(h, [Free EXCEPT !.pc = "creditShare", !.c = c, !.amount = share])
  /\ UNCHANGED <<requestVars, captainVars, partyBalance, funded, faultVars>>

CreditShare(h) ==
  /\ On(h, "creditShare")
  /\ CreditCaptain(serving[h].c, serving[h].amount)
  /\ GoOn(h, "entry")
  /\ UNCHANGED <<requestVars, partyBalance, poolVars, faultVars>>

WriteEntry(h) ==
  /\ On(h, "entry")
  /\ End(h)
  /\ UNCHANGED <<requestVars, captainVars, partyBalance, poolVars, faultVars>>

\* One handler catches a credit that fails and an entry that fails.
ShareFails(h) ==
  /\ On(h, "creditShare") \/ On(h, "entry")
  /\ Refused
  /\ GoOn(h, "collect")
  /\ UNCHANGED <<requestVars, captainVars, partyBalance, poolVars, useTransactions, stops>>

CollectBack(h) ==
  /\ On(h, "collect")
  /\ poolBalance' = poolBalance + serving[h].amount
  /\ End(h)
  /\ UNCHANGED <<requestVars, captainVars, partyBalance, funded, faultVars>>

TakeFromBalance(c, amount) ==
  /\ amount <= CeilingOf(c) /\ amount <= dmc[c]
  /\ dmc' = [dmc EXCEPT ![c] = @ - amount]
  /\ working' = [working EXCEPT ![c] = @ + amount]
  /\ UNCHANGED <<requestVars, earned, collateral, creditLimit, commissions, partyBalance,
                 poolVars, serving, faultVars>>

\* A claim takes within the Current Limit, and gives back what it took.
TakeForClaim(c, amount) ==
  /\ amount <= CeilingOf(c)
  /\ amount <= dmc[c] - earned[c]
  /\ dmc' = [dmc EXCEPT ![c] = @ - amount]
  /\ working' = [working EXCEPT ![c] = @ + amount]
  /\ UNCHANGED <<requestVars, earned, collateral, creditLimit, commissions, partyBalance,
                 poolVars, serving, faultVars>>

ReturnFromClaim(c, amount) ==
  /\ working[c] >= amount
  /\ dmc' = [dmc EXCEPT ![c] = @ + amount]
  /\ working' = [working EXCEPT ![c] = @ - amount]
  /\ UNCHANGED <<requestVars, earned, collateral, creditLimit, commissions, partyBalance,
                 poolVars, serving, faultVars>>

SetCeiling(c, ceiling) ==
  /\ creditLimit' = [creditLimit EXCEPT ![c] = ceiling]
  /\ UNCHANGED <<requestVars, dmc, earned, collateral, working, commissions, partyBalance,
                 poolVars, serving, faultVars>>

\* The profile form sets or clears it; a grant raises or lowers the stored one.
SetApprovedLimit(c, ceiling) == ceiling # creditLimit[c] /\ SetCeiling(c, ceiling)

RaiseCeiling(c, grant) ==
  /\ CeilingOf(c) + grant \in 0..MaxCeiling
  /\ SetCeiling(c, CeilingOf(c) + grant)

\* The process stops; what its requests had in hand is nowhere.
ProcessStops ==
  /\ stops < MaxCrashes
  /\ \E h \in Handlers : ~On(h, "idle")
  /\ stops' = stops + 1
  /\ serving' = [h \in Handlers |-> Free]
  /\ UNCHANGED <<requestVars, captainVars, partyBalance, poolVars, useTransactions, refused>>

-----------------------------------------------------------------------------
ServeStep(h) ==
  \/ InsertRow(h)
  \/ CreditTopUp(h) \/ CreditDeposit(h) \/ CreditLimitPurchase(h)
  \/ InsertRedemption(h) \/ InsertFails(h) \/ GiveBack(h)
  \/ CreditShare(h) \/ WriteEntry(h) \/ ShareFails(h) \/ CollectBack(h)

Decide(r) == MarkPaid(r) \/ Reject(r) \/ MarkRedemptionPaid(r)

FundingNext ==
  \/ \E h \in Handlers : ServeStep(h)
  \/ \E h \in Handlers, r \in AllRequests :
       RequestRead(h, r) \/ Approve(h, r) \/ RedeemHold(h, r) \/ RejectRedemption(h, r)
  \/ \E r \in AllRequests : RequestDeposit(r) \/ RedeemInTransaction(r) \/ Decide(r)
  \/ \E c \in Captains, share \in Shares :
       PayShareInTransaction(c, share) \/ \E h \in Handlers : TakeShare(h, c, share)
  \/ \E share \in Shares : FundPool(share)
  \/ \E c \in Captains, amount \in Claims : TakeForClaim(c, amount) \/ ReturnFromClaim(c, amount)
  \/ \E c \in Captains :
       \/ \E ceiling \in Ceilings \cup {None} : SetApprovedLimit(c, ceiling)
       \/ \E grant \in Grants : RaiseCeiling(c, grant)
  \/ ProcessStops

FundingSpec == FundingInit /\ [][FundingNext]_fundingVars

-----------------------------------------------------------------------------
(* Properties *)

\* Every variable has its type.
FundingTypeOK ==
  /\ useTransactions \in BOOLEAN
  /\ status \in [AllRequests -> Statuses]
  /\ locked \in [AllRequests -> Nat] /\ consumed \in [AllRequests -> Nat]
  /\ dmc \in [Captains -> Nat] /\ earned \in [Captains -> Nat]
  /\ collateral \in [Captains -> Nat] /\ creditLimit \in [Captains -> Nat \cup {None}]
  /\ working \in [Captains -> Nat] /\ commissions \in [Captains -> Nat]
  /\ partyBalance \in [Parties -> Nat] /\ poolBalance \in Nat /\ funded \in Nat
  /\ serving \in [Handlers -> Serving]
  /\ refused \in 0..MaxRefused /\ stops \in 0..MaxCrashes

\* The fee a captain has kept is in their balance: whatever claims, redemptions,
\* refusals and commissions overlap, "the captain's own capital" that the
\* Current Limit is computed from (captainCapacity.service.ts:4) is not negative.
CommissionIsCovered == \A c \in Captains : earned[c] <= dmc[c]
=============================================================================
