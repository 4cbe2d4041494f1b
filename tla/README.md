# FlitePay: how money moves, as TLA+

FlitePay is a payment exchange. *Parties* (businesses) need cash delivered to or
collected from people; *captains* do the moving with their own bank accounts; the
*platform* keeps the books in DMC, an internal unit of one rupee, counted in paise.
The server is an Express process over MongoDB (`src/server`), with Redis for a lock
and sockets, and a React client (`src/client`) that only calls its API.

What makes the server hard to get right is that everything is asynchronous: a handler
reads a row, checks its copy, decides with one conditional write
(`findOneAndUpdate({_id, status: <what I read>}, ...)`), and then moves money and
marks other collections with further writes. Between any two of those another request
or sweep may run and the process may stop. Where MongoDB is a replica set
(`supportsTransactions()`), the longest of these sequences are transactions; where it
is not, they are a chain of single writes. This directory models those writes one by
one, checks them with TLC and proves what matters most with TLAPS.

## Inventory

| component | source (`src/server/src`) | state | operations | here |
|---|---|---|---|---|
| Pay-out workflow | `services/workflow`, `task`, `taskStateMachine`, `customerConfirmation`, `jobs/taskExpiry` | `Task`, `Proof`, `Commission`, `DMCAllocation` rows, holds | create, claim, start, submit proof, approve, reject, resolve, reassign, cancel, review, expire, reclaim, sweeps | `PayoutWorkflow`, `PayoutEscrow` |
| Captain capacity and balance | `services/captainCapacity`, `captainBalance`, `collateral` | `Captain.dmcBalancePaise`, `commissionEarnedTotalPaise`, collateral, ceiling | hold, release, pay commission; buy, redeem, lock collateral | `PayoutWorkflow`, `PayIn`; `Funding` |
| Commission | `services/commission`, `platformAccount`, `utils/money` | the split on the row, the pool | rate, round, fix, reprice, collect | `Commission`; `PayoutWorkflow`, `PayIn` |
| Pay-ins | `services/transaction`, `transactionStateMachine`, `transactionSweep` | `Transaction` rows, holds | create, assign, open, confirm, settle, decline, expire, dispute, resolve | `PayIn` |
| Routing | `services/taskRouting`, `captainRating` | `TaskOffer` rows, routing fields of the task | rank, offer, accept, lapse, withdraw, open to all | `TaskRouting` (without the score) |
| Platform withdrawals | `services/adminWithdrawal`, `dmcAllocation` | allocations, withdrawals, portions | request, consume oldest first, pay, dispute, cancel | `PlatformWithdrawal` |
| Funding | `services/dmcPurchase`, `partyTopUp`, `captainLimitPurchase`, `captainBalance` | requests with an admin decision | submit, pay, approve, reject, redeem, fund the pool, set a ceiling | `Funding` |
| Claim lock | `services/lock`, `config/redis` | a Redis key with a time to live | acquire, wait, go without, release | `ClaimLock` |
| Callbacks | `services/callback`, the pass of `transactionSweep` | delivery record and attempts of a payment | send, record, replay, retry, give up | `Callbacks` |
| Registration | `services/captainRegistration` | applications, account, captain | apply, verify, approve, reject, hand back | `Registration` |
| Codes, sessions, presence | `services/otp`, `auth`, `presence`, `sockets` | codes, sessions, `isOnline` | sign in and out, reset, expire, sweep | `Sessions` |
| Configuration | `services/systemConfig` | the settings row, its cache, its history | read, patch, address book, invalidate | `Settings` |
| Reconciliation, audit log, pay-out disputes, HTTP surface, import, mail, storage, scripts, client | see `PROJECT.json` | | | not modelled |

### How the parts interact

- A pay-out debits the **party**, is offered by **routing** to one captain at a time,
  and holds the same amount from the **captain** who claims it. When the party approves
  the proof (or stays silent past a deadline) the captain gets the hold back, the
  amount, and a share of the **commission**; the rest of the charge goes to the
  **pool**, and the pay-out leaves an **allocation** row that says whose share it was.
- A pay-in runs the other way: the captain's hold becomes the party's DMC once the
  **gateway** confirms the customer's payment, and the charge goes to the pool, from
  which the captain's share is paid.
- A **platform withdrawal** draws on the allocations and leaves the pool through the
  parties they came from. Allocations and pool are separate books.
- The **sweeps** (`jobs/taskExpiry`, `services/transactionSweep`) run in the same
  process as the requests, decide from lists they read earlier, and call the same
  functions.

- **Funding** is the edge of the system: an admin approves a top-up, a deposit, a
  purchase or a redemption after money has moved outside it.
- **Routing** sees captains through `isOnline`, which sign-in, sign-out, the captain,
  admin and a sweep all write; **callbacks** tell a party's server how a payment ended.

Everything meets in the database: no two handlers call each other across requests, and
the only lock (Redis, five seconds, around a claim) is not what the code relies on; it
relies on the conditional write.

### What is hard, and what it must get right

| behaviour | must hold |
|---|---|
| two requests act on one row from copies they read earlier | one of them wins, and only that one moves money |
| a row leaves a state and comes back to it between a read and a write | the write is about the captain it was decided for |
| money moves after the deciding write, in several writes | every paise is in a balance, in an open pay-out or pay-in, or in the hands of a running request |
| the process stops between two writes | nothing is created or paid twice; with transactions nothing is lost |
| a clock runs out while a person answers | one of the two decides |
| the gateway delivers twice, late, or never | one credit; the pay-in ends anyway |
| captains claim more than they have, the pool is short | no balance goes negative; commission is not capital |
| a captain who lost a pay-out | does not get it again |
| passes of requests and sweeps route one pay-out | one turn per captain, none once it is held, and it is never forgotten |
| admin decides twice, or while a balance moves | every request is credited or debited once, and the books add up |
| an approval, a sign-in or a change of settings fails half way | nothing half made remains, nothing is undone that another call did |
| an endpoint, Redis or a mail server does not answer | the ending is told, a lock is not taken from its holder, a stale copy dies |

`PROJECT.json` lists the hazards one by one, at the line where each bites.

## Modules

| module | what it is |
|---|---|
| `PayoutWorkflow` | the life of a pay-out, one action per database write |
| `Totals`, `Totals_proofs` | the sum over a finite set of accounts, and the facts about it the ledgers' proofs cite |
| `PayoutLedger` | the sums over it: conservation of money, holds against holders |
| `PayoutEscrow` | what a pay-out promises, in seven actions; `PayoutWorkflow` implements it |
| `PayoutRefinement` | the refinement mapping from the one to the other |
| `MCPayout` | constants for TLC |
| `Payout_proofs` | theorems about these: types, legal transitions, single settlement; covered balances, conservation of money; who holds, whose proof, who was paid, who is excluded; the refinement |
| `Commission`, `Commission_proofs` | rates, rounding and the split as pure functions, and theorems about them |
| `PayIn`, `PayInLedger`, `MCPayIn` | the life of a pay-in, its sums, its constants for TLC |
| `PayIn_proofs` | theorems about `PayIn` and its books: types, ends, credits, commission; holds and books |
| `TaskRouting`, `TaskRouting_proofs` | who is offered a pay-out nobody holds, and theorems about it |
| `Funding`, `FundingLedger`, `Funding_proofs` | how DMC enters and leaves the system, its books, and theorems about them |
| `PlatformWithdrawal`, `PlatformWithdrawal_proofs` | allocations and platform withdrawals, and theorems about them |
| `Registration` | captains who apply |
| `Deployment` | what the last three have in common: parties, transactions or not, a bound on stops |
| `Desk` | the last three as one specification: what admin decides |
| `MCMoney` | constants for TLC |
| `Callbacks`, `ClaimLock`, `Sessions`, `Settings` | the services around the payments |
| `Services` | these four as one specification, each with variables of its own |
| `Services_proofs` | theorems about the services and about applications, and that the desk behaves as its parts do |
| `MCOperations` | the services and the pay-out for TLC: what has to keep going |

`Desk`, `Services` and `MCOperations` put several modules in one state space: a behaviour
is one of the parts, chosen in the initial state, and the variables of the others keep
their initial values. The parts share no rows but the pool. In
`PlatformWithdrawal` the environment draws on it (`PayCommissionFromPool`); in `Funding`,
which says of the pool only that its books add up, withdrawals do not. That a behaviour of the desk
is one of each of its parts is proved (`DeskIsFunding`, `DeskIsWithdrawal`, `DeskIsRegistration`).

### How code becomes actions

A handler that decides from what it read, or that writes more than once, is a **job**
of a worker: `jobs[w]` holds the copy it read (`from`, `c`, the two parts of the charge)
and `pc`, the write it makes next (`serving[h]` in `Funding`). `Begin` (`Serve`) is the read with the checks the handler makes
on its copy; each later action is one write. `...Write` and `...Lost` are the two
outcomes of a conditional write; after `Lost` the handler throws, and the job ends (with
the compensation the code performs, where there is one). A handler whose only write tests again
everything the handler read is one action, since nothing can come between. With
transactions the sequence the code wraps is one action, `...InTransaction`; MongoDB
retries a transaction that conflicts.

`Crash` (`ProcessStops` in `Funding`) drops every job and leaves the rows: that is a restart, as the code keeps nothing
in memory that matters. A clock (`lapsed` in `PayoutWorkflow`, `windowClosed` in `PayIn`)
may run out at any time; the sweeps see only that it has.

Amounts are small integers, and the commission split is three of them per pay-out: the
charge, the share at the default rate, and the share at the captain's own rate, which
`RepricedShare` caps. History variables (`hold`, `refunded`, `reimbursed`, `paidCaptain`,
`credited`) count what was taken and given; no action reads them.

**`PayoutWorkflow`** — `createTask` (`CreateDebit` .. `CreateRefundDebit`), `claimTask`
(`ClaimRead` .. `ClaimRefused`), `startTask`, `submitProof` with the question to the party
(`ProofRead` .. `ProofAsk`), the party's answer and its timeout (`ClearDeadline`,
`AutoApproveOnTimeout`, `RejectTask`), `approveTask` / `overruleRejection` down to
`completeTask` (`ApproveRead` .. `CompleteAllocatePlatform`), `reassignTask`, the three
ways to cancel and the review of a cancellation, and the four sweeps. `liveProof`,
`commissionRow` and `allocations` are the unique-indexed rows of other collections.

**`PayIn`** — `createPayIn` and the routing that follows in the same request (`Create`,
`Route`, `NotRouted`), `assignCaptain` (`AssignInTransaction` or `AssignClaim`,
`AssignHold`, and `PutBack` when the hold does not fit), `openToCustomer`,
`declineAsCaptain`, the gateway's `upiWebhook` (`Webhook`, then `settle`), `dispute`,
`resolveDispute`, `expire` from the sweep. `payCommissionToCaptain` is here write by write
(`SettlePayShare`, `SettleCreditShare`), with the failure of its credit or its entry and the
`catch` that puts the share back (`SettleCreditFails`, `SettleEntryFails`,
`SettleCollectBack`); in a transaction such a failure undoes the settlement (`SettleAborts`).
The pool is not the pay-ins' own: `DebitPool` is an admin's withdrawal
(`debitPlatformCommission`) or the share of a pay-out, `FundPool` admin's funding or the charge
of a pay-out, at any time between two writes. `cancel` is left out: nothing calls it.
`routeWaitingPayouts` is left out: it asks for rows of direction `PAY_OUT`, and there
are none.

**`PlatformWithdrawal`** — `consumeAllocationsFifo` row by row (`ReadCandidates`, `Draw`,
`Mark`; `version` is Mongoose's `__v`, which `optimisticConcurrency` makes `save()`
test), `requestPlatformWithdrawal`, `cancelPlatformWithdrawal` with `releaseAllocations`,
the handshake on a portion, and `refreshRequestStatus`. The variable `useTransactions`
is chosen once, so one run covers both deployments. `CreateAllocation` and
`PayCommissionFromPool` are the environment: pay-outs that earn a share, pay-ins that
spend the pool.

**`TaskRouting`** — `offerToNextCaptain` (`OfferRead`, `Rank` with its four ways on,
`OfferWrite` or `OfferLost`, `OfferRow`), the two phases of `sweepOffers`, the claim's side
of an offer (`ClaimRead` .. `WithdrawOthers`), `resetRoutingForReassignment`, and the ways a
task leaves routing. Captains go online and offline, run short of room and are suspended at
any time.

**`Funding`** — the four request collections follow one pattern (`Insert`, evidence, decide)
and each decision is its own conditional write with the balance it moves in another; a
redemption takes the balance and the earned commission first and inserts afterwards;
`payCommissionToCaptain` is here with its three writes and its `catch`.

**`Registration`** — applying, verifying, the decision and everything an approval creates, with
and without transactions, each of whose writes may fail.

**`Callbacks`** — one payment with a callback URL: handlers that send at once, the pass that
retries, answers and records that get lost. **`ClaimLock`** — one key; Redis may not answer,
and the request then goes on without it. **`Sessions`** — one captain's codes, sessions and
`isOnline`. **`Settings`** — `getConfig`, `updateConfig` and the address book over the row, the
cache and the history.

**`Commission`** — no state. `percentOfPaise` rounds half up except where the product of
doubles falls short of a half: `FallsShort` is the set of such pairs (1250 paise at 2.28% is
one), a parameter of which nothing is assumed.

### Abstractions

In `PayoutWorkflow` any captain may claim a pay-out, and `assignCaptain` may choose any
eligible captain: offers are `TaskRouting`, where in turn any captain not yet tried may
come first, whatever the score. Throughput limits, ratings, history entries, audit rows and
notifications are left out; none of them guards a balance. Presence and suspension are in
`TaskRouting` and `Sessions`. The dispute flag of a pay-out changes no state here. Who asked
for a cancellation is left out (either side may review it). The Redis lock is left out of
`PayoutWorkflow`: it lapses after five seconds, and what must hold without it is checked.
In `Funding` the rate and the micros of a USDT deposit are left out (a conversion that only
displays what to pay); what pay-outs do to a captain's balance is one environment action. In
`Sessions` a code is the right one: wrong codes, the attempt budget and passwords are left
out. In `Settings` two settings stand for those a patch changes and one for the address book.
Rates are hundredths of a percent, the step of the admin screens (the validator accepts
finer). Database errors on writes that no index refuses are modelled where the code has a
branch for them, in `PayIn`, `Funding`, `Registration`, `Settings` and `Callbacks`. In
`PayoutWorkflow` nobody else draws on the pool and `payCommissionToCaptain` does not fail:
what it pays a pay-out's captain is not recorded on the row, so that an unpaid share shows
nowhere but in the balances, and `CompletedInFull` does not speak of it.

## Timing assumptions

Most conditional writes test the status only, so a handler that was held up long
enough acts on a row that has moved on and come back. Each module names the
assumption that excludes it, as a Boolean constant, and the code enforces none of them.

| constant | assumes | runs without it |
|---|---|---|
| `PayoutWorkflow!PromptRequests` | a pay-out does not pass to another captain while a job that read it in the earlier one's hands has yet to write | `payout_overlap`, `payout_stale_holder`, `operations` |
| `PayIn!PromptAssignment` | nobody acts on a pay-in between its claim and the hold | `payin_crash`, `payin_unheld` |
| `PlatformWithdrawal!PromptRequests` | a cancellation, and the storing of portions, is not interleaved with another act on the same withdrawal | — |
| `TaskRouting!PromptRouting` | what takes minutes (an offer's window, a captain's work) does not run out inside one routing pass | — |

Conservation of money, single settlement, covered balances and legal transitions hold
**without** them. That holds match holders, that the proof audited is the holder's, that
the record names who was paid, and that an excluded captain stays out hold **with** them.

## Runs

| run | instance | checks | states |
|---|---|---|---|
| `payout_overlap` | one pay-out, two captains, two overlapping requests or sweeps, no transactions, no timing assumption | `TypeOK` `MoneyConserved` `SettledOnce` `NoOverdraft` `LegalTransitions` | 477,000 |
| `payout_prompt` | the same under `PromptRequests`, and with transactions and one crash | `HoldsMatchHolders` `ProofStands` `CompletedInFull` `MoneyConserved` `ExclusionIsPermanent` `KeepsTheEscrow` | 394,000 |
| `payin_fair` | two pay-ins, two captains with room for one each, two overlapping requests or sweeps, no transactions, draws on the pool and funding of it, one failed write per share, `PromptAssignment`, fairness | `TypeOK` `BooksBalance` `HoldsMatchCarriers` `CommissionIsFunded` `EndedIsFinal` `EveryPayInEnds` | 456,000 |
| `payin_crash` | three overlapping jobs, transactions one of which may abort, one crash, no timing assumption | `SettledFromHold` | 903,000 |
| `money` | a request of each kind and two admins; three shares of two parties and two withdrawals; two applications for one address; both deployments, failing inserts, one crash | `MoneyTypeOK` `CommissionIsCovered` `FundsAddUp` `FeesAddUp`; `NotSpentTwice` `NothingStranded` `PaidOnce` `ClosesInFull`; `AccountsAreWhole` `ApprovalIsBacked` | 265,000 |
| `routing` | one pay-out, two captains who come and go, one request, one sweep, one crash, fairness | `RoutingTypeOK` `OneTurnEach` `HeldIsNotOffered` `RoutingMovesOn` | 367,000 |
| `operations` | a pay-out with one request and one sweep; a payment with two senders and the pass; three clients of the lock; two codes, two sessions; one reader and two admins of the settings; fairness | `EveryPayoutComesToRest`; `ToldAsItEnded` `EndingIsTold`; `ExclusiveInTime`; `OneSessionPerCode` `StaleIsCleared`; `StaleCacheDies` `NoLostUpdate` | 129,000 |

Five runs show where the code does not do what its comments say:

| run | what the comment promises | what happens |
|---|---|---|
| `payout_stale_holder` | a loser of the completion "finds the state already gone" | the state has come back: another captain holds the pay-out, and the captain in the old copy is paid |
| `payin_unheld` | what is refunded was held | a claim whose hold did not fit commits; if the process stops before it is undone, expiry refunds what was never taken |
| `routing_handed_on` | while its window is open, only the captain a task is offered to can claim it | a pass that reads the task after another pass offered it, and finds nobody untried, opens it to all; were another captain eligible, it would offer it on |
| `funding_minted` | commission is "a *transfer*, never a credit out of nowhere" | without transactions one `catch` also covers the entry written after the credit: the pool gets the share back and the captain keeps it |
| `callback_closed` | the delivery record of a pay-out is written for its last word only | EXPIRED counts as one; an expired pay-out goes on, and how it ends is never sent |

### Bounds, and why they are enough

Two jobs at a time are what every race listed as a hazard needs: one that read, one that
writes in between; `payin_crash` takes three because a hold is refused only when
another pay-in of the same captain is open. Others draw the 3 of one charge from the pool, as
often as it has them, and put 2 into it (`Withdrawals`, `Fundings`, `MaxFunded`): either share
may then find it short, or find somebody else's money in it. `MaxFailures` is one per pay-in,
since a share is paid once. Two captains are needed to lose a pay-out and
to be excluded from it; a third behaves as the second. Captains open with 12 and amounts
are 10 (and 8): one hold fits, two do not. Shares are 2 and 5 of a charge of 3: one is
paid in full, one is capped. All figures differ so that a wrong one shows in the sums.
One pay-out suffices because pay-outs meet only in balances, and what balances must
satisfy is proved for any number. `MaxCrashes` is one: a second crash finds the rows of
the first with no jobs on them, as any later request does.

In `money` the oldest share is 2 and the amounts asked are 1 and 3, so rows are drawn on in
part, used up, and drawn on by both withdrawals, and one portion holds two slices. The
deposit is 5, half of it locked, so that a purchase of 2 fits and a redemption of 3 takes
more than the commission of 2; `MaxFunded`, `MaxCeiling`, `MaxRefused` stop the pool, the
ceiling and failing inserts from going on for ever. Two applications are needed to apply
again while an approval fails.

In `routing` `MaxReassigned` bounds how many captains the task is taken from, counting stops
before: with one, a stop hits every write of a reassignment and a captain is barred while
the other remains. In `operations` a pay-out is handed on once (`MaxReturns`), one record is
lost or one process stops (`MaxFaults`), the pass tries three times (`MaxAttempts`; five in
the code, and what counts is that they run out), and the settings change once (`MaxVersion`
is two) with two changes computed from one copy.

`CHECK_DEADLOCK FALSE` is said where the system may stop: every pay-in has ended, every
request is decided, the task is closed, the settings have reached `MaxVersion`.

### Fairness

Weak fairness is assumed of what Node and Redis do by themselves: a job that has begun makes
its next write (the event loop serves every promise, and a callback runs into its timeout),
every sweep and pass lists what it selects (`setInterval`, each minute), clocks run out, and
Redis expires what was set with a time to live. The expiry of an offer's window is strongly
fair in `TaskRouting`, because `PromptRouting` disables it while a pass is under way. Nothing
is assumed of people, of the gateway or of a party's endpoint: a pay-out that is rejected or
under review may wait for ever, and `EveryPayoutComesToRest` says only that it gets to such
a state or ends; `EndingIsTold` says that the ending is accepted, the attempts are used
up, or an earlier status is on record as delivered (`callback_closed`, and a pay-in replayed
while under way); `RoutingMovesOn` allows a task to wait while no captain is eligible. The liveness of
pay-outs and pay-ins is checked without crashes, since after one some rows are found by no
sweep (below); that of routing and callbacks with one.

## Proofs

Each theorem holds for every number of pay-outs, pay-ins, captains, requests and sweeps
and every amount and share. The second column is what it assumes besides the assumption
on the constants of its module (`ConstantsAssumption`, `PayInAssumption`,
`RoutingAssumption`, `FundingAssumption`, `WithdrawalAssumption` and those of the services: amounts are positive, the
share at the default rate is no larger than the charge, and so on; `SplitIsCovered` is why)
and, where balances are added up, that rows, accounts and workers are finite sets
(`FiniteAssumption`, `PayInFiniteAssumption`, `FundingFiniteAssumption`; part of
`WithdrawalAssumption`).

| theorem | assumes | says |
|---|---|---|
| `Payout_proofs` | | |
| `TypeCorrect` | | `Spec => []TypeOK` |
| `TransitionsAreLegal` | | `Spec => LegalTransitions` |
| `PayoutSettledOnce` | | `Spec => []SettledOnce` |
| `BalancesAreCovered` | | `Spec => []NoOverdraft` |
| `MoneyIsConserved` | | `Spec => []MoneyConserved` |
| `HoldsFollowHolders` | `PromptRequests` | `Spec => []HoldsMatchHolders` |
| `ProofsAreTheHolders` | `PromptRequests` | `Spec => []ProofStands` |
| `CompletionPaysInFull` | `PromptRequests`, a server without transactions is not stopped | `Spec => []CompletedInFull` |
| `ExclusionHolds` | `PromptRequests` | `Spec => ExclusionIsPermanent` |
| `WorkflowKeepsTheEscrow` | `PromptRequests` | `Spec => KeepsTheEscrow`, the refinement |
| `PayIn_proofs` | | |
| `TypeCorrect` | | `Spec => []TypeOK` |
| `EndsAreFinal` | | `Spec => EndedIsFinal` |
| `CreditsComeFromHolds` | | `Spec => []SettledFromHold` |
| `CommissionIsPaid` | | `Spec => []CommissionIsFunded` |
| `HoldsFollowCarriers` | `Undisrupted`: `PromptAssignment`, no crash | `Spec => []HoldsMatchCarriers` |
| `NothingIsGivenUnheld` | `Undisrupted` | `Spec => []NothingGivenUnheld` |
| `BooksAlwaysBalance` | `Undisrupted` | `Spec => []BooksBalance` |
| `TaskRouting_proofs` | | |
| `RoutingTypeCorrect` | | `Spec => []RoutingTypeOK` |
| `HeldIsNeverOffered` | | `Spec => []HeldIsNotOffered` |
| `OneTurnForEach` | `OnePassAtATime`: `PromptRouting`, one pass of the expiry job at a time | `Spec => []OneTurnEach` |
| `Funding_proofs` | | |
| `FundingTypeCorrect` | | `Spec => []FundingTypeOK` |
| `FeeIsInTheBalance` | | `Spec => []CommissionIsCovered` |
| `BooksAddUp` | | `Spec => []FundsAddUp` |
| `FeesStayFees` | | `Spec => []FeesAddUp` |
| `PlatformWithdrawal_proofs` | | |
| `WithdrawalTypeCorrect` | | `Spec => []TypeOK` |
| `NoShareIsSpentTwice` | `PromptRequests` | `Spec => []NotSpentTwice` |
| `NothingIsStranded` | `PromptRequests` | `Spec => []NothingStranded` |
| `CreditedAtMostOnce` | `PromptRequests` | `Spec => []PaidOnce` |
| `RequestsCloseInFull` | `PromptRequests` | `Spec => []ClosesInFull` |
| `Services_proofs` | | |
| `LockIsExclusive` | | `Lock!Spec => []ExclusiveInTime` |
| `CodesOpenOnce` | | `Presence!Spec => []OneSessionPerCode` |
| `EndingsAreToldTrue` | | `Callback!Spec => []ToldAsItEnded` |
| `ChangesAreKept` | | `Setting!Spec => NoLostUpdate` |
| `AccountsComeWhole` | | `Applying!Spec => []AccountsAreWhole` |
| `ApprovalsAreBacked` | | `Applying!Spec => []ApprovalIsBacked` |
| `DeskIsFunding`, `DeskIsWithdrawal`, `DeskIsRegistration` | | `DeskSpec` implies the specification of each part |
| `DeskTypeCorrect` | | `DeskSpec => []MoneyTypeOK` |
| `DeskKeepsTheBooks` | `PromptRequests` | `DeskSpec` keeps the other nine properties of `money` |
| `ServicesKeepTheirPromises` | | `ServicesSpec` keeps the first four promises above |
| `Commission_proofs` | | |
| `SplitIsCovered` | | for every amount and all rates, charge within amount, share within charge, shares add up to the charge |
| `RepriceKeepsTheCharge` | | re-pricing at the claim moves the split and never the total |
| `PaidAtTheRateShown` | | the share paid is the rate shown of the amount, capped or not, and the cap bites only a captain promised more than the party pays |

Where the second column is empty, crashes, missing transactions and handlers that are held
up for any time are all included. What it does say is needed: `payout_overlap` and
`payout_stale_holder` run without `PromptRequests`, `payin_unheld` breaks
`NothingGivenUnheld` with one crash, and two overlapping passes of the expiry job break
`OneTurnEach` (Known gaps). A theorem with an assumption is not empty: `payout_prompt`,
`payin_fair`, `routing` and `money` are instances that satisfy it.

### Pay-outs

- **`TypeInv`** adds to `TypeOK` that a pay-out in a held state has a captain (so a job
  that copies it has one to pay), and that a deciding job read a status its handler
  accepts. The second is why transitions are legal: the conditional write pins the status
  to the one read, and the table has an edge from each accepted status. The frame lemmas
  `KeepRow`, `KeepRecords`, `KeepMoney`, `KeepHistory` dispose of the parts a write
  leaves alone, and `SetJob` of the job that moves on.
- **`SettleInv`** adds to `SettledOnce` that a job between the winning write and the
  payment is the only one on its pay-out, that the pay-out has the status it wrote, and
  that nothing has been paid. `QuietStep`, `SettlingBegins`, `SettlingGoesOn` and
  `SettlingEnds` are the four things a step can do to this; legal transitions say that
  a terminal status stays.
- **`NoOverdraft`** is inductive given `TypeInv`: five writes take from a balance and
  each tests it in its own filter; commission is added to `dmc` and `earned` alike.
- **`MoneyConserved`** needs **`CopiesAgree`**: the charge of an open row is the charge of
  the pay-out however often the share in it was re-priced, and a job that settles splits
  that charge. What a row and a job are worth is a function of their status and `pc`
  (`Worth`, `InHand`), so that most steps move one row and one job and keep the sum of
  the two (`Local`, `Changes`).
- **`HoldsMatchHolders`** needs **`HoldersKnown`**: the captain in the copy of a deciding
  job still holds the pay-out, or nobody does. This is where `PromptRequests` enters, and
  without it it is false.
- **`ProofStands`** is strengthened to **`ProofsInHand`** (a submission has the row to
  itself, has stored the proof it queues, and nobody holds a pay-out whose proof is being
  superseded), **`CompletedInFull`** to **`PaymentInv`** (how far the one job that pays
  has come, and that nothing is recorded before completion).
- **`ClaimsAreOpen`** (a claiming job's captain is not excluded from the pay-out) is what
  `ExclusionIsPermanent` needs: the exclusion list is read with the row and is not part of
  the claim's filter.
- **The refinement** maps a status to a stage (`Stage`) and the history to credits
  (`Credited`). Each action is shown to be one action of `PayoutEscrow` for one pay-out
  or to leave all its variables alone, from `TypeInv`, `SettleInv`, `HoldersKnown`,
  `PaymentInv` and `ClaimsAreOpen`.

### Pay-ins

- **`TypeInv`** includes that what a captain has earned is within their balance, and that a
  share is within the charge: the parts of `TypeOK` a re-pricing or a hold could break.
- **`CarriedInv`**: a pay-in is assigned by one job, the creating request's; from when it is
  opened to the customer its captain's amount is held exactly once, and a row that was
  never assigned has had nothing held. **`SettledInv`**: at most one job pays out a settled
  pay-in, on a server without transactions only, and it credits the party first.
  `SettledFromHold` follows from the two.
- **`FundedInv`**: until others draw on the pool, the charges collected by running jobs are
  in it, all at once (`PoolHolds`, a sum over the jobs), so none of them finds it short; and a
  settled pay-in has paid its captain, is being paid out, or is one that `MayBeOwed` excuses.
  The excuses are the statement's own and not assumptions: on a standalone server others had
  drawn on the pool, a write failed while this very share was paid, or the process stopped.
  With transactions there are none, since the charge is collected and the share paid in one
  write.
- **`ClaimsStand`**: a job that has claimed a row and has yet to hold for it finds the claim
  as it left it. With it `HoldsMatchCarriers` is inductive pair by pair, `NothingGivenUnheld`
  follows, and `BooksBalance` is proved as conservation of money is for pay-outs; only three
  steps move the sum (`OutsideStep`), and each is counted: what others draw, what they put in,
  and a share put back although its captain has it.

### Routing

**`OfferInv`**: an offer names a captain who counts as tried, and ends with the claim.
**`PassInv`**: at most one request and one pass route the task together, none while a lapsed
offer is being taken back; and a job whose copy of the tried captains is out of date
(`Stale`) finds somebody else's offer on the row, with nobody left who could take it off
before its write fails (`StaleLoses`). **`TurnInv`** adds up what has been recorded and what
is about to be: an offer written and not yet recorded, a miss taken back and not counted.

### Funding

**`FundingInv`** adds to the types that a deposit locks, and a redemption counts as commission,
no more than the whole of it; that a redemption is never waiting for a payment, so that
nothing but its own writes can make it pending; and **`JobKnows`**: the fee a handler gives
back is within the amount it gives back, and what it is about to insert is what it took.
With it `CommissionIsCovered` is inductive: a redemption and a claim each test the balance in
their own filter, and everything else moves fee and balance together.

The two sums are proved action by action. `Move` says by how much a step moves each of the
nine totals of the books (`FeeMove`: the four of a captain's commission), `Even` that what
goes into one comes out of another; no action but `Crash` leaves the sum short. That is
where `refused = 0` is needed in `FundsAddUp`: after a refused write the handler of
`funding_minted` puts back a share it has already paid out. `FeesAddUp` needs no such
exception.

### Platform withdrawals

What the module needs of its constants is a formula, `WithdrawalAssumption`, which the
theorems take as a hypothesis and `MCMoney` asserts of the instance TLC checks. The types need nothing else: a draw and a payment of commission each test
what they take in the filter of their write. The rest needs `PromptRequests`, since a
cancellation that another request or cancellation overlaps gives slices back twice (Known
gaps). What it buys is **`PromptInv`**:

- `ExclusiveInv`, a cancellation has no other cancellation and no drawing request beside it;
- `StoredInv`, nothing is stored for a request before its insert;
- `DrawingInv`, a row about to be marked has no more left than its draw saw, and an inserted
  request has drawn all it planned;
- `StoringInv`, portions are stored by one handler, before any party answers;
- `GivingInv`, a cancellation holds no more to give back than the portions do, and the row it
  last gave to is as it left it.

**`SpentFacts`** is `NotSpentTwice` row by row: each step moves what is reserved on a row, what
is in hand for it and what is used of it, and the lemmas `ReservedOnMoves`, `InHandOnMoves` and
`InHandOnFalls` say by how much. `NothingStranded` follows from `DrawingInv` and `GivingInv`: a
status saved from an old copy is saved by somebody who saw at least as much left.
**`PayingInv`** adds what confirmations have claimed and not yet credited (`OnItsWay`) to what
a party was credited; a settled portion stays settled. `ClosesInFull` rests on
**`PlannedInv`** (a plan adds up to the amount), **`AskedInv`** (so do the portions, once
stored) and **`ClosedInv`** (a request is closed, or being closed, when all its portions are
settled). Behind `PlannedInv` is `FifoPlanCovers`: taking from the oldest row first adds up to
the amount whenever enough is there to be seen, which is induction along the rows and is
proved by a smallest initial segment on which it fails.

### Services

Each service has an assumption on its constants that its theorems take as a hypothesis and
`MCOperations` asserts. The invariants are small; each says what a copy still knows when it
is used.

- **`LockInv`**: a client inside, or on its way out, that took the lock and has not outstayed
  its time to live still has its token on the key. `DeleteOwnKey` is what keeps it: a late
  release finds another token and deletes nothing.
- **`SessionInv`**: a handler on the way in holds a code that is consumed and that no other
  handler on the way in holds, and a code that has opened a session is held by nobody on the
  way in. The conditional write of `ConsumeCode` is the step that keeps it: a code already
  consumed lets nobody else in, and no step makes it fresh again.
- **`CallbackInv`**: an ending that was told, or that a running send carries, is the status the
  payment has (so an ending is read, carried and told while the row no longer moves), and an
  answer or a record of a delivery comes after something was told.
- **`SettingInv`**: a call past its read holds a copy that is one of the possible settings, and
  what a change is about to save is a setting that patches may touch. The type of a copy is
  what shows that a save with `Written` leaves every other setting as the row has it:
  `NoLostUpdate` is about steps, and each action is shown to change no setting but its own.

### Captains who apply

**`RegistrationInv`** adds to the two properties how far each approval has come. One
administrator at most is past the claim of an application (`ApprovesAlone`), and while it
creates the captain, or removes the account again, the account is the applicant's; before that
it is not. An account of an applicant implies that the application is approved, and a captain
implies that, the account, and that nobody approves it any more (`CaptainIsWhole`). Without it
neither property is inductive: an account without a captain is legal exactly while the same
approval is still to create the one or to remove the other.

### The desk

A step of `Desk` is a step of the part that the behaviour keeps to and leaves every variable of
the others alone, so that `DeskSpec` implies each part's specification, and whatever is proved
of `FundingSpec`, of `PlatformWithdrawal`'s `Spec` or of `Applying!Spec` holds in the run `money`
as well: `DeskTypeCorrect` and `DeskKeepsTheBooks` say so. `ServicesKeepTheirPromises` does the
same for `Services`, whose steps are the ones `operations` takes outside the pay-out.

### Sums

`Total` is a fold of the library, and the provers here cannot instantiate an induction
theorem. The facts the ledgers cite (`Totals_proofs`: a sum changes by what its entries
change by, is at least each entry if none is negative, is zero if all are, and is the sum of
two if its entries are; a finite set of numbers has a greatest) are proved without one: a set of counterexamples among the subsets of a finite set has a smallest
element, since the strict subset order on them is well founded, and a smaller subset of it
refutes it.

### Left to TLC

Every invariant and every action property of the runs that pass is the statement of a theorem.
What is left is liveness, which needs `ENABLED` and fairness and is out of the prover's reach:
`EveryPayInEnds`, `EveryPayoutComesToRest`, `RoutingMovesOn`, `EndingIsTold`, `StaleIsCleared`
and `StaleCacheDies`. And what the theorems assume: that without `PromptRequests`,
`PromptAssignment` or `PromptRouting` some of it fails is shown by the runs that expect a
violation, or by the traces named next.

## Known gaps in the code no standing run shows

TLC gives a trace for each of these when the property is stated and the assumption in its
way is switched off; those marked (read) are read from the code.

After a crash: a confirmation deadline cleared before the approval leaves an
`AUDIT_PENDING` pay-out that the timeout no longer finds; `PROOF_SUBMITTED` is left by no
handler but the one that set it; a `CONFIRMED` pay-in is in no sweep and waits for the
gateway to deliver again; a request approved but not yet credited stays so; an applicant
whose code was consumed and not acted on, or whose mail failed, cannot go on with that
application; without transactions a withdrawal that stops between its portions may be
settled for less than was asked.

Without a crash:

- the deadline left by an earlier captain's proof suppresses the question about the next
  one, or runs out at once (`workflow.service.ts:286`);
- a pay-in disputed after the expiry sweep listed it is expired all the same, and a pay-in
  that was handed back goes to no other captain;
- a withdrawal request that loses a row to another throws before its caller has the slices
  to release; two cancellations of one withdrawal release its slices twice, and a
  cancellation cancels a portion that was paid after it looked;
- the expiry job starts a pass each minute whether or not the last has ended
  (`jobs/taskExpiry.job.ts:108`, unlike `transactionSweep.job.ts:25`): two passes and a
  request that route one task together can offer it to one captain twice (`OneTurnEach`
  with two `Sweepers`);
- on a standalone server a settled pay-in may leave its captain unpaid for good: admin drew on
  the pool between the collection of the charge and the share, or a write of the share failed
  (`MayBeOwed`). The code means it so (`platformAccount.service.ts:37-41` and `106-110`,
  `captainBalance.service.ts:57-60`), but nothing pays it later, and
  `commissionPaid` is all that says so; for a pay-out not even that is kept;
- a share put back although the captain has it (`minted` in `BooksBalance`) is the defect
  `funding_minted` shows, met in `settle`;
- `requestCancellation` of an unclaimed pay-out leaves its routing offer live
  (`workflow.service.ts:1075`);
- two changes of the settings at once record one version twice, and the second record is
  swallowed, so that the history names settings that never held (`HistoryIsTrue` in
  `Settings`);
- an application approved while its applicant applied again stays `APPROVED` with nothing
  behind it if the approval fails (the exception in `ApprovalIsBacked`);
- `percentOfPaise` does not always round half up: the `EPSILON` it adds is below the spacing
  of doubles above one, so 2.28% of 1250 is 28 and not 29 (`FallsShort` in `Commission`);
- (read) two first accounts added at once are both active, against the header of
  `captainUpi.service.ts`;
- (read) `recordOutcome` computes a rating from the totals it got back and writes it without
  a condition, so the rating of an earlier outcome may overwrite a later one;
- (read) of two system records whose references differ in case, `reconcile` knows only the
  last, and reports neither the other nor its absence once a statement row matches;
- (read) two confirmations of one import batch at once overwrite each other's count of rows.

## Not modelled

The map covers the decisions and writes of the server's services, and about half of their
lines. It cannot cover a large share of the repository: leaving the tests aside, a third
is the browser client, which keeps no state but what the API returned; a sixth is the
audit harness that drives a running server, seeds, migrations and the demonstration party;
and of the rest, routes, validators, serializers, schemas and configuration turn requests
into calls and rows into text. Of the services the following are left out. `reconciliation` is one pure function over
parsed statements; `audit` and `notification` append and broadcast; `payoutDispute` sets a
flag once on an ended pay-out and answers it once, moving nothing; `csvImport` and
`integrationPackage` parse and document; `captainUpi` keeps a list of accounts; `apiKey`,
`token` and the middleware are cryptography and checks on one request; `exchangeRate`,
`upiGateway`, `mailer` and `storage` are the outside.

## Plan

Done: the pay-out workflow with its promise and proofs, pay-ins, routing, funding, platform
withdrawals, captains who apply, the services around them and the commission arithmetic, each
with its proofs. What a next step would take up:

1. The score of `captainRating` and the write that follows it; the accounts of `captainUpi`.
2. `OneTurnEach` with several passes of the expiry job, once the code starts no pass while the
   last is running.
3. Funding, withdrawals, pay-ins and pay-outs over one pool: they draw on it through
   conditional writes. Pay-ins and withdrawals are proved with the others as environment
   actions; `PayoutWorkflow` has no such action yet, and `Funding` none that draws.
