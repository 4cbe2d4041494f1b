--------------------------- MODULE Funding_proofs ---------------------------
(***************************************************************************)
(* What holds of Funding for every number of requests, captains, parties   *)
(* and overlapping handlers, whatever the amounts: a fee kept is covered   *)
(* by the balance, and the books add up.                                   *)
(***************************************************************************)
EXTENDS FundingLedger, Totals_proofs

USE FundingAssumption

-----------------------------------------------------------------------------
(* What is in a balance covers the fee in it *)

\* No more of a deposit is locked, and no more of a redemption is commission,
\* than there is of it; a redemption is never asked for, only taken.
FundingRowsInv ==
  /\ status \in [AllRequests -> Statuses]
  /\ locked \in [AllRequests -> Nat] /\ consumed \in [AllRequests -> Nat]
  /\ \A r \in AllRequests : locked[r] <= Amount[r] /\ consumed[r] <= Amount[r]
  /\ \A r \in Redemptions : status[r] \in {"ABSENT", "PENDING", "PAID", "REJECTED"}

BalancesInv ==
  /\ dmc \in [Captains -> Nat] /\ earned \in [Captains -> Nat]
  /\ \A c \in Captains : earned[c] <= dmc[c]
  /\ collateral \in [Captains -> Nat] /\ creditLimit \in [Captains -> Nat \cup {None}]
  /\ working \in [Captains -> Nat] /\ commissions \in [Captains -> Nat]
  /\ partyBalance \in [Parties -> Nat] /\ poolBalance \in Nat /\ funded \in Nat

\* A handler knows whose money it has in hand, and never more commission than
\* money.
HandlerKnows(job) ==
  /\ job.pc = "insert" => job.r \in AllRequests \ Redemptions
  /\ job.pc = "credit" => job.r \in AllRequests
  /\ job.pc = "insertHeld" =>
       job.r \in Redemptions /\ job.c = Owner[job.r] /\ job.amount = Amount[job.r]
  /\ job.pc \in {"insertHeld", "giveBack"} => job.c \in Captains /\ job.fee <= job.amount
  /\ job.pc = "creditShare" => job.c \in Captains

HandlersInv == serving \in [Handlers -> Serving] /\ \A h \in Handlers : HandlerKnows(serving[h])

FaultsInv ==
  useTransactions \in BOOLEAN /\ refused \in 0..MaxRefused /\ stops \in 0..MaxCrashes

FundingInv == FundingRowsInv /\ BalancesInv /\ HandlersInv /\ FaultsInv

LEMMA SetHandler ==
  ASSUME HandlersInv, NEW h \in Handlers, NEW job \in Serving, HandlerKnows(job),
         serving' = [serving EXCEPT ![h] = job]
  PROVE  HandlersInv'
<1>1. serving' \in [Handlers -> Serving]
  BY DEF HandlersInv
<1>2. ASSUME NEW g \in Handlers PROVE HandlerKnows(serving'[g])
  <2>1. serving'[g] = IF g = h THEN job ELSE serving[g]
    BY DEF HandlersInv
  <2> QED
    BY <2>1 DEF HandlersInv
<1>3. ASSUME NEW g \in Handlers PROVE HandlerKnows(serving[g])'
  BY <1>2, <1>3 DEF HandlerKnows
<1> QED
  BY <1>1, <1>3 DEF HandlersInv

\* A handler that has nothing in hand knows what it must.
LEMMA EmptyJob ==
  ASSUME NEW job \in Serving, job.pc \in {"idle", "entry", "collect"}
  PROVE  HandlerKnows(job)
BY DEF HandlerKnows

LEMMA EndJob ==
  ASSUME HandlersInv, NEW h \in Handlers, End(h)
  PROVE  HandlersInv'
<1>1. Free \in Serving /\ Free.pc = "idle"
  BY DEF Free, Serving, Stages
<1> QED
  BY <1>1, EmptyJob, SetHandler DEF End

\* Half up, a percentage of an amount is no more than the whole of it.
LEMMA LockedPartBounds ==
  ASSUME NEW a \in Nat, NEW p \in 0..100
  PROVE  LockedPart(a, p) \in 0..a
<1>1. a * p \in Nat /\ a * p <= a * 100
  OBVIOUS
<1> DEFINE q == a * p
<1>2. q \in Nat /\ q <= a * 100
  BY <1>1
<1> HIDE DEF q
<1>3. (q + 50) \div 100 \in 0..a
  BY <1>2
<1> QED
  BY <1>3 DEF LockedPart, q

LEMMA AmountOK == ASSUME NEW r \in AllRequests PROVE Amount[r] \in Nat /\ Amount[r] > 0
OBVIOUS

LEMMA OwnerOK ==
  /\ \A r \in TopUps : r \in AllRequests /\ Owner[r] \in Parties
  /\ \A r \in CaptainRequests : r \in AllRequests /\ Owner[r] \in Captains
BY DEF AllRequests, CaptainRequests

\* A redemption takes fee and balance together, the fee within the balance.
LEMMA RedemptionTaken ==
  ASSUME BalancesInv, NEW r \in Redemptions, TakeForRedemption(r), UNCHANGED <<partyBalance, poolVars>>
  PROVE  /\ BalancesInv'
         /\ Smaller(Amount[r], earned[Owner[r]]) \in Nat
         /\ Smaller(Amount[r], earned[Owner[r]]) <= Amount[r]
<1>1. PICK c \in Captains, a \in Nat : c = Owner[r] /\ a = Amount[r]
  BY OwnerOK, AmountOK DEF CaptainRequests
<1>2. PICK d \in Nat, e \in Nat : d = dmc[c] /\ e = earned[c] /\ e <= d
  BY DEF BalancesInv
<1>3. PICK s \in Nat : s = Smaller(a, e) /\ s <= a /\ s <= e /\ (s = a \/ s = e)
  BY DEF Smaller
<1>4. a <= d
  BY <1>1, <1>2 DEF TakeForRedemption
<1>5. d - a \in Nat /\ e - s \in Nat /\ e - s <= d - a
  BY <1>2, <1>3, <1>4
<1>6. dmc' = [dmc EXCEPT ![c] = d - a] /\ earned' = [earned EXCEPT ![c] = e - s]
  BY <1>1, <1>2, <1>3 DEF TakeForRedemption
<1>7. dmc' \in [Captains -> Nat] /\ earned' \in [Captains -> Nat]
  BY <1>5, <1>6 DEF BalancesInv
<1>8. ASSUME NEW x \in Captains PROVE earned'[x] <= dmc'[x]
  <2>1. CASE x = c
    BY <1>5, <1>6, <2>1 DEF BalancesInv
  <2>2. CASE x # c
    BY <1>6, <2>2 DEF BalancesInv
  <2> QED
    BY <2>1, <2>2
<1>9. BalancesInv'
  BY <1>7, <1>8 DEF BalancesInv, TakeForRedemption, poolVars
<1> QED
  BY <1>1, <1>2, <1>3, <1>9

LEMMA FundingStarts == FundingInit => FundingInv
<1> SUFFICES ASSUME FundingInit PROVE FundingInv
  OBVIOUS
<1>1. FundingRowsInv /\ BalancesInv /\ FaultsInv
  BY AmountOK DEF FundingInit, FundingRowsInv, BalancesInv, FaultsInv, Statuses, AllRequests, CaptainRequests
<1>2. Free \in Serving /\ HandlerKnows(Free)
  BY DEF Free, Serving, Stages, HandlerKnows
<1>3. HandlersInv
  BY <1>2 DEF FundingInit, HandlersInv
<1> QED
  BY <1>1, <1>3 DEF FundingInv

LEMMA FundingStep ==
  ASSUME FundingInv, [FundingNext]_fundingVars
  PROVE  FundingInv'
<1>0. FundingRowsInv /\ BalancesInv /\ HandlersInv /\ FaultsInv
  BY DEF FundingInv
<1> USE <1>0
<1>1. ASSUME NEW h \in Handlers, InsertRow(h)
      PROVE  FundingInv'
  <2>1. FundingRowsInv'
    BY <1>1, AmountOK
    DEF InsertRow, Moves, FundingRowsInv, HandlersInv, HandlerKnows, On, Statuses
  <2>2. BalancesInv'
    BY <1>1
    DEF InsertRow, BalancesInv, requestVars, captainVars, poolVars, faultVars
  <2>3. HandlersInv'
    BY <1>1, EndJob DEF InsertRow
  <2>4. FaultsInv'
    BY <1>1 DEF InsertRow, FaultsInv, faultVars
  <2> QED
    BY <2>1, <2>2, <2>3, <2>4 DEF FundingInv
<1>2. ASSUME NEW h \in Handlers, CreditTopUp(h)
      PROVE  FundingInv'
  <2>1. FundingRowsInv'
    BY <1>2
    DEF CreditTopUp, FundingRowsInv, requestVars, captainVars, poolVars, faultVars
  <2>2. BalancesInv'
    BY <1>2, AmountOK, OwnerOK
    DEF CreditTopUp, BalancesInv, FundingRowsInv, HandlersInv, HandlerKnows, Serving, On, Smaller,
        captainVars, poolVars
  <2>3. HandlersInv'
    BY <1>2, EndJob DEF CreditTopUp
  <2>4. FaultsInv'
    BY <1>2 DEF CreditTopUp, FaultsInv, faultVars
  <2> QED
    BY <2>1, <2>2, <2>3, <2>4 DEF FundingInv
<1>3. ASSUME NEW h \in Handlers, CreditDeposit(h)
      PROVE  FundingInv'
  <2>1. FundingRowsInv'
    BY <1>3
    DEF CreditDeposit, FundingRowsInv, requestVars, captainVars, poolVars, faultVars
  <2>2. BalancesInv'
    <3>1. PICK r \in Deposits, c \in Captains : r = serving[h].r /\ c = Owner[r]
      BY <1>3, OwnerOK DEF CreditDeposit, CaptainRequests
    <3>2. PICK a \in Nat, l \in Nat : a = Amount[r] /\ l = locked[r] /\ l <= a
      BY OwnerOK, AmountOK DEF FundingRowsInv, CaptainRequests
    <3>3. PICK d \in Nat, k \in Nat : d = dmc[c] /\ k = collateral[c] /\ earned[c] <= d
      BY DEF BalancesInv
    <3>4. /\ dmc' = [dmc EXCEPT ![c] = d + a - l]
          /\ collateral' = [collateral EXCEPT ![c] = k + l]
      BY <1>3, <3>1, <3>2, <3>3 DEF CreditDeposit
    <3>5. d + a - l \in Nat /\ d <= d + a - l /\ k + l \in Nat
      BY <3>2, <3>3
    <3>6. earned[c] \in Nat /\ earned[c] <= d + a - l
      BY <3>2, <3>3 DEF BalancesInv
    <3>7. earned' = earned
      BY <1>3 DEF CreditDeposit
    <3>8. dmc' \in [Captains -> Nat] /\ collateral' \in [Captains -> Nat] /\ earned' = earned
      BY <3>4, <3>5, <3>7 DEF BalancesInv
    <3>9. ASSUME NEW x \in Captains PROVE earned'[x] <= dmc'[x]
      <4>1. CASE x = c
        BY <3>4, <3>6, <3>8, <4>1 DEF BalancesInv
      <4>2. CASE x # c
        BY <3>4, <3>8, <4>2 DEF BalancesInv
      <4> QED
        BY <4>1, <4>2
    <3> QED
      BY <1>3, <3>8, <3>9 DEF CreditDeposit, BalancesInv, poolVars
  <2>3. HandlersInv'
    BY <1>3, EndJob DEF CreditDeposit
  <2>4. FaultsInv'
    BY <1>3 DEF CreditDeposit, FaultsInv, faultVars
  <2> QED
    BY <2>1, <2>2, <2>3, <2>4 DEF FundingInv
<1>4. ASSUME NEW h \in Handlers, CreditLimitPurchase(h)
      PROVE  FundingInv'
  <2>1. FundingRowsInv'
    BY <1>4
    DEF CreditLimitPurchase, CeilingOf, FundingRowsInv, requestVars, captainVars,
        poolVars, faultVars
  <2>2. BalancesInv'
    <3>1. PICK r \in LimitPurchases, c \in Captains : r = serving[h].r /\ c = Owner[r]
      BY <1>4, OwnerOK DEF CreditLimitPurchase, CaptainRequests
    <3>2. PICK a \in Nat, k \in Nat : a = Amount[r] /\ k = CeilingOf(c)
      BY OwnerOK, AmountOK DEF BalancesInv, CaptainRequests, CeilingOf
    <3>3. /\ dmc' = [dmc EXCEPT ![c] = @ + a]
          /\ creditLimit' = [creditLimit EXCEPT ![c] = k + a]
      BY <1>4, <3>1, <3>2 DEF CreditLimitPurchase
    <3>4. PICK d \in Nat, e \in Nat : d = dmc[c] /\ e = earned[c] /\ e <= d
      BY DEF BalancesInv
    <3>5. dmc' = [dmc EXCEPT ![c] = d + a] /\ d + a \in Nat /\ e <= d + a /\ k + a \in Nat
      BY <3>3, <3>4
    <3>6. earned' = earned
      BY <1>4 DEF CreditLimitPurchase
    <3>7. creditLimit' \in [Captains -> Nat \cup {None}]
      BY <3>3, <3>5 DEF BalancesInv
    <3>8. dmc' \in [Captains -> Nat] /\ earned' = earned
      BY <3>5, <3>6 DEF BalancesInv
    <3>9. ASSUME NEW x \in Captains PROVE earned'[x] <= dmc'[x]
      <4>1. CASE x = c
        BY <3>4, <3>5, <3>8, <4>1 DEF BalancesInv
      <4>2. CASE x # c
        BY <3>5, <3>8, <4>2 DEF BalancesInv
      <4> QED
        BY <4>1, <4>2
    <3> QED
      BY <1>4, <3>8, <3>9, <3>7 DEF CreditLimitPurchase, BalancesInv, poolVars
  <2>3. HandlersInv'
    BY <1>4, EndJob DEF CreditLimitPurchase
  <2>4. FaultsInv'
    BY <1>4 DEF CreditLimitPurchase, CeilingOf, FaultsInv, faultVars
  <2> QED
    BY <2>1, <2>2, <2>3, <2>4 DEF FundingInv
<1>5. ASSUME NEW h \in Handlers, InsertRedemption(h)
      PROVE  FundingInv'
  <2>1. FundingRowsInv'
    <3>1. PICK r \in Redemptions, e \in Nat :
            r = serving[h].r /\ e = serving[h].fee /\ e <= Amount[r]
      BY <1>5 DEF InsertRedemption, On, HandlersInv, HandlerKnows, Serving
    <3>2. /\ status' = [status EXCEPT ![r] = "PENDING"] /\ UNCHANGED locked
          /\ consumed' = [consumed EXCEPT ![r] = e]
      BY <1>5, <3>1 DEF InsertRedemption, Moves
    <3>3. r \in AllRequests /\ status' \in [AllRequests -> Statuses] /\ consumed' \in [AllRequests -> Nat]
      BY <3>1, <3>2, OwnerOK DEF FundingRowsInv, Statuses, CaptainRequests
    <3>4. \A q \in AllRequests : consumed'[q] <= Amount[q]
      BY <3>1, <3>2 DEF FundingRowsInv
    <3>5. \A q \in Redemptions : status'[q] \in {"ABSENT", "PENDING", "PAID", "REJECTED"}
      BY <3>2, OwnerOK DEF FundingRowsInv, CaptainRequests
    <3> QED
      BY <3>2, <3>3, <3>4, <3>5 DEF FundingRowsInv
  <2>2. BalancesInv'
    BY <1>5
    DEF InsertRedemption, BalancesInv, requestVars, captainVars, poolVars,
        faultVars
  <2>3. HandlersInv'
    BY <1>5, EndJob DEF InsertRedemption
  <2>4. FaultsInv'
    BY <1>5 DEF InsertRedemption, FaultsInv, faultVars
  <2> QED
    BY <2>1, <2>2, <2>3, <2>4 DEF FundingInv
<1>6. ASSUME NEW h \in Handlers, InsertFails(h)
      PROVE  FundingInv'
  <2>1. FundingRowsInv'
    BY <1>6
    DEF InsertFails, Refused, FundingRowsInv, requestVars, captainVars, poolVars,
        faultVars
  <2>2. BalancesInv'
    BY <1>6
    DEF InsertFails, Refused, BalancesInv, requestVars, captainVars, poolVars,
        faultVars
  <2>3. HandlersInv'
    <3> DEFINE job == [serving[h] EXCEPT !.pc = "giveBack"]
    <3>1. job \in Serving /\ HandlerKnows(job)
      BY <1>6 DEF InsertFails, Refused, HandlersInv, Serving, Stages, HandlerKnows, On
    <3>2. serving' = [serving EXCEPT ![h] = job]
      BY <1>6 DEF InsertFails, Refused, GoOn, HandlersInv
    <3> QED
      BY <3>1, <3>2, SetHandler
  <2>4. FaultsInv'
    BY <1>6 DEF InsertFails, Refused, FaultsInv, faultVars
  <2> QED
    BY <2>1, <2>2, <2>3, <2>4 DEF FundingInv
<1>7. ASSUME NEW h \in Handlers, GiveBack(h)
      PROVE  FundingInv'
  <2>1. FundingRowsInv'
    BY <1>7 DEF GiveBack, FundingRowsInv, requestVars, captainVars, poolVars, faultVars
  <2>2. BalancesInv'
    BY <1>7, AmountOK, OwnerOK
    DEF GiveBack, BalancesInv, FundingRowsInv, HandlersInv, HandlerKnows, Serving, On, Smaller,
        captainVars, poolVars
  <2>3. HandlersInv'
    BY <1>7, EndJob DEF GiveBack
  <2>4. FaultsInv'
    BY <1>7 DEF GiveBack, FaultsInv, faultVars
  <2> QED
    BY <2>1, <2>2, <2>3, <2>4 DEF FundingInv
<1>8. ASSUME NEW h \in Handlers, CreditShare(h)
      PROVE  FundingInv'
  <2>1. FundingRowsInv'
    BY <1>8
    DEF CreditShare, CreditCaptain, FundingRowsInv, requestVars, captainVars,
        poolVars, faultVars
  <2>2. BalancesInv'
    BY <1>8, AmountOK, OwnerOK
    DEF CreditShare, CreditCaptain, BalancesInv, FundingRowsInv, HandlersInv, HandlerKnows, Serving,
        On, Smaller, captainVars, poolVars
  <2>3. HandlersInv'
    <3> DEFINE job == [serving[h] EXCEPT !.pc = "entry"]
    <3>1. job \in Serving /\ HandlerKnows(job)
      BY <1>8 DEF CreditShare, CreditCaptain, HandlersInv, Serving, Stages, HandlerKnows, On
    <3>2. serving' = [serving EXCEPT ![h] = job]
      BY <1>8 DEF CreditShare, CreditCaptain, GoOn, HandlersInv
    <3> QED
      BY <3>1, <3>2, SetHandler
  <2>4. FaultsInv'
    BY <1>8 DEF CreditShare, CreditCaptain, FaultsInv, faultVars
  <2> QED
    BY <2>1, <2>2, <2>3, <2>4 DEF FundingInv
<1>9. ASSUME NEW h \in Handlers, WriteEntry(h)
      PROVE  FundingInv'
  <2>1. FundingRowsInv'
    BY <1>9
    DEF WriteEntry, FundingRowsInv, requestVars, captainVars, poolVars, faultVars
  <2>2. BalancesInv'
    BY <1>9
    DEF WriteEntry, BalancesInv, requestVars, captainVars, poolVars, faultVars
  <2>3. HandlersInv'
    BY <1>9, EndJob DEF WriteEntry
  <2>4. FaultsInv'
    BY <1>9 DEF WriteEntry, FaultsInv, faultVars
  <2> QED
    BY <2>1, <2>2, <2>3, <2>4 DEF FundingInv
<1>10. ASSUME NEW h \in Handlers, ShareFails(h)
       PROVE  FundingInv'
  <2>1. FundingRowsInv'
    BY <1>10
    DEF ShareFails, Refused, FundingRowsInv, requestVars, captainVars, poolVars,
        faultVars
  <2>2. BalancesInv'
    BY <1>10
    DEF ShareFails, Refused, BalancesInv, requestVars, captainVars, poolVars,
        faultVars
  <2>3. HandlersInv'
    <3> DEFINE job == [serving[h] EXCEPT !.pc = "collect"]
    <3>1. job \in Serving /\ HandlerKnows(job)
      BY <1>10 DEF ShareFails, Refused, HandlersInv, Serving, Stages, HandlerKnows, On
    <3>2. serving' = [serving EXCEPT ![h] = job]
      BY <1>10 DEF ShareFails, Refused, GoOn, HandlersInv
    <3> QED
      BY <3>1, <3>2, SetHandler
  <2>4. FaultsInv'
    BY <1>10 DEF ShareFails, Refused, FaultsInv, faultVars
  <2> QED
    BY <2>1, <2>2, <2>3, <2>4 DEF FundingInv
<1>11. ASSUME NEW h \in Handlers, CollectBack(h)
       PROVE  FundingInv'
  <2>1. FundingRowsInv'
    BY <1>11
    DEF CollectBack, FundingRowsInv, requestVars, captainVars, poolVars, faultVars
  <2>2. BalancesInv'
    BY <1>11, AmountOK, OwnerOK
    DEF CollectBack, BalancesInv, FundingRowsInv, HandlersInv, HandlerKnows, Serving, On, Smaller,
        captainVars, poolVars
  <2>3. HandlersInv'
    BY <1>11, EndJob DEF CollectBack
  <2>4. FaultsInv'
    BY <1>11 DEF CollectBack, FaultsInv, faultVars
  <2> QED
    BY <2>1, <2>2, <2>3, <2>4 DEF FundingInv
<1>12. ASSUME NEW h \in Handlers, NEW r \in AllRequests, RequestRead(h, r)
       PROVE  FundingInv'
  <2>1. FundingRowsInv'
    BY <1>12
    DEF RequestRead, FundingRowsInv, requestVars, captainVars, poolVars, faultVars
  <2>2. BalancesInv'
    BY <1>12
    DEF RequestRead, BalancesInv, requestVars, captainVars, poolVars, faultVars
  <2>3. HandlersInv'
    <3> DEFINE job == [Free EXCEPT !.pc = "insert", !.r = r]
    <3>1. job \in Serving /\ HandlerKnows(job)
      BY <1>12, AmountOK, OwnerOK, <2>1, <2>2
      DEF RequestRead, Free, Serving, Stages, HandlerKnows, Smaller, Moves, FundingRowsInv,
          BalancesInv, CaptainRequests, AllRequests
    <3>2. serving' = [serving EXCEPT ![h] = job]
      BY <1>12 DEF RequestRead, Serve
    <3> HIDE DEF job
    <3> QED
      BY <3>1, <3>2, SetHandler
  <2>4. FaultsInv'
    BY <1>12 DEF RequestRead, FaultsInv, faultVars
  <2> QED
    BY <2>1, <2>2, <2>3, <2>4 DEF FundingInv
<1>13. ASSUME NEW h \in Handlers, NEW r \in AllRequests, Approve(h, r)
       PROVE  FundingInv'
  <2>1. FundingRowsInv'
    <3>1. status' = [status EXCEPT ![r] = "APPROVED"] /\ r \notin Redemptions
      BY <1>13 DEF Approve, Approved, Moves
    <3>2. PICK a \in Nat : a = Amount[r]
      BY AmountOK
    <3>3. PICK l \in 0..a : locked' = locked \/ locked' = [locked EXCEPT ![r] = l]
      <4>1. CASE r \notin Deposits
        BY <1>13, <4>1 DEF Approve
      <4>2. CASE r \in Deposits
        <5>1. PICK p \in LockPercentages :
                locked' = [locked EXCEPT ![r] = LockedPart(Amount[r], p)]
          BY <1>13, <4>2 DEF Approve
        <5>2. LockedPart(a, p) \in 0..a
          BY LockedPartBounds
        <5> QED
          BY <3>2, <5>1, <5>2
      <4> QED
        BY <4>1, <4>2
    <3>4. locked' \in [AllRequests -> Nat] /\ \A q \in AllRequests : locked'[q] <= Amount[q]
      BY <3>2, <3>3 DEF FundingRowsInv
    <3>5. status' \in [AllRequests -> Statuses]
      BY <3>1 DEF FundingRowsInv, Statuses
    <3>6. \A q \in Redemptions : status'[q] = status[q]
      BY <3>1, OwnerOK DEF FundingRowsInv, CaptainRequests
    <3> QED
      BY <1>13, <3>4, <3>5, <3>6 DEF Approve, FundingRowsInv
  <2>2. BalancesInv'
    BY <1>13
    DEF Approve, Approved, BalancesInv, requestVars, captainVars, poolVars,
        faultVars
  <2>3. HandlersInv'
    <3> DEFINE job == [Free EXCEPT !.pc = "credit", !.r = r]
    <3>1. job \in Serving /\ HandlerKnows(job)
      BY <1>13, AmountOK, OwnerOK, <2>1, <2>2
      DEF Approve, Approved, Free, Serving, Stages, HandlerKnows, Smaller, Moves,
          FundingRowsInv, BalancesInv, CaptainRequests, AllRequests
    <3>2. serving' = [serving EXCEPT ![h] = job]
      BY <1>13 DEF Approve, Approved, Serve
    <3> HIDE DEF job
    <3> QED
      BY <3>1, <3>2, SetHandler
  <2>4. FaultsInv'
    BY <1>13 DEF Approve, Approved, FaultsInv, faultVars
  <2> QED
    BY <2>1, <2>2, <2>3, <2>4 DEF FundingInv
<1>14. ASSUME NEW h \in Handlers, NEW r \in AllRequests, RedeemHold(h, r)
       PROVE  FundingInv'
  <2>1. FundingRowsInv'
    BY <1>14
    DEF RedeemHold, Redeemable, TakeForRedemption, FundingRowsInv, requestVars,
        captainVars, poolVars, faultVars
  <2>2. BalancesInv'
    <3>1. r \in Redemptions
      BY <1>14 DEF RedeemHold, Redeemable
    <3> QED
      BY <1>14, <3>1, RedemptionTaken DEF RedeemHold
  <2>3. HandlersInv'
    <3> DEFINE job == [pc |-> "insertHeld", r |-> r, c |-> Owner[r], amount |-> Amount[r],
                           fee |-> Smaller(Amount[r], earned[Owner[r]])]
    <3>1. job \in Serving /\ HandlerKnows(job)
      BY <1>14, AmountOK, OwnerOK, <2>1, <2>2
      DEF RedeemHold, Redeemable, TakeForRedemption, Free, Serving, Stages, HandlerKnows,
          Smaller, Moves, FundingRowsInv, BalancesInv, CaptainRequests, AllRequests
    <3>2. serving' = [serving EXCEPT ![h] = job]
      BY <1>14 DEF RedeemHold, Redeemable, TakeForRedemption, Serve
    <3> HIDE DEF job
    <3> QED
      BY <3>1, <3>2, SetHandler
  <2>4. FaultsInv'
    BY <1>14 DEF RedeemHold, Redeemable, TakeForRedemption, FaultsInv, faultVars
  <2> QED
    BY <2>1, <2>2, <2>3, <2>4 DEF FundingInv
<1>15. ASSUME NEW h \in Handlers, NEW r \in AllRequests,
             RejectRedemption(h, r)
      PROVE  FundingInv'
  <2>1. FundingRowsInv'
    BY <1>15, AmountOK
    DEF RejectRedemption, Moves, FundingRowsInv, HandlersInv, HandlerKnows, On, Statuses
  <2>2. BalancesInv'
    BY <1>15
    DEF RejectRedemption, BalancesInv, requestVars, captainVars, poolVars,
        faultVars
  <2>3. HandlersInv'
    <3> DEFINE job == [pc |-> "giveBack", r |-> r, c |-> Owner[r], amount |-> Amount[r],
                           fee |-> consumed[r]]
    <3>1. job \in Serving /\ HandlerKnows(job)
      BY <1>15, AmountOK, OwnerOK, <2>1, <2>2
      DEF RejectRedemption, Free, Serving, Stages, HandlerKnows, Smaller, Moves, FundingRowsInv,
          BalancesInv, CaptainRequests, AllRequests
    <3>2. serving' = [serving EXCEPT ![h] = job]
      BY <1>15 DEF RejectRedemption, Serve
    <3> HIDE DEF job
    <3> QED
      BY <3>1, <3>2, SetHandler
  <2>4. FaultsInv'
    BY <1>15 DEF RejectRedemption, FaultsInv, faultVars
  <2> QED
    BY <2>1, <2>2, <2>3, <2>4 DEF FundingInv
<1>16. ASSUME NEW r \in AllRequests, RequestDeposit(r)
       PROVE  FundingInv'
  <2>1. FundingRowsInv'
    BY <1>16, AmountOK
    DEF RequestDeposit, Moves, FundingRowsInv, HandlersInv, HandlerKnows, On, Statuses
  <2>2. BalancesInv'
    BY <1>16
    DEF RequestDeposit, BalancesInv, requestVars, captainVars, poolVars,
        faultVars
  <2>3. HandlersInv'
    BY <1>16 DEF RequestDeposit, HandlersInv, HandlerKnows
  <2>4. FaultsInv'
    BY <1>16 DEF RequestDeposit, FaultsInv, faultVars
  <2> QED
    BY <2>1, <2>2, <2>3, <2>4 DEF FundingInv
<1>17. ASSUME NEW r \in AllRequests, RedeemInTransaction(r)
       PROVE  FundingInv'
  <2>1. FundingRowsInv'
    <3>1. r \in Redemptions
      BY <1>17 DEF RedeemInTransaction, Redeemable
    <3>2. PICK s \in Nat : s = Smaller(Amount[r], earned[Owner[r]]) /\ s <= Amount[r]
      BY <1>17, <3>1, RedemptionTaken DEF RedeemInTransaction
    <3>3. /\ status' = [status EXCEPT ![r] = "PENDING"] /\ UNCHANGED locked
          /\ consumed' = [consumed EXCEPT ![r] = s]
      BY <1>17, <3>2 DEF RedeemInTransaction
    <3> QED
      BY <3>1, <3>2, <3>3 DEF FundingRowsInv, Statuses
  <2>2. BalancesInv'
    <3>1. r \in Redemptions
      BY <1>17 DEF RedeemInTransaction, Redeemable
    <3> QED
      BY <1>17, <3>1, RedemptionTaken DEF RedeemInTransaction
  <2>3. HandlersInv'
    BY <1>17
    DEF RedeemInTransaction, Redeemable, TakeForRedemption, HandlersInv, HandlerKnows
  <2>4. FaultsInv'
    BY <1>17
    DEF RedeemInTransaction, Redeemable, TakeForRedemption, FaultsInv,
        faultVars
  <2> QED
    BY <2>1, <2>2, <2>3, <2>4 DEF FundingInv
<1>18. ASSUME NEW r \in AllRequests, MarkPaid(r)
       PROVE  FundingInv'
  <2>1. FundingRowsInv'
    BY <1>18, AmountOK
    DEF MarkPaid, Moves, FundingRowsInv, HandlersInv, HandlerKnows, On, Statuses
  <2>2. BalancesInv'
    BY <1>18
    DEF MarkPaid, BalancesInv, requestVars, captainVars, poolVars, faultVars
  <2>3. HandlersInv'
    BY <1>18 DEF MarkPaid, HandlersInv, HandlerKnows
  <2>4. FaultsInv'
    BY <1>18 DEF MarkPaid, FaultsInv, faultVars
  <2> QED
    BY <2>1, <2>2, <2>3, <2>4 DEF FundingInv
<1>19. ASSUME NEW r \in AllRequests, Reject(r)
       PROVE  FundingInv'
  <2>1. FundingRowsInv'
    BY <1>19, AmountOK
    DEF Reject, Moves, FundingRowsInv, HandlersInv, HandlerKnows, On, Statuses
  <2>2. BalancesInv'
    BY <1>19 DEF Reject, BalancesInv, requestVars, captainVars, poolVars, faultVars
  <2>3. HandlersInv'
    BY <1>19 DEF Reject, HandlersInv, HandlerKnows
  <2>4. FaultsInv'
    BY <1>19 DEF Reject, FaultsInv, faultVars
  <2> QED
    BY <2>1, <2>2, <2>3, <2>4 DEF FundingInv
<1>20. ASSUME NEW r \in AllRequests, MarkRedemptionPaid(r)
       PROVE  FundingInv'
  <2>1. FundingRowsInv'
    BY <1>20, AmountOK
    DEF MarkRedemptionPaid, Moves, FundingRowsInv, HandlersInv, HandlerKnows, On, Statuses
  <2>2. BalancesInv'
    BY <1>20
    DEF MarkRedemptionPaid, BalancesInv, requestVars, captainVars, poolVars,
        faultVars
  <2>3. HandlersInv'
    BY <1>20 DEF MarkRedemptionPaid, HandlersInv, HandlerKnows
  <2>4. FaultsInv'
    BY <1>20 DEF MarkRedemptionPaid, FaultsInv, faultVars
  <2> QED
    BY <2>1, <2>2, <2>3, <2>4 DEF FundingInv
<1>21. ASSUME NEW c \in Captains, NEW share \in Shares,
             PayShareInTransaction(c, share)
      PROVE  FundingInv'
  <2>1. FundingRowsInv'
    BY <1>21
    DEF PayShareInTransaction, CreditCaptain, FundingRowsInv, requestVars,
        captainVars, poolVars, faultVars
  <2>2. BalancesInv'
    BY <1>21, AmountOK, OwnerOK
    DEF PayShareInTransaction, CreditCaptain, BalancesInv, FundingRowsInv, HandlersInv,
        HandlerKnows, Serving, On, Smaller, captainVars, poolVars
  <2>3. HandlersInv'
    BY <1>21 DEF PayShareInTransaction, CreditCaptain, HandlersInv, HandlerKnows
  <2>4. FaultsInv'
    BY <1>21 DEF PayShareInTransaction, CreditCaptain, FaultsInv, faultVars
  <2> QED
    BY <2>1, <2>2, <2>3, <2>4 DEF FundingInv
<1>22. ASSUME NEW h \in Handlers, NEW c \in Captains, NEW share \in Shares,
             TakeShare(h, c, share)
      PROVE  FundingInv'
  <2>1. FundingRowsInv'
    BY <1>22
    DEF TakeShare, FundingRowsInv, requestVars, captainVars, poolVars, faultVars
  <2>2. BalancesInv'
    BY <1>22, AmountOK, OwnerOK
    DEF TakeShare, BalancesInv, FundingRowsInv, HandlersInv, HandlerKnows, Serving, On, Smaller,
        captainVars, poolVars
  <2>3. HandlersInv'
    <3> DEFINE job == [Free EXCEPT !.pc = "creditShare", !.c = c, !.amount = share]
    <3>1. job \in Serving /\ HandlerKnows(job)
      BY <1>22, AmountOK, OwnerOK, <2>1, <2>2
      DEF TakeShare, Free, Serving, Stages, HandlerKnows, Smaller, Moves, FundingRowsInv,
          BalancesInv, CaptainRequests, AllRequests
    <3>2. serving' = [serving EXCEPT ![h] = job]
      BY <1>22 DEF TakeShare, Serve
    <3> HIDE DEF job
    <3> QED
      BY <3>1, <3>2, SetHandler
  <2>4. FaultsInv'
    BY <1>22 DEF TakeShare, FaultsInv, faultVars
  <2> QED
    BY <2>1, <2>2, <2>3, <2>4 DEF FundingInv
<1>23. ASSUME NEW share \in Shares, FundPool(share)
       PROVE  FundingInv'
  <2>1. FundingRowsInv'
    BY <1>23
    DEF FundPool, FundingRowsInv, requestVars, captainVars, poolVars, faultVars
  <2>2. BalancesInv'
    BY <1>23, AmountOK, OwnerOK
    DEF FundPool, BalancesInv, FundingRowsInv, HandlersInv, HandlerKnows, Serving, On, Smaller,
        captainVars, poolVars
  <2>3. HandlersInv'
    BY <1>23 DEF FundPool, HandlersInv, HandlerKnows
  <2>4. FaultsInv'
    BY <1>23 DEF FundPool, FaultsInv, faultVars
  <2> QED
    BY <2>1, <2>2, <2>3, <2>4 DEF FundingInv
<1>24. ASSUME NEW c \in Captains, NEW amount \in Claims,
             TakeForClaim(c, amount)
      PROVE  FundingInv'
  <2>1. FundingRowsInv'
    BY <1>24
    DEF TakeForClaim, FundingRowsInv, requestVars, captainVars, poolVars, faultVars
  <2>2. BalancesInv'
    BY <1>24, AmountOK, OwnerOK
    DEF TakeForClaim, BalancesInv, FundingRowsInv, HandlersInv, HandlerKnows, Serving, On, Smaller,
        captainVars, poolVars
  <2>3. HandlersInv'
    BY <1>24 DEF TakeForClaim, HandlersInv, HandlerKnows
  <2>4. FaultsInv'
    BY <1>24 DEF TakeForClaim, FaultsInv, faultVars
  <2> QED
    BY <2>1, <2>2, <2>3, <2>4 DEF FundingInv
<1>25. ASSUME NEW c \in Captains, NEW amount \in Claims,
             ReturnFromClaim(c, amount)
      PROVE  FundingInv'
  <2>1. FundingRowsInv'
    BY <1>25
    DEF ReturnFromClaim, FundingRowsInv, requestVars, captainVars, poolVars,
        faultVars
  <2>2. BalancesInv'
    BY <1>25, AmountOK, OwnerOK
    DEF ReturnFromClaim, BalancesInv, FundingRowsInv, HandlersInv, HandlerKnows, Serving, On,
        Smaller, captainVars, poolVars
  <2>3. HandlersInv'
    BY <1>25 DEF ReturnFromClaim, HandlersInv, HandlerKnows
  <2>4. FaultsInv'
    BY <1>25 DEF ReturnFromClaim, FaultsInv, faultVars
  <2> QED
    BY <2>1, <2>2, <2>3, <2>4 DEF FundingInv
<1>26. ASSUME NEW c \in Captains, NEW ceiling \in Ceilings \cup {None},
             SetApprovedLimit(c, ceiling)
      PROVE  FundingInv'
  <2>1. FundingRowsInv'
    BY <1>26
    DEF SetApprovedLimit, SetCeiling, FundingRowsInv, requestVars, captainVars,
        poolVars, faultVars
  <2>2. BalancesInv'
    BY <1>26, AmountOK, OwnerOK
    DEF SetApprovedLimit, SetCeiling, BalancesInv, FundingRowsInv, HandlersInv, HandlerKnows,
        Serving, On, Smaller, captainVars, poolVars
  <2>3. HandlersInv'
    BY <1>26 DEF SetApprovedLimit, SetCeiling, HandlersInv, HandlerKnows
  <2>4. FaultsInv'
    BY <1>26 DEF SetApprovedLimit, SetCeiling, FaultsInv, faultVars
  <2> QED
    BY <2>1, <2>2, <2>3, <2>4 DEF FundingInv
<1>27. ASSUME NEW c \in Captains, NEW grant \in Grants,
             RaiseCeiling(c, grant)
      PROVE  FundingInv'
  <2>1. FundingRowsInv'
    BY <1>27
    DEF RaiseCeiling, SetCeiling, CeilingOf, FundingRowsInv, requestVars,
        captainVars, poolVars, faultVars
  <2>2. BalancesInv'
    BY <1>27, AmountOK, OwnerOK
    DEF RaiseCeiling, SetCeiling, CeilingOf, BalancesInv, FundingRowsInv, HandlersInv,
        HandlerKnows, Serving, On, Smaller, captainVars, poolVars
  <2>3. HandlersInv'
    BY <1>27 DEF RaiseCeiling, SetCeiling, CeilingOf, HandlersInv, HandlerKnows
  <2>4. FaultsInv'
    BY <1>27 DEF RaiseCeiling, SetCeiling, CeilingOf, FaultsInv, faultVars
  <2> QED
    BY <2>1, <2>2, <2>3, <2>4 DEF FundingInv
<1>28. ASSUME ProcessStops
      PROVE  FundingInv'
  <2>1. FundingRowsInv'
    BY <1>28 DEF ProcessStops, FundingRowsInv, requestVars, captainVars, poolVars, faultVars
  <2>2. BalancesInv'
    BY <1>28 DEF ProcessStops, BalancesInv, requestVars, captainVars, poolVars, faultVars
  <2>3. HandlersInv'
    <3>1. Free \in Serving /\ HandlerKnows(Free)
      BY DEF Free, Serving, Stages, HandlerKnows
    <3>2. \A h \in Handlers : serving'[h] = Free
      BY <1>28 DEF ProcessStops
    <3> QED
      BY <1>28, <3>1, <3>2 DEF ProcessStops, HandlersInv, HandlerKnows
  <2>4. FaultsInv'
    BY <1>28 DEF ProcessStops, FaultsInv, faultVars
  <2> QED
    BY <2>1, <2>2, <2>3, <2>4 DEF FundingInv
<1>29. ASSUME UNCHANGED fundingVars PROVE FundingInv'
  BY <1>29 DEF fundingVars, requestVars, captainVars, poolVars, faultVars, FundingInv, FundingRowsInv,
      BalancesInv, HandlersInv, HandlerKnows, FaultsInv
<1> QED
  BY <1>1, <1>2, <1>3, <1>4, <1>5, <1>6, <1>7, <1>8, <1>9, <1>10, <1>11,
     <1>12, <1>13, <1>14, <1>15, <1>16, <1>17, <1>18, <1>19, <1>20, <1>21, <1>22,
     <1>23, <1>24, <1>25, <1>26, <1>27, <1>28, <1>29 DEF FundingNext, ServeStep, Decide

\* Every variable has its type, whatever overlaps, fails or stops.
THEOREM FundingTypeCorrect == FundingSpec => []FundingTypeOK
<1>1. FundingInv => FundingTypeOK
  BY DEF FundingInv, FundingRowsInv, BalancesInv, HandlersInv, FaultsInv, FundingTypeOK
<1> QED
  BY <1>1, FundingStarts, FundingStep, PTL DEF FundingSpec

\* The fee a captain has kept is in their balance, so that their own capital is
\* never negative: however redemptions, refusals, claims and commissions of one
\* captain interleave, and wherever the process stops.
THEOREM FeeIsInTheBalance == FundingSpec => []CommissionIsCovered
<1>1. FundingInv => CommissionIsCovered
  BY DEF FundingInv, BalancesInv, CommissionIsCovered
<1> QED
  BY <1>1, FundingStarts, FundingStep, PTL DEF FundingSpec

-----------------------------------------------------------------------------
(* The books *)

ConfirmedBy == [r \in AllRequests |-> Confirmed(r)]
AskedBy == [r \in AllRequests |-> AskedBack(r)]
HandOf == [h \in Handlers |-> OnHand(h)]

Receipts == Total(ConfirmedBy, AllRequests)
Asked == Total(AskedBy, AllRequests)
Hands == Total(HandOf, Handlers)
PartyDmcs == Total(partyBalance, Parties)
Dmcs == Total(dmc, Captains)
Securities == Total(collateral, Captains)
Workings == Total(working, Captains)

TotalsAreInts ==
  /\ Receipts \in Int /\ Asked \in Int /\ Hands \in Nat
  /\ PartyDmcs \in Int /\ Dmcs \in Int /\ Securities \in Int /\ Workings \in Int
  /\ poolBalance \in Int /\ funded \in Int

\* What there is beyond what came in.
Surplus ==
  PartyDmcs + poolBalance + Dmcs + Securities + Workings + Asked + Hands - (funded + Receipts)

LEMMA SurplusIs ==
  ASSUME TotalsAreInts
  PROVE  Surplus \in Int /\ WhereItIs \in Int /\ CameIn = WhereItIs - Surplus
<1>1. CameIn = funded + Receipts
  BY DEF CameIn, Receipts, ConfirmedBy
<1>2. WhereItIs = Balances + Asked + Hands
  BY DEF WhereItIs, Asked, Hands, AskedBy, HandOf
<1>3. Balances = PartyDmcs + poolBalance + Dmcs + Securities + Workings
  BY DEF Balances, PartyDmcs, Dmcs, Securities, Workings
<1>4. Balances \in Int
  BY <1>3 DEF TotalsAreInts
<1>5. PICK b \in Int, a \in Int, h \in Int, f \in Int, i \in Int :
        b = Balances /\ a = Asked /\ h = Hands /\ f = funded /\ i = Receipts
  BY <1>4 DEF TotalsAreInts
<1>6. Surplus = b + a + h - (f + i)
  BY <1>3, <1>5 DEF Surplus
<1> QED
  BY <1>1, <1>2, <1>5, <1>6

LEMMA InHandIsNat ==
  ASSUME HandlersInv
  PROVE  \A h \in Handlers : OnHand(h) \in Nat
<1> SUFFICES ASSUME NEW h \in Handlers
             PROVE  OnHand(h) \in Nat
  OBVIOUS
<1>1. serving[h].amount \in Nat
  BY DEF HandlersInv, Serving
<1>2. serving[h].pc = "credit" => Amount[serving[h].r] \in Nat
  BY AmountOK DEF HandlersInv, HandlerKnows
<1> QED
  BY <1>1, <1>2 DEF OnHand

LEMMA InHandIsNatNext ==
  ASSUME HandlersInv'
  PROVE  \A h \in Handlers : OnHand(h)' \in Nat
<1>1. (\A h \in Handlers : OnHand(h) \in Nat)'
  BY InHandIsNat, PTL
<1> QED
  BY <1>1

LEMMA TotalsType == FundingInv => TotalsAreInts
<1> SUFFICES ASSUME FundingInv
             PROVE  TotalsAreInts
  OBVIOUS
<1>1. \A r \in AllRequests : ConfirmedBy[r] \in Int /\ AskedBy[r] \in Int
  BY AmountOK DEF ConfirmedBy, AskedBy, Confirmed, AskedBack
<1>2. \A h \in Handlers : HandOf[h] \in Nat
  BY InHandIsNat DEF HandOf, FundingInv
<1>3. Receipts \in Int /\ Asked \in Int
  BY <1>1, FundingFiniteAssumption, TotalInt DEF Receipts, Asked
<1>4. Hands \in Nat
  BY <1>2, FundingFiniteAssumption, TotalNat DEF Hands
<1>5. /\ \A c \in Captains : dmc[c] \in Int /\ collateral[c] \in Int /\ working[c] \in Int
      /\ \A p \in Parties : partyBalance[p] \in Int
  BY DEF FundingInv, BalancesInv
<1>6. Dmcs \in Int /\ Securities \in Int /\ Workings \in Int
  BY <1>5, FundingFiniteAssumption, TotalInt DEF Dmcs, Securities, Workings
<1>7. PartyDmcs \in Int
  BY <1>5, FundingFiniteAssumption, TotalInt DEF PartyDmcs
<1> QED
  BY <1>3, <1>4, <1>6, <1>7 DEF TotalsAreInts, FundingInv, BalancesInv

LEMMA PartyMoves ==
  ASSUME BalancesInv, NEW p \in Parties, NEW d \in Int, partyBalance' = [partyBalance EXCEPT ![p] = @ + d]
  PROVE  PartyDmcs' = PartyDmcs + d
<1>1. IsFiniteSet(Parties) /\ partyBalance \in [Parties -> Nat]
  BY FundingFiniteAssumption DEF BalancesInv
<1>2. partyBalance \in [Parties -> Int]
  BY <1>1
<1>3. Total([partyBalance EXCEPT ![p] = @ + d], Parties) = Total(partyBalance, Parties) + d
  <2> HIDE FundingAssumption
  <2> QED
    BY <1>1, <1>2, TotalPaidIn
<1> QED
  BY <1>3 DEF PartyDmcs

LEMMA DmcMoves ==
  ASSUME BalancesInv, NEW c \in Captains, NEW d \in Int, dmc' = [dmc EXCEPT ![c] = @ + d]
  PROVE  Dmcs' = Dmcs + d
<1>1. IsFiniteSet(Captains) /\ dmc \in [Captains -> Nat]
  BY FundingFiniteAssumption DEF BalancesInv
<1>2. dmc \in [Captains -> Int]
  BY <1>1
<1>3. Total([dmc EXCEPT ![c] = @ + d], Captains) = Total(dmc, Captains) + d
  <2> HIDE FundingAssumption
  <2> QED
    BY <1>1, <1>2, TotalPaidIn
<1> QED
  BY <1>3 DEF Dmcs

LEMMA SecurityMoves ==
  ASSUME BalancesInv, NEW c \in Captains, NEW d \in Int, collateral' = [collateral EXCEPT ![c] = @ + d]
  PROVE  Securities' = Securities + d
<1>1. IsFiniteSet(Captains) /\ collateral \in [Captains -> Nat]
  BY FundingFiniteAssumption DEF BalancesInv
<1>2. collateral \in [Captains -> Int]
  BY <1>1
<1>3. Total([collateral EXCEPT ![c] = @ + d], Captains) = Total(collateral, Captains) + d
  <2> HIDE FundingAssumption
  <2> QED
    BY <1>1, <1>2, TotalPaidIn
<1> QED
  BY <1>3 DEF Securities

LEMMA WorkingMoves ==
  ASSUME BalancesInv, NEW c \in Captains, NEW d \in Int, working' = [working EXCEPT ![c] = @ + d]
  PROVE  Workings' = Workings + d
<1>1. IsFiniteSet(Captains) /\ working \in [Captains -> Nat]
  BY FundingFiniteAssumption DEF BalancesInv
<1>2. working \in [Captains -> Int]
  BY <1>1
<1>3. Total([working EXCEPT ![c] = @ + d], Captains) = Total(working, Captains) + d
  <2> HIDE FundingAssumption
  <2> QED
    BY <1>1, <1>2, TotalPaidIn
<1> QED
  BY <1>3 DEF Workings

LEMMA DmcPays ==
  ASSUME BalancesInv, NEW c \in Captains, NEW a \in Int, NEW z \in Int, z = 0 - a,
         dmc' = [dmc EXCEPT ![c] = @ - a]
  PROVE  Dmcs' = Dmcs + z
<1>1. PICK i \in Nat : i = dmc[c]
  BY DEF BalancesInv
<1>2. i - a = i + z
  OBVIOUS
<1>3. dmc' = [dmc EXCEPT ![c] = @ + z]
  BY <1>1, <1>2
<1> QED
  BY <1>3, DmcMoves

LEMMA WorkingPays ==
  ASSUME BalancesInv, NEW c \in Captains, NEW a \in Int, NEW z \in Int, z = 0 - a,
         working' = [working EXCEPT ![c] = @ - a]
  PROVE  Workings' = Workings + z
<1>1. PICK i \in Nat : i = working[c]
  BY DEF BalancesInv
<1>2. i - a = i + z
  OBVIOUS
<1>3. working' = [working EXCEPT ![c] = @ + z]
  BY <1>1, <1>2
<1> QED
  BY <1>3, WorkingMoves

LEMMA RowsMove ==
  ASSUME NEW r \in AllRequests, \A q \in AllRequests \ {r} : status'[q] = status[q]
  PROVE  /\ Receipts' = Receipts + Confirmed(r)' - Confirmed(r)
         /\ Asked' = Asked + AskedBack(r)' - AskedBack(r)
<1> DEFINE f == [q \in AllRequests |-> Confirmed(q)']
           g == [q \in AllRequests |-> AskedBack(q)']
<1>1. f = ConfirmedBy' /\ g = AskedBy'
  BY DEF ConfirmedBy, AskedBy
<1>2. \A q \in AllRequests \ {r} : f[q] = ConfirmedBy[q] /\ g[q] = AskedBy[q]
  BY DEF ConfirmedBy, AskedBy, Confirmed, AskedBack, Redeemed
<1>3. \A q \in AllRequests : /\ ConfirmedBy[q] \in Int /\ f[q] \in Int
                             /\ AskedBy[q] \in Int /\ g[q] \in Int
  BY AmountOK DEF ConfirmedBy, AskedBy, Confirmed, AskedBack
<1>4. IsFiniteSet(AllRequests)
  BY FundingFiniteAssumption
<1>5. /\ f[r] = Confirmed(r)' /\ ConfirmedBy[r] = Confirmed(r)
      /\ g[r] = AskedBack(r)' /\ AskedBy[r] = AskedBack(r)
  BY DEF ConfirmedBy, AskedBy
<1> HIDE DEF f, g
<1>6. Total(f, AllRequests) = Total(ConfirmedBy, AllRequests) + f[r] - ConfirmedBy[r]
  BY <1>2, <1>3, <1>4, TotalOneChanges
<1>7. Total(g, AllRequests) = Total(AskedBy, AllRequests) + g[r] - AskedBy[r]
  BY <1>2, <1>3, <1>4, TotalOneChanges
<1> QED
  BY <1>1, <1>5, <1>6, <1>7 DEF Receipts, Asked

\* A step of a request that neither confirms money nor asks for any back.
LEMMA QuietRow ==
  ASSUME FundingInv, NEW r \in AllRequests, \A q \in AllRequests \ {r} : status'[q] = status[q],
         status'[r] = "APPROVED" <=> status[r] = "APPROVED", Redeemed(r)' <=> Redeemed(r)
  PROVE  Receipts' = Receipts /\ Asked' = Asked
<1>1. PICK i \in Int, a \in Int : i = Receipts /\ a = Asked
  BY TotalsType DEF TotalsAreInts
<1>2. PICK x \in Int, y \in Int : x = Confirmed(r) /\ y = AskedBack(r)
  BY AmountOK DEF Confirmed, AskedBack
<1>3. Confirmed(r)' = x /\ AskedBack(r)' = y
  BY <1>2 DEF Confirmed, AskedBack
<1>4. Receipts' = i + x - x /\ Asked' = a + y - y
  BY <1>1, <1>2, <1>3, RowsMove
<1> QED
  BY <1>1, <1>4

LEMMA RowsStand ==
  ASSUME status' = status
  PROVE  Receipts' = Receipts /\ Asked' = Asked
BY DEF Receipts, Asked, ConfirmedBy, AskedBy, Confirmed, AskedBack, Redeemed

LEMMA HandMoves ==
  ASSUME HandlersInv, HandlersInv', NEW h \in Handlers, \A g \in Handlers \ {h} : serving'[g] = serving[g]
  PROVE  Hands' = Hands + OnHand(h)' - OnHand(h)
<1> DEFINE f == [g \in Handlers |-> OnHand(g)']
<1>1. f = HandOf'
  BY DEF HandOf
<1>2. \A g \in Handlers \ {h} : f[g] = HandOf[g]
  BY DEF HandOf, OnHand
<1>3. \A g \in Handlers : HandOf[g] \in Int /\ f[g] \in Int
  BY InHandIsNat, InHandIsNatNext DEF HandOf
<1>4. IsFiniteSet(Handlers)
  BY FundingFiniteAssumption
<1>5. f[h] = OnHand(h)' /\ HandOf[h] = OnHand(h)
  BY DEF HandOf
<1> HIDE DEF f
<1>6. Total(f, Handlers) = Total(HandOf, Handlers) + f[h] - HandOf[h]
  BY <1>2, <1>3, <1>4, TotalOneChanges
<1> QED
  BY <1>1, <1>5, <1>6 DEF Hands

LEMMA HandsStand ==
  ASSUME serving' = serving
  PROVE  Hands' = Hands
BY DEF Hands, HandOf, OnHand

\* A step moves each total by so much.
Move(p, o, d, s, w, a, h, f, i) ==
  /\ PartyDmcs' = PartyDmcs + p /\ poolBalance' = poolBalance + o /\ Dmcs' = Dmcs + d
  /\ Securities' = Securities + s /\ Workings' = Workings + w
  /\ Asked' = Asked + a /\ Hands' = Hands + h
  /\ funded' = funded + f /\ Receipts' = Receipts + i

\* What it moves into a balance comes in or out of another.
Even(p, o, d, s, w, a, h, f, i) == p + o + d + s + w + a + h = f + i

Balancing(p, o, d, s, w, a, h, f, i) ==
  /\ p \in Int /\ o \in Int /\ d \in Int /\ s \in Int /\ w \in Int
  /\ a \in Int /\ h \in Int /\ f \in Int /\ i \in Int
  /\ Move(p, o, d, s, w, a, h, f, i) /\ Even(p, o, d, s, w, a, h, f, i)

LEMMA Balanced ==
  ASSUME FundingInv, NEW p, NEW o, NEW d, NEW s, NEW w, NEW a, NEW h, NEW f, NEW i,
         Balancing(p, o, d, s, w, a, h, f, i)
  PROVE  Surplus' = Surplus
<1>0. /\ p \in Int /\ o \in Int /\ d \in Int /\ s \in Int /\ w \in Int
      /\ a \in Int /\ h \in Int /\ f \in Int /\ i \in Int
      /\ Move(p, o, d, s, w, a, h, f, i) /\ Even(p, o, d, s, w, a, h, f, i)
  BY DEF Balancing
<1>1. PICK tp \in Int, to \in Int, td \in Int, ts \in Int, tw \in Int, ta \in Int :
        /\ tp = PartyDmcs /\ to = poolBalance /\ td = Dmcs /\ ts = Securities /\ tw = Workings
        /\ ta = Asked
  BY TotalsType DEF TotalsAreInts
<1>2. PICK th \in Int, tf \in Int, ti \in Int : th = Hands /\ tf = funded /\ ti = Receipts
  BY TotalsType DEF TotalsAreInts
<1>3. Surplus = tp + to + td + ts + tw + ta + th - (tf + ti)
  BY <1>1, <1>2 DEF Surplus
<1>4. Surplus' = (tp + p) + (to + o) + (td + d) + (ts + s) + (tw + w) + (ta + a) + (th + h)
                   - ((tf + f) + (ti + i))
  BY <1>0, <1>1, <1>2 DEF Surplus, Move
<1>5. p + o + d + s + w + a + h = f + i
  BY <1>0 DEF Even
<1> QED
  BY <1>0, <1>3, <1>4, <1>5

LEMMA BooksStep ==
  ASSUME FundingInv, FundingInv', [FundingNext]_fundingVars, refused' = refused, stops' = stops
  PROVE  Surplus' = Surplus
<1>0. /\ FundingRowsInv /\ BalancesInv /\ HandlersInv /\ FaultsInv
      /\ FundingRowsInv' /\ BalancesInv' /\ HandlersInv' /\ FaultsInv'
  BY DEF FundingInv
<1> USE <1>0
<1>1. ASSUME NEW h \in Handlers, InsertRow(h)
      PROVE  Surplus' = Surplus
  <2>1. PICK r \in AllRequests : r = serving[h].r
    BY <1>1 DEF InsertRow, On, HandlersInv, HandlerKnows
  <2>2. \A q \in AllRequests \ {r} : status'[q] = status[q]
    BY <1>1, <2>1 DEF InsertRow, Moves, FundingRowsInv
  <2>3. (status'[r] = "APPROVED" <=> status[r] = "APPROVED") /\ (Redeemed(r)' <=> Redeemed(r))
    BY <1>1, <2>1
    DEF InsertRow, Moves, FundingRowsInv, Redeemed, HandlersInv, HandlerKnows, On,
        AllRequests, CaptainRequests
  <2>4. Receipts' = Receipts /\ Asked' = Asked
    BY <2>1, <2>2, <2>3, QuietRow
  <2>5. \A g \in Handlers \ {h} : serving'[g] = serving[g]
    BY <1>1 DEF InsertRow, HandlersInv, Serve, End, GoOn
  <2>6. OnHand(h) = 0 /\ OnHand(h)' = 0
    BY <1>1, <2>1
    DEF InsertRow, OnHand, HandlersInv, Serving, On, Serve, End, GoOn, Free
  <2>7. Hands' = Hands + 0 - 0
    BY <2>5, <2>6, HandMoves
  <2>8. Hands' = Hands + 0
    BY <2>1, <2>7, TotalsType DEF TotalsAreInts
  <2>9. UNCHANGED <<partyBalance, dmc, collateral, working>>
    BY <1>1 DEF InsertRow, captainVars
  <2>10. PartyDmcs' = PartyDmcs /\ Dmcs' = Dmcs /\ Securities' = Securities /\ Workings' = Workings
    BY <2>9 DEF PartyDmcs, Dmcs, Securities, Workings
  <2>11. poolBalance' = poolBalance /\ funded' = funded
    BY <1>1, <2>1 DEF InsertRow, poolVars, BalancesInv
  <2>12. Move(0, 0, 0, 0, 0, 0, 0, 0, 0)
    BY <2>1, <2>4, <2>8, <2>10, <2>11, TotalsType DEF Move, TotalsAreInts
  <2>13. Even(0, 0, 0, 0, 0, 0, 0, 0, 0)
    BY <2>1 DEF Even
  <2>14. Balancing(0, 0, 0, 0, 0, 0, 0, 0, 0)
    BY <2>12, <2>13 DEF Balancing
  <2> QED
    BY <2>14, Balanced
<1>2. ASSUME NEW h \in Handlers, CreditTopUp(h)
      PROVE  Surplus' = Surplus
  <2>1. PICK r \in TopUps, a \in Int : r = serving[h].r /\ a = Amount[r] /\ r \in AllRequests
    BY <1>2, AmountOK, OwnerOK DEF CreditTopUp, CaptainRequests
  <2>2. PICK p \in Parties : p = Owner[r]
    BY <2>1, OwnerOK DEF CaptainRequests
  <2>3. PICK z \in Int : z = 0 - a
    OBVIOUS
  <2>4. partyBalance' = [partyBalance EXCEPT ![p] = @ + a]
    BY <1>2, <2>1, <2>2, <2>3 DEF CreditTopUp
  <2>5. PartyDmcs' = PartyDmcs + a
    BY <2>1, <2>2, <2>3, <2>4, PartyMoves
  <2>6. status' = status
    BY <1>2 DEF CreditTopUp, requestVars
  <2>7. Receipts' = Receipts /\ Asked' = Asked
    BY <2>6, RowsStand
  <2>8. \A g \in Handlers \ {h} : serving'[g] = serving[g]
    BY <1>2 DEF CreditTopUp, HandlersInv, Serve, End, GoOn
  <2>9. OnHand(h) = a /\ OnHand(h)' = 0
    BY <1>2, <2>1, <2>2, <2>3
    DEF CreditTopUp, OnHand, HandlersInv, Serving, On, Serve, End, GoOn, Free
  <2>10. Hands' = Hands + 0 - a
    BY <2>8, <2>9, HandMoves
  <2>11. Hands' = Hands + z
    BY <2>1, <2>2, <2>3, <2>10, TotalsType DEF TotalsAreInts
  <2>12. UNCHANGED <<dmc, collateral, working>>
    BY <1>2 DEF CreditTopUp, captainVars
  <2>13. Dmcs' = Dmcs /\ Securities' = Securities /\ Workings' = Workings
    BY <2>12 DEF Dmcs, Securities, Workings
  <2>14. poolBalance' = poolBalance /\ funded' = funded
    BY <1>2, <2>1, <2>2, <2>3 DEF CreditTopUp, poolVars, BalancesInv
  <2>15. Move(a, 0, 0, 0, 0, 0, z, 0, 0)
    BY <2>1, <2>2, <2>3, <2>5, <2>7, <2>11, <2>13, <2>14, TotalsType
    DEF Move, TotalsAreInts
  <2>16. Even(a, 0, 0, 0, 0, 0, z, 0, 0)
    BY <2>1, <2>2, <2>3 DEF Even
  <2>17. a \in Int /\ z \in Int
    BY <2>1, <2>2, <2>3
  <2>18. Balancing(a, 0, 0, 0, 0, 0, z, 0, 0)
    BY <2>17, <2>15, <2>16 DEF Balancing
  <2> QED
    BY <2>18, Balanced
<1>3. ASSUME NEW h \in Handlers, CreditDeposit(h)
      PROVE  Surplus' = Surplus
  <2>1. PICK r \in Deposits, a \in Int : r = serving[h].r /\ a = Amount[r] /\ r \in AllRequests
    BY <1>3, AmountOK, OwnerOK DEF CreditDeposit, CaptainRequests
  <2>2. PICK c \in Captains : c = Owner[r]
    BY <2>1, OwnerOK DEF CaptainRequests
  <2>3. PICK l \in Int : l = locked[r]
    BY <2>1 DEF FundingRowsInv
  <2>4. dmc' = [dmc EXCEPT ![c] = @ + a - l]
    BY <1>3, <2>1, <2>2, <2>3 DEF CreditDeposit
  <2>5. PICK m \in Int : m = a - l
    OBVIOUS
  <2>6. PICK i \in Int : i = dmc[c]
    BY <2>2 DEF BalancesInv
  <2>7. PICK z \in Int : z = 0 - a
    OBVIOUS
  <2>8. dmc' = [dmc EXCEPT ![c] = @ + m]
    BY <2>4, <2>3, <2>6, <2>5
  <2>9. Dmcs' = Dmcs + m
    BY <2>1, <2>2, <2>3, <2>4, <2>5, <2>6, <2>7, <2>8, DmcMoves
  <2>10. collateral' = [collateral EXCEPT ![c] = @ + l]
    BY <1>3, <2>1, <2>2, <2>3, <2>4, <2>5, <2>6, <2>7 DEF CreditDeposit
  <2>11. Securities' = Securities + l
    BY <2>1, <2>2, <2>3, <2>4, <2>5, <2>6, <2>7, <2>10, SecurityMoves
  <2>12. status' = status
    BY <1>3 DEF CreditDeposit, requestVars
  <2>13. Receipts' = Receipts /\ Asked' = Asked
    BY <2>12, RowsStand
  <2>14. \A g \in Handlers \ {h} : serving'[g] = serving[g]
    BY <1>3 DEF CreditDeposit, HandlersInv, Serve, End, GoOn
  <2>15. OnHand(h) = a /\ OnHand(h)' = 0
    BY <1>3, <2>1, <2>2, <2>3, <2>4, <2>5, <2>6, <2>7
    DEF CreditDeposit, OnHand, HandlersInv, Serving, On, Serve, End, GoOn, Free
  <2>16. Hands' = Hands + 0 - a
    BY <2>14, <2>15, HandMoves
  <2>17. Hands' = Hands + z
    BY <2>1, <2>2, <2>3, <2>4, <2>5, <2>6, <2>7, <2>16, TotalsType
    DEF TotalsAreInts
  <2>18. UNCHANGED <<partyBalance, working>>
    BY <1>3 DEF CreditDeposit, captainVars
  <2>19. PartyDmcs' = PartyDmcs /\ Workings' = Workings
    BY <2>18 DEF PartyDmcs, Workings
  <2>20. poolBalance' = poolBalance /\ funded' = funded
    BY <1>3, <2>1, <2>2, <2>3, <2>4, <2>5, <2>6, <2>7
    DEF CreditDeposit, poolVars, BalancesInv
  <2>21. Move(0, 0, m, l, 0, 0, z, 0, 0)
    BY <2>1, <2>2, <2>3, <2>4, <2>5, <2>6, <2>7, <2>9, <2>11, <2>13, <2>17,
       <2>19, <2>20, TotalsType
    DEF Move, TotalsAreInts
  <2>22. Even(0, 0, m, l, 0, 0, z, 0, 0)
    BY <2>1, <2>2, <2>3, <2>4, <2>5, <2>6, <2>7 DEF Even
  <2>23. l \in Int /\ m \in Int /\ z \in Int
    BY <2>1, <2>2, <2>3, <2>4, <2>5, <2>6, <2>7
  <2>24. Balancing(0, 0, m, l, 0, 0, z, 0, 0)
    BY <2>23, <2>21, <2>22 DEF Balancing
  <2> QED
    BY <2>24, Balanced
<1>4. ASSUME NEW h \in Handlers, CreditLimitPurchase(h)
      PROVE  Surplus' = Surplus
  <2>1. PICK r \in LimitPurchases, a \in Int : r = serving[h].r /\ a = Amount[r] /\ r \in AllRequests
    BY <1>4, AmountOK, OwnerOK DEF CreditLimitPurchase, CaptainRequests
  <2>2. PICK c \in Captains : c = Owner[r]
    BY <2>1, OwnerOK DEF CaptainRequests
  <2>3. PICK z \in Int : z = 0 - a
    OBVIOUS
  <2>4. dmc' = [dmc EXCEPT ![c] = @ + a]
    BY <1>4, <2>1, <2>2, <2>3 DEF CreditLimitPurchase, CeilingOf
  <2>5. Dmcs' = Dmcs + a
    BY <2>1, <2>2, <2>3, <2>4, DmcMoves
  <2>6. status' = status
    BY <1>4 DEF CreditLimitPurchase, CeilingOf, requestVars
  <2>7. Receipts' = Receipts /\ Asked' = Asked
    BY <2>6, RowsStand
  <2>8. \A g \in Handlers \ {h} : serving'[g] = serving[g]
    BY <1>4 DEF CreditLimitPurchase, CeilingOf, HandlersInv, Serve, End, GoOn
  <2>9. OnHand(h) = a /\ OnHand(h)' = 0
    BY <1>4, <2>1, <2>2, <2>3
    DEF CreditLimitPurchase, CeilingOf, OnHand, HandlersInv, Serving, On, Serve, End,
        GoOn, Free
  <2>10. Hands' = Hands + 0 - a
    BY <2>8, <2>9, HandMoves
  <2>11. Hands' = Hands + z
    BY <2>1, <2>2, <2>3, <2>10, TotalsType DEF TotalsAreInts
  <2>12. UNCHANGED <<partyBalance, collateral, working>>
    BY <1>4 DEF CreditLimitPurchase, CeilingOf, captainVars
  <2>13. PartyDmcs' = PartyDmcs /\ Securities' = Securities /\ Workings' = Workings
    BY <2>12 DEF PartyDmcs, Securities, Workings
  <2>14. poolBalance' = poolBalance /\ funded' = funded
    BY <1>4, <2>1, <2>2, <2>3
    DEF CreditLimitPurchase, CeilingOf, poolVars, BalancesInv
  <2>15. Move(0, 0, a, 0, 0, 0, z, 0, 0)
    BY <2>1, <2>2, <2>3, <2>5, <2>7, <2>11, <2>13, <2>14, TotalsType
    DEF Move, TotalsAreInts
  <2>16. Even(0, 0, a, 0, 0, 0, z, 0, 0)
    BY <2>1, <2>2, <2>3 DEF Even
  <2>17. a \in Int /\ z \in Int
    BY <2>1, <2>2, <2>3
  <2>18. Balancing(0, 0, a, 0, 0, 0, z, 0, 0)
    BY <2>17, <2>15, <2>16 DEF Balancing
  <2> QED
    BY <2>18, Balanced
<1>5. ASSUME NEW h \in Handlers, InsertRedemption(h)
      PROVE  Surplus' = Surplus
  <2>1. PICK r \in Redemptions, a \in Int :
          r = serving[h].r /\ a = Amount[r] /\ a = serving[h].amount /\ r \in AllRequests
    BY <1>5, AmountOK, OwnerOK
    DEF InsertRedemption, On, HandlersInv, HandlerKnows, CaptainRequests
  <2>2. PICK z \in Int : z = 0 - a
    OBVIOUS
  <2>3. \A q \in AllRequests \ {r} : status'[q] = status[q]
    BY <1>5, <2>1, <2>2 DEF InsertRedemption, Moves, FundingRowsInv
  <2>4. /\ Confirmed(r) = 0 /\ Confirmed(r)' = 0
        /\ AskedBack(r) = 0 /\ AskedBack(r)' = a
    BY <1>5, <2>1, <2>2
    DEF InsertRedemption, Moves, FundingRowsInv, Confirmed, AskedBack, Redeemed,
        AllRequests, CaptainRequests
  <2>5. Receipts' = Receipts + 0 - 0 /\ Asked' = Asked + a - 0
    BY <2>1, <2>2, <2>3, <2>4, RowsMove
  <2>6. Receipts' = Receipts + 0 /\ Asked' = Asked + a
    BY <2>1, <2>2, <2>5, TotalsType DEF TotalsAreInts
  <2>7. \A g \in Handlers \ {h} : serving'[g] = serving[g]
    BY <1>5 DEF InsertRedemption, HandlersInv, Serve, End, GoOn
  <2>8. OnHand(h) = a /\ OnHand(h)' = 0
    BY <1>5, <2>1, <2>2
    DEF InsertRedemption, OnHand, HandlersInv, Serving, On, Serve, End, GoOn, Free
  <2>9. Hands' = Hands + 0 - a
    BY <2>7, <2>8, HandMoves
  <2>10. Hands' = Hands + z
    BY <2>1, <2>2, <2>9, TotalsType DEF TotalsAreInts
  <2>11. UNCHANGED <<partyBalance, dmc, collateral, working>>
    BY <1>5 DEF InsertRedemption, captainVars
  <2>12. PartyDmcs' = PartyDmcs /\ Dmcs' = Dmcs /\ Securities' = Securities /\ Workings' = Workings
    BY <2>11 DEF PartyDmcs, Dmcs, Securities, Workings
  <2>13. poolBalance' = poolBalance /\ funded' = funded
    BY <1>5, <2>1, <2>2 DEF InsertRedemption, poolVars, BalancesInv
  <2>14. Move(0, 0, 0, 0, 0, a, z, 0, 0)
    BY <2>1, <2>2, <2>6, <2>10, <2>12, <2>13, TotalsType DEF Move, TotalsAreInts
  <2>15. Even(0, 0, 0, 0, 0, a, z, 0, 0)
    BY <2>1, <2>2 DEF Even
  <2>16. a \in Int /\ z \in Int
    BY <2>1, <2>2
  <2>17. Balancing(0, 0, 0, 0, 0, a, z, 0, 0)
    BY <2>16, <2>14, <2>15 DEF Balancing
  <2> QED
    BY <2>17, Balanced
<1>6. ASSUME NEW h \in Handlers, GiveBack(h)
      PROVE  Surplus' = Surplus
  <2>1. PICK c \in Captains, a \in Int : c = serving[h].c /\ a = serving[h].amount
    BY <1>6 DEF GiveBack, On, HandlersInv, HandlerKnows, Serving
  <2>2. PICK z \in Int : z = 0 - a
    OBVIOUS
  <2>3. dmc' = [dmc EXCEPT ![c] = @ + a]
    BY <1>6, <2>1, <2>2 DEF GiveBack
  <2>4. Dmcs' = Dmcs + a
    BY <2>1, <2>2, <2>3, DmcMoves
  <2>5. status' = status
    BY <1>6 DEF GiveBack, requestVars
  <2>6. Receipts' = Receipts /\ Asked' = Asked
    BY <2>5, RowsStand
  <2>7. \A g \in Handlers \ {h} : serving'[g] = serving[g]
    BY <1>6 DEF GiveBack, HandlersInv, Serve, End, GoOn
  <2>8. OnHand(h) = a /\ OnHand(h)' = 0
    BY <1>6, <2>1, <2>2
    DEF GiveBack, OnHand, HandlersInv, Serving, On, Serve, End, GoOn, Free
  <2>9. Hands' = Hands + 0 - a
    BY <2>7, <2>8, HandMoves
  <2>10. Hands' = Hands + z
    BY <2>1, <2>2, <2>9, TotalsType DEF TotalsAreInts
  <2>11. UNCHANGED <<partyBalance, collateral, working>>
    BY <1>6 DEF GiveBack, captainVars
  <2>12. PartyDmcs' = PartyDmcs /\ Securities' = Securities /\ Workings' = Workings
    BY <2>11 DEF PartyDmcs, Securities, Workings
  <2>13. poolBalance' = poolBalance /\ funded' = funded
    BY <1>6, <2>1, <2>2 DEF GiveBack, poolVars, BalancesInv
  <2>14. Move(0, 0, a, 0, 0, 0, z, 0, 0)
    BY <2>1, <2>2, <2>4, <2>6, <2>10, <2>12, <2>13, TotalsType
    DEF Move, TotalsAreInts
  <2>15. Even(0, 0, a, 0, 0, 0, z, 0, 0)
    BY <2>1, <2>2 DEF Even
  <2>16. a \in Int /\ z \in Int
    BY <2>1, <2>2
  <2>17. Balancing(0, 0, a, 0, 0, 0, z, 0, 0)
    BY <2>16, <2>14, <2>15 DEF Balancing
  <2> QED
    BY <2>17, Balanced
<1>7. ASSUME NEW h \in Handlers, CreditShare(h)
      PROVE  Surplus' = Surplus
  <2>1. PICK c \in Captains, a \in Int : c = serving[h].c /\ a = serving[h].amount
    BY <1>7 DEF CreditShare, On, HandlersInv, HandlerKnows, Serving
  <2>2. PICK z \in Int : z = 0 - a
    OBVIOUS
  <2>3. dmc' = [dmc EXCEPT ![c] = @ + a]
    BY <1>7, <2>1, <2>2 DEF CreditShare, CreditCaptain
  <2>4. Dmcs' = Dmcs + a
    BY <2>1, <2>2, <2>3, DmcMoves
  <2>5. status' = status
    BY <1>7 DEF CreditShare, CreditCaptain, requestVars
  <2>6. Receipts' = Receipts /\ Asked' = Asked
    BY <2>5, RowsStand
  <2>7. \A g \in Handlers \ {h} : serving'[g] = serving[g]
    BY <1>7 DEF CreditShare, CreditCaptain, HandlersInv, Serve, End, GoOn
  <2>8. OnHand(h) = a /\ OnHand(h)' = 0
    BY <1>7, <2>1, <2>2
    DEF CreditShare, CreditCaptain, OnHand, HandlersInv, Serving, On, Serve, End,
        GoOn, Free
  <2>9. Hands' = Hands + 0 - a
    BY <2>7, <2>8, HandMoves
  <2>10. Hands' = Hands + z
    BY <2>1, <2>2, <2>9, TotalsType DEF TotalsAreInts
  <2>11. UNCHANGED <<partyBalance, collateral, working>>
    BY <1>7 DEF CreditShare, CreditCaptain, captainVars
  <2>12. PartyDmcs' = PartyDmcs /\ Securities' = Securities /\ Workings' = Workings
    BY <2>11 DEF PartyDmcs, Securities, Workings
  <2>13. poolBalance' = poolBalance /\ funded' = funded
    BY <1>7, <2>1, <2>2 DEF CreditShare, CreditCaptain, poolVars, BalancesInv
  <2>14. Move(0, 0, a, 0, 0, 0, z, 0, 0)
    BY <2>1, <2>2, <2>4, <2>6, <2>10, <2>12, <2>13, TotalsType
    DEF Move, TotalsAreInts
  <2>15. Even(0, 0, a, 0, 0, 0, z, 0, 0)
    BY <2>1, <2>2 DEF Even
  <2>16. a \in Int /\ z \in Int
    BY <2>1, <2>2
  <2>17. Balancing(0, 0, a, 0, 0, 0, z, 0, 0)
    BY <2>16, <2>14, <2>15 DEF Balancing
  <2> QED
    BY <2>17, Balanced
<1>8. ASSUME NEW h \in Handlers, WriteEntry(h)
      PROVE  Surplus' = Surplus
  <2>1. status' = status
    BY <1>8 DEF WriteEntry, requestVars
  <2>2. Receipts' = Receipts /\ Asked' = Asked
    BY <2>1, RowsStand
  <2>3. \A g \in Handlers \ {h} : serving'[g] = serving[g]
    BY <1>8 DEF WriteEntry, HandlersInv, Serve, End, GoOn
  <2>4. OnHand(h) = 0 /\ OnHand(h)' = 0
    BY <1>8 DEF WriteEntry, OnHand, HandlersInv, Serving, On, Serve, End, GoOn, Free
  <2>5. Hands' = Hands + 0 - 0
    BY <2>3, <2>4, HandMoves
  <2>6. Hands' = Hands + 0
    BY <2>5, TotalsType DEF TotalsAreInts
  <2>7. UNCHANGED <<partyBalance, dmc, collateral, working>>
    BY <1>8 DEF WriteEntry, captainVars
  <2>8. PartyDmcs' = PartyDmcs /\ Dmcs' = Dmcs /\ Securities' = Securities /\ Workings' = Workings
    BY <2>7 DEF PartyDmcs, Dmcs, Securities, Workings
  <2>9. poolBalance' = poolBalance /\ funded' = funded
    BY <1>8 DEF WriteEntry, poolVars, BalancesInv
  <2>10. Move(0, 0, 0, 0, 0, 0, 0, 0, 0)
    BY <2>2, <2>6, <2>8, <2>9, TotalsType DEF Move, TotalsAreInts
  <2>11. Even(0, 0, 0, 0, 0, 0, 0, 0, 0)
    BY DEF Even
  <2>12. Balancing(0, 0, 0, 0, 0, 0, 0, 0, 0)
    BY <2>10, <2>11 DEF Balancing
  <2> QED
    BY <2>12, Balanced
<1>9. ASSUME NEW h \in Handlers, CollectBack(h)
      PROVE  Surplus' = Surplus
  <2>1. PICK a \in Int : a = serving[h].amount
    BY DEF HandlersInv, Serving
  <2>2. PICK z \in Int : z = 0 - a
    OBVIOUS
  <2>3. status' = status
    BY <1>9 DEF CollectBack, requestVars
  <2>4. Receipts' = Receipts /\ Asked' = Asked
    BY <2>3, RowsStand
  <2>5. \A g \in Handlers \ {h} : serving'[g] = serving[g]
    BY <1>9 DEF CollectBack, HandlersInv, Serve, End, GoOn
  <2>6. OnHand(h) = a /\ OnHand(h)' = 0
    BY <1>9, <2>1, <2>2
    DEF CollectBack, OnHand, HandlersInv, Serving, On, Serve, End, GoOn, Free
  <2>7. Hands' = Hands + 0 - a
    BY <2>5, <2>6, HandMoves
  <2>8. Hands' = Hands + z
    BY <2>1, <2>2, <2>7, TotalsType DEF TotalsAreInts
  <2>9. UNCHANGED <<partyBalance, dmc, collateral, working>>
    BY <1>9 DEF CollectBack, captainVars
  <2>10. PartyDmcs' = PartyDmcs /\ Dmcs' = Dmcs /\ Securities' = Securities /\ Workings' = Workings
    BY <2>9 DEF PartyDmcs, Dmcs, Securities, Workings
  <2>11. poolBalance' = poolBalance + a /\ funded' = funded + 0
    BY <1>9, <2>1, <2>2 DEF CollectBack, poolVars, BalancesInv
  <2>12. Move(0, a, 0, 0, 0, 0, z, 0, 0)
    BY <2>1, <2>2, <2>4, <2>8, <2>10, <2>11, TotalsType DEF Move, TotalsAreInts
  <2>13. Even(0, a, 0, 0, 0, 0, z, 0, 0)
    BY <2>1, <2>2 DEF Even
  <2>14. a \in Int /\ z \in Int
    BY <2>1, <2>2
  <2>15. Balancing(0, a, 0, 0, 0, 0, z, 0, 0)
    BY <2>14, <2>12, <2>13 DEF Balancing
  <2> QED
    BY <2>15, Balanced
<1>10. ASSUME NEW h \in Handlers, NEW r \in AllRequests, RequestRead(h, r)
       PROVE  Surplus' = Surplus
  <2>1. status' = status
    BY <1>10 DEF RequestRead, requestVars
  <2>2. Receipts' = Receipts /\ Asked' = Asked
    BY <2>1, RowsStand
  <2>3. \A g \in Handlers \ {h} : serving'[g] = serving[g]
    BY <1>10 DEF RequestRead, HandlersInv, Serve, End, GoOn
  <2>4. OnHand(h) = 0 /\ OnHand(h)' = 0
    BY <1>10 DEF RequestRead, OnHand, HandlersInv, Serving, On, Serve, End, GoOn, Free
  <2>5. Hands' = Hands + 0 - 0
    BY <2>3, <2>4, HandMoves
  <2>6. Hands' = Hands + 0
    BY <2>5, TotalsType DEF TotalsAreInts
  <2>7. UNCHANGED <<partyBalance, dmc, collateral, working>>
    BY <1>10 DEF RequestRead, captainVars
  <2>8. PartyDmcs' = PartyDmcs /\ Dmcs' = Dmcs /\ Securities' = Securities /\ Workings' = Workings
    BY <2>7 DEF PartyDmcs, Dmcs, Securities, Workings
  <2>9. poolBalance' = poolBalance /\ funded' = funded
    BY <1>10 DEF RequestRead, poolVars, BalancesInv
  <2>10. Move(0, 0, 0, 0, 0, 0, 0, 0, 0)
    BY <2>2, <2>6, <2>8, <2>9, TotalsType DEF Move, TotalsAreInts
  <2>11. Even(0, 0, 0, 0, 0, 0, 0, 0, 0)
    BY DEF Even
  <2>12. Balancing(0, 0, 0, 0, 0, 0, 0, 0, 0)
    BY <2>10, <2>11 DEF Balancing
  <2> QED
    BY <2>12, Balanced
<1>11. ASSUME NEW h \in Handlers, NEW r \in AllRequests, Approve(h, r)
       PROVE  Surplus' = Surplus
  <2>1. PICK a \in Int : a = Amount[r]
    BY AmountOK
  <2>2. r \notin Redemptions
    BY <1>11 DEF Approve, Approved, Moves
  <2>3. \A q \in AllRequests \ {r} : status'[q] = status[q]
    BY <1>11, <2>1, <2>2 DEF Approve, Approved, Moves, FundingRowsInv
  <2>4. /\ Confirmed(r) = 0 /\ Confirmed(r)' = a
        /\ AskedBack(r) = 0 /\ AskedBack(r)' = 0
    BY <1>11, <2>1, <2>2
    DEF Approve, Approved, Moves, FundingRowsInv, Confirmed, AskedBack, Redeemed,
        AllRequests, CaptainRequests
  <2>5. Receipts' = Receipts + a - 0 /\ Asked' = Asked + 0 - 0
    BY <2>1, <2>2, <2>3, <2>4, RowsMove
  <2>6. Receipts' = Receipts + a /\ Asked' = Asked + 0
    BY <2>1, <2>2, <2>5, TotalsType DEF TotalsAreInts
  <2>7. \A g \in Handlers \ {h} : serving'[g] = serving[g]
    BY <1>11 DEF Approve, Approved, HandlersInv, Serve, End, GoOn
  <2>8. OnHand(h) = 0 /\ OnHand(h)' = a
    BY <1>11, <2>1, <2>2
    DEF Approve, Approved, OnHand, HandlersInv, Serving, On, Serve, End, GoOn, Free
  <2>9. Hands' = Hands + a - 0
    BY <2>7, <2>8, HandMoves
  <2>10. Hands' = Hands + a
    BY <2>1, <2>2, <2>9, TotalsType DEF TotalsAreInts
  <2>11. UNCHANGED <<partyBalance, dmc, collateral, working>>
    BY <1>11 DEF Approve, Approved, captainVars
  <2>12. PartyDmcs' = PartyDmcs /\ Dmcs' = Dmcs /\ Securities' = Securities /\ Workings' = Workings
    BY <2>11 DEF PartyDmcs, Dmcs, Securities, Workings
  <2>13. poolBalance' = poolBalance /\ funded' = funded
    BY <1>11, <2>1, <2>2 DEF Approve, Approved, poolVars, BalancesInv
  <2>14. Move(0, 0, 0, 0, 0, 0, a, 0, a)
    BY <2>1, <2>2, <2>6, <2>10, <2>12, <2>13, TotalsType DEF Move, TotalsAreInts
  <2>15. Even(0, 0, 0, 0, 0, 0, a, 0, a)
    BY <2>1, <2>2 DEF Even
  <2>16. a \in Int
    BY <2>1, <2>2
  <2>17. Balancing(0, 0, 0, 0, 0, 0, a, 0, a)
    BY <2>16, <2>14, <2>15 DEF Balancing
  <2> QED
    BY <2>17, Balanced
<1>12. ASSUME NEW h \in Handlers, NEW r \in AllRequests, RedeemHold(h, r)
       PROVE  Surplus' = Surplus
  <2>1. PICK c \in Captains, a \in Int : r \in Redemptions /\ c = Owner[r] /\ a = Amount[r]
    BY <1>12, AmountOK, OwnerOK
    DEF RedeemHold, RedeemInTransaction, RejectRedemption, Redeemable,
        CaptainRequests
  <2>2. PICK z \in Int : z = 0 - a
    OBVIOUS
  <2>3. dmc' = [dmc EXCEPT ![c] = @ - a]
    BY <1>12, <2>1, <2>2 DEF RedeemHold, Redeemable, TakeForRedemption
  <2>4. Dmcs' = Dmcs + z
    BY <2>1, <2>2, <2>3, DmcPays
  <2>5. status' = status
    BY <1>12 DEF RedeemHold, Redeemable, TakeForRedemption, requestVars
  <2>6. Receipts' = Receipts /\ Asked' = Asked
    BY <2>5, RowsStand
  <2>7. \A g \in Handlers \ {h} : serving'[g] = serving[g]
    BY <1>12
    DEF RedeemHold, Redeemable, TakeForRedemption, HandlersInv, Serve, End, GoOn
  <2>8. OnHand(h) = 0 /\ OnHand(h)' = a
    BY <1>12, <2>1, <2>2
    DEF RedeemHold, Redeemable, TakeForRedemption, OnHand, HandlersInv, Serving, On,
        Serve, End, GoOn, Free
  <2>9. Hands' = Hands + a - 0
    BY <2>7, <2>8, HandMoves
  <2>10. Hands' = Hands + a
    BY <2>1, <2>2, <2>9, TotalsType DEF TotalsAreInts
  <2>11. UNCHANGED <<partyBalance, collateral, working>>
    BY <1>12 DEF RedeemHold, Redeemable, TakeForRedemption, captainVars
  <2>12. PartyDmcs' = PartyDmcs /\ Securities' = Securities /\ Workings' = Workings
    BY <2>11 DEF PartyDmcs, Securities, Workings
  <2>13. poolBalance' = poolBalance /\ funded' = funded
    BY <1>12, <2>1, <2>2
    DEF RedeemHold, Redeemable, TakeForRedemption, poolVars, BalancesInv
  <2>14. Move(0, 0, z, 0, 0, 0, a, 0, 0)
    BY <2>1, <2>2, <2>4, <2>6, <2>10, <2>12, <2>13, TotalsType
    DEF Move, TotalsAreInts
  <2>15. Even(0, 0, z, 0, 0, 0, a, 0, 0)
    BY <2>1, <2>2 DEF Even
  <2>16. a \in Int /\ z \in Int
    BY <2>1, <2>2
  <2>17. Balancing(0, 0, z, 0, 0, 0, a, 0, 0)
    BY <2>16, <2>14, <2>15 DEF Balancing
  <2> QED
    BY <2>17, Balanced
<1>13. ASSUME NEW h \in Handlers, NEW r \in AllRequests,
             RejectRedemption(h, r)
      PROVE  Surplus' = Surplus
  <2>1. PICK c \in Captains, a \in Int : r \in Redemptions /\ c = Owner[r] /\ a = Amount[r]
    BY <1>13, AmountOK, OwnerOK
    DEF RedeemHold, RedeemInTransaction, RejectRedemption, Redeemable,
        CaptainRequests
  <2>2. PICK z \in Int : z = 0 - a
    OBVIOUS
  <2>3. \A q \in AllRequests \ {r} : status'[q] = status[q]
    BY <1>13, <2>1, <2>2 DEF RejectRedemption, Moves, FundingRowsInv
  <2>4. /\ Confirmed(r) = 0 /\ Confirmed(r)' = 0
        /\ AskedBack(r) = a /\ AskedBack(r)' = 0
    BY <1>13, <2>1, <2>2
    DEF RejectRedemption, Moves, FundingRowsInv, Confirmed, AskedBack, Redeemed,
        AllRequests, CaptainRequests
  <2>5. Receipts' = Receipts + 0 - 0 /\ Asked' = Asked + 0 - a
    BY <2>1, <2>2, <2>3, <2>4, RowsMove
  <2>6. Receipts' = Receipts + 0 /\ Asked' = Asked + z
    BY <2>1, <2>2, <2>5, TotalsType DEF TotalsAreInts
  <2>7. \A g \in Handlers \ {h} : serving'[g] = serving[g]
    BY <1>13 DEF RejectRedemption, HandlersInv, Serve, End, GoOn
  <2>8. OnHand(h) = 0 /\ OnHand(h)' = a
    BY <1>13, <2>1, <2>2
    DEF RejectRedemption, OnHand, HandlersInv, Serving, On, Serve, End, GoOn, Free
  <2>9. Hands' = Hands + a - 0
    BY <2>7, <2>8, HandMoves
  <2>10. Hands' = Hands + a
    BY <2>1, <2>2, <2>9, TotalsType DEF TotalsAreInts
  <2>11. UNCHANGED <<partyBalance, dmc, collateral, working>>
    BY <1>13 DEF RejectRedemption, captainVars
  <2>12. PartyDmcs' = PartyDmcs /\ Dmcs' = Dmcs /\ Securities' = Securities /\ Workings' = Workings
    BY <2>11 DEF PartyDmcs, Dmcs, Securities, Workings
  <2>13. poolBalance' = poolBalance /\ funded' = funded
    BY <1>13, <2>1, <2>2 DEF RejectRedemption, poolVars, BalancesInv
  <2>14. Move(0, 0, 0, 0, 0, z, a, 0, 0)
    BY <2>1, <2>2, <2>6, <2>10, <2>12, <2>13, TotalsType DEF Move, TotalsAreInts
  <2>15. Even(0, 0, 0, 0, 0, z, a, 0, 0)
    BY <2>1, <2>2 DEF Even
  <2>16. a \in Int /\ z \in Int
    BY <2>1, <2>2
  <2>17. Balancing(0, 0, 0, 0, 0, z, a, 0, 0)
    BY <2>16, <2>14, <2>15 DEF Balancing
  <2> QED
    BY <2>17, Balanced
<1>14. ASSUME NEW r \in AllRequests, RequestDeposit(r)
       PROVE  Surplus' = Surplus
  <2>1. \A q \in AllRequests \ {r} : status'[q] = status[q]
    BY <1>14 DEF RequestDeposit, Moves, FundingRowsInv
  <2>2. (status'[r] = "APPROVED" <=> status[r] = "APPROVED") /\ (Redeemed(r)' <=> Redeemed(r))
    BY <1>14
    DEF RequestDeposit, Moves, FundingRowsInv, Redeemed, HandlersInv, HandlerKnows, On,
        AllRequests, CaptainRequests
  <2>3. Receipts' = Receipts /\ Asked' = Asked
    BY <2>1, <2>2, QuietRow
  <2>4. serving' = serving
    BY <1>14 DEF RequestDeposit
  <2>5. Hands' = Hands
    BY <2>4, HandsStand
  <2>6. UNCHANGED <<partyBalance, dmc, collateral, working>>
    BY <1>14 DEF RequestDeposit, captainVars
  <2>7. PartyDmcs' = PartyDmcs /\ Dmcs' = Dmcs /\ Securities' = Securities /\ Workings' = Workings
    BY <2>6 DEF PartyDmcs, Dmcs, Securities, Workings
  <2>8. poolBalance' = poolBalance /\ funded' = funded
    BY <1>14 DEF RequestDeposit, poolVars, BalancesInv
  <2>9. Move(0, 0, 0, 0, 0, 0, 0, 0, 0)
    BY <2>3, <2>5, <2>7, <2>8, TotalsType DEF Move, TotalsAreInts
  <2>10. Even(0, 0, 0, 0, 0, 0, 0, 0, 0)
    BY DEF Even
  <2>11. Balancing(0, 0, 0, 0, 0, 0, 0, 0, 0)
    BY <2>9, <2>10 DEF Balancing
  <2> QED
    BY <2>11, Balanced
<1>15. ASSUME NEW r \in AllRequests, RedeemInTransaction(r)
       PROVE  Surplus' = Surplus
  <2>1. PICK c \in Captains, a \in Int : r \in Redemptions /\ c = Owner[r] /\ a = Amount[r]
    BY <1>15, AmountOK, OwnerOK
    DEF RedeemHold, RedeemInTransaction, RejectRedemption, Redeemable,
        CaptainRequests
  <2>2. PICK z \in Int : z = 0 - a
    OBVIOUS
  <2>3. dmc' = [dmc EXCEPT ![c] = @ - a]
    BY <1>15, <2>1, <2>2 DEF RedeemInTransaction, Redeemable, TakeForRedemption
  <2>4. Dmcs' = Dmcs + z
    BY <2>1, <2>2, <2>3, DmcPays
  <2>5. \A q \in AllRequests \ {r} : status'[q] = status[q]
    BY <1>15, <2>1, <2>2
    DEF RedeemInTransaction, Redeemable, TakeForRedemption, Moves, FundingRowsInv
  <2>6. /\ Confirmed(r) = 0 /\ Confirmed(r)' = 0
        /\ AskedBack(r) = 0 /\ AskedBack(r)' = a
    BY <1>15, <2>1, <2>2
    DEF RedeemInTransaction, Redeemable, TakeForRedemption, Moves, FundingRowsInv,
        Confirmed, AskedBack, Redeemed, AllRequests, CaptainRequests
  <2>7. Receipts' = Receipts + 0 - 0 /\ Asked' = Asked + a - 0
    BY <2>1, <2>2, <2>5, <2>6, RowsMove
  <2>8. Receipts' = Receipts + 0 /\ Asked' = Asked + a
    BY <2>1, <2>2, <2>7, TotalsType DEF TotalsAreInts
  <2>9. serving' = serving
    BY <1>15 DEF RedeemInTransaction, Redeemable, TakeForRedemption
  <2>10. Hands' = Hands
    BY <2>9, HandsStand
  <2>11. UNCHANGED <<partyBalance, collateral, working>>
    BY <1>15 DEF RedeemInTransaction, Redeemable, TakeForRedemption, captainVars
  <2>12. PartyDmcs' = PartyDmcs /\ Securities' = Securities /\ Workings' = Workings
    BY <2>11 DEF PartyDmcs, Securities, Workings
  <2>13. poolBalance' = poolBalance /\ funded' = funded
    BY <1>15, <2>1, <2>2
    DEF RedeemInTransaction, Redeemable, TakeForRedemption, poolVars, BalancesInv
  <2>14. Move(0, 0, z, 0, 0, a, 0, 0, 0)
    BY <2>1, <2>2, <2>4, <2>8, <2>10, <2>12, <2>13, TotalsType
    DEF Move, TotalsAreInts
  <2>15. Even(0, 0, z, 0, 0, a, 0, 0, 0)
    BY <2>1, <2>2 DEF Even
  <2>16. a \in Int /\ z \in Int
    BY <2>1, <2>2
  <2>17. Balancing(0, 0, z, 0, 0, a, 0, 0, 0)
    BY <2>16, <2>14, <2>15 DEF Balancing
  <2> QED
    BY <2>17, Balanced
<1>16. ASSUME NEW r \in AllRequests, MarkPaid(r)
       PROVE  Surplus' = Surplus
  <2>1. \A q \in AllRequests \ {r} : status'[q] = status[q]
    BY <1>16 DEF MarkPaid, Moves, FundingRowsInv
  <2>2. (status'[r] = "APPROVED" <=> status[r] = "APPROVED") /\ (Redeemed(r)' <=> Redeemed(r))
    BY <1>16
    DEF MarkPaid, Moves, FundingRowsInv, Redeemed, HandlersInv, HandlerKnows, On, AllRequests,
        CaptainRequests
  <2>3. Receipts' = Receipts /\ Asked' = Asked
    BY <2>1, <2>2, QuietRow
  <2>4. serving' = serving
    BY <1>16 DEF MarkPaid
  <2>5. Hands' = Hands
    BY <2>4, HandsStand
  <2>6. UNCHANGED <<partyBalance, dmc, collateral, working>>
    BY <1>16 DEF MarkPaid, captainVars
  <2>7. PartyDmcs' = PartyDmcs /\ Dmcs' = Dmcs /\ Securities' = Securities /\ Workings' = Workings
    BY <2>6 DEF PartyDmcs, Dmcs, Securities, Workings
  <2>8. poolBalance' = poolBalance /\ funded' = funded
    BY <1>16 DEF MarkPaid, poolVars, BalancesInv
  <2>9. Move(0, 0, 0, 0, 0, 0, 0, 0, 0)
    BY <2>3, <2>5, <2>7, <2>8, TotalsType DEF Move, TotalsAreInts
  <2>10. Even(0, 0, 0, 0, 0, 0, 0, 0, 0)
    BY DEF Even
  <2>11. Balancing(0, 0, 0, 0, 0, 0, 0, 0, 0)
    BY <2>9, <2>10 DEF Balancing
  <2> QED
    BY <2>11, Balanced
<1>17. ASSUME NEW r \in AllRequests, Reject(r)
       PROVE  Surplus' = Surplus
  <2>1. \A q \in AllRequests \ {r} : status'[q] = status[q]
    BY <1>17 DEF Reject, Moves, FundingRowsInv
  <2>2. (status'[r] = "APPROVED" <=> status[r] = "APPROVED") /\ (Redeemed(r)' <=> Redeemed(r))
    BY <1>17
    DEF Reject, Moves, FundingRowsInv, Redeemed, HandlersInv, HandlerKnows, On, AllRequests,
        CaptainRequests
  <2>3. Receipts' = Receipts /\ Asked' = Asked
    BY <2>1, <2>2, QuietRow
  <2>4. serving' = serving
    BY <1>17 DEF Reject
  <2>5. Hands' = Hands
    BY <2>4, HandsStand
  <2>6. UNCHANGED <<partyBalance, dmc, collateral, working>>
    BY <1>17 DEF Reject, captainVars
  <2>7. PartyDmcs' = PartyDmcs /\ Dmcs' = Dmcs /\ Securities' = Securities /\ Workings' = Workings
    BY <2>6 DEF PartyDmcs, Dmcs, Securities, Workings
  <2>8. poolBalance' = poolBalance /\ funded' = funded
    BY <1>17 DEF Reject, poolVars, BalancesInv
  <2>9. Move(0, 0, 0, 0, 0, 0, 0, 0, 0)
    BY <2>3, <2>5, <2>7, <2>8, TotalsType DEF Move, TotalsAreInts
  <2>10. Even(0, 0, 0, 0, 0, 0, 0, 0, 0)
    BY DEF Even
  <2>11. Balancing(0, 0, 0, 0, 0, 0, 0, 0, 0)
    BY <2>9, <2>10 DEF Balancing
  <2> QED
    BY <2>11, Balanced
<1>18. ASSUME NEW r \in AllRequests, MarkRedemptionPaid(r)
       PROVE  Surplus' = Surplus
  <2>1. \A q \in AllRequests \ {r} : status'[q] = status[q]
    BY <1>18 DEF MarkRedemptionPaid, Moves, FundingRowsInv
  <2>2. (status'[r] = "APPROVED" <=> status[r] = "APPROVED") /\ (Redeemed(r)' <=> Redeemed(r))
    BY <1>18
    DEF MarkRedemptionPaid, Moves, FundingRowsInv, Redeemed, HandlersInv, HandlerKnows, On,
        AllRequests, CaptainRequests
  <2>3. Receipts' = Receipts /\ Asked' = Asked
    BY <2>1, <2>2, QuietRow
  <2>4. serving' = serving
    BY <1>18 DEF MarkRedemptionPaid
  <2>5. Hands' = Hands
    BY <2>4, HandsStand
  <2>6. UNCHANGED <<partyBalance, dmc, collateral, working>>
    BY <1>18 DEF MarkRedemptionPaid, captainVars
  <2>7. PartyDmcs' = PartyDmcs /\ Dmcs' = Dmcs /\ Securities' = Securities /\ Workings' = Workings
    BY <2>6 DEF PartyDmcs, Dmcs, Securities, Workings
  <2>8. poolBalance' = poolBalance /\ funded' = funded
    BY <1>18 DEF MarkRedemptionPaid, poolVars, BalancesInv
  <2>9. Move(0, 0, 0, 0, 0, 0, 0, 0, 0)
    BY <2>3, <2>5, <2>7, <2>8, TotalsType DEF Move, TotalsAreInts
  <2>10. Even(0, 0, 0, 0, 0, 0, 0, 0, 0)
    BY DEF Even
  <2>11. Balancing(0, 0, 0, 0, 0, 0, 0, 0, 0)
    BY <2>9, <2>10 DEF Balancing
  <2> QED
    BY <2>11, Balanced
<1>19. ASSUME NEW c \in Captains, NEW share \in Shares,
             PayShareInTransaction(c, share)
      PROVE  Surplus' = Surplus
  <2>1. PICK a \in Int : a = share
    OBVIOUS
  <2>2. PICK z \in Int : z = 0 - a
    OBVIOUS
  <2>3. dmc' = [dmc EXCEPT ![c] = @ + a]
    BY <1>19, <2>1, <2>2 DEF PayShareInTransaction, CreditCaptain
  <2>4. Dmcs' = Dmcs + a
    BY <2>1, <2>2, <2>3, DmcMoves
  <2>5. status' = status
    BY <1>19 DEF PayShareInTransaction, CreditCaptain, requestVars
  <2>6. Receipts' = Receipts /\ Asked' = Asked
    BY <2>5, RowsStand
  <2>7. serving' = serving
    BY <1>19 DEF PayShareInTransaction, CreditCaptain
  <2>8. Hands' = Hands
    BY <2>7, HandsStand
  <2>9. UNCHANGED <<partyBalance, collateral, working>>
    BY <1>19 DEF PayShareInTransaction, CreditCaptain, captainVars
  <2>10. PartyDmcs' = PartyDmcs /\ Securities' = Securities /\ Workings' = Workings
    BY <2>9 DEF PartyDmcs, Securities, Workings
  <2>11. poolBalance' = poolBalance + z /\ funded' = funded + 0
    BY <1>19, <2>1, <2>2
    DEF PayShareInTransaction, CreditCaptain, poolVars, BalancesInv
  <2>12. Move(0, z, a, 0, 0, 0, 0, 0, 0)
    BY <2>1, <2>2, <2>4, <2>6, <2>8, <2>10, <2>11, TotalsType
    DEF Move, TotalsAreInts
  <2>13. Even(0, z, a, 0, 0, 0, 0, 0, 0)
    BY <2>1, <2>2 DEF Even
  <2>14. a \in Int /\ z \in Int
    BY <2>1, <2>2
  <2>15. Balancing(0, z, a, 0, 0, 0, 0, 0, 0)
    BY <2>14, <2>12, <2>13 DEF Balancing
  <2> QED
    BY <2>15, Balanced
<1>20. ASSUME NEW h \in Handlers, NEW c \in Captains, NEW share \in Shares,
             TakeShare(h, c, share)
      PROVE  Surplus' = Surplus
  <2>1. PICK a \in Int : a = share
    OBVIOUS
  <2>2. PICK z \in Int : z = 0 - a
    OBVIOUS
  <2>3. status' = status
    BY <1>20 DEF TakeShare, requestVars
  <2>4. Receipts' = Receipts /\ Asked' = Asked
    BY <2>3, RowsStand
  <2>5. \A g \in Handlers \ {h} : serving'[g] = serving[g]
    BY <1>20 DEF TakeShare, HandlersInv, Serve, End, GoOn
  <2>6. OnHand(h) = 0 /\ OnHand(h)' = a
    BY <1>20, <2>1, <2>2
    DEF TakeShare, OnHand, HandlersInv, Serving, On, Serve, End, GoOn, Free
  <2>7. Hands' = Hands + a - 0
    BY <2>5, <2>6, HandMoves
  <2>8. Hands' = Hands + a
    BY <2>1, <2>2, <2>7, TotalsType DEF TotalsAreInts
  <2>9. UNCHANGED <<partyBalance, dmc, collateral, working>>
    BY <1>20 DEF TakeShare, captainVars
  <2>10. PartyDmcs' = PartyDmcs /\ Dmcs' = Dmcs /\ Securities' = Securities /\ Workings' = Workings
    BY <2>9 DEF PartyDmcs, Dmcs, Securities, Workings
  <2>11. poolBalance' = poolBalance + z /\ funded' = funded + 0
    BY <1>20, <2>1, <2>2 DEF TakeShare, poolVars, BalancesInv
  <2>12. Move(0, z, 0, 0, 0, 0, a, 0, 0)
    BY <2>1, <2>2, <2>4, <2>8, <2>10, <2>11, TotalsType DEF Move, TotalsAreInts
  <2>13. Even(0, z, 0, 0, 0, 0, a, 0, 0)
    BY <2>1, <2>2 DEF Even
  <2>14. a \in Int /\ z \in Int
    BY <2>1, <2>2
  <2>15. Balancing(0, z, 0, 0, 0, 0, a, 0, 0)
    BY <2>14, <2>12, <2>13 DEF Balancing
  <2> QED
    BY <2>15, Balanced
<1>21. ASSUME NEW share \in Shares, FundPool(share)
       PROVE  Surplus' = Surplus
  <2>1. PICK a \in Int : a = share
    OBVIOUS
  <2>2. status' = status
    BY <1>21 DEF FundPool, requestVars
  <2>3. Receipts' = Receipts /\ Asked' = Asked
    BY <2>2, RowsStand
  <2>4. serving' = serving
    BY <1>21 DEF FundPool
  <2>5. Hands' = Hands
    BY <2>4, HandsStand
  <2>6. UNCHANGED <<partyBalance, dmc, collateral, working>>
    BY <1>21 DEF FundPool, captainVars
  <2>7. PartyDmcs' = PartyDmcs /\ Dmcs' = Dmcs /\ Securities' = Securities /\ Workings' = Workings
    BY <2>6 DEF PartyDmcs, Dmcs, Securities, Workings
  <2>8. poolBalance' = poolBalance + a /\ funded' = funded + a
    BY <1>21, <2>1 DEF FundPool, poolVars, BalancesInv
  <2>9. Move(0, a, 0, 0, 0, 0, 0, a, 0)
    BY <2>1, <2>3, <2>5, <2>7, <2>8, TotalsType DEF Move, TotalsAreInts
  <2>10. Even(0, a, 0, 0, 0, 0, 0, a, 0)
    BY <2>1 DEF Even
  <2>11. a \in Int
    BY <2>1
  <2>12. Balancing(0, a, 0, 0, 0, 0, 0, a, 0)
    BY <2>11, <2>9, <2>10 DEF Balancing
  <2> QED
    BY <2>12, Balanced
<1>22. ASSUME NEW c \in Captains, NEW amount \in Claims,
             TakeForClaim(c, amount)
      PROVE  Surplus' = Surplus
  <2>1. PICK a \in Int : a = amount
    OBVIOUS
  <2>2. PICK z \in Int : z = 0 - a
    OBVIOUS
  <2>3. dmc' = [dmc EXCEPT ![c] = @ - a]
    BY <1>22, <2>1, <2>2 DEF TakeForClaim
  <2>4. Dmcs' = Dmcs + z
    BY <2>1, <2>2, <2>3, DmcPays
  <2>5. working' = [working EXCEPT ![c] = @ + a]
    BY <1>22, <2>1, <2>2 DEF TakeForClaim
  <2>6. Workings' = Workings + a
    BY <2>1, <2>2, <2>5, WorkingMoves
  <2>7. status' = status
    BY <1>22 DEF TakeForClaim, requestVars
  <2>8. Receipts' = Receipts /\ Asked' = Asked
    BY <2>7, RowsStand
  <2>9. serving' = serving
    BY <1>22 DEF TakeForClaim
  <2>10. Hands' = Hands
    BY <2>9, HandsStand
  <2>11. UNCHANGED <<partyBalance, collateral>>
    BY <1>22 DEF TakeForClaim, captainVars
  <2>12. PartyDmcs' = PartyDmcs /\ Securities' = Securities
    BY <2>11 DEF PartyDmcs, Securities
  <2>13. poolBalance' = poolBalance /\ funded' = funded
    BY <1>22, <2>1, <2>2 DEF TakeForClaim, poolVars, BalancesInv
  <2>14. Move(0, 0, z, 0, a, 0, 0, 0, 0)
    BY <2>1, <2>2, <2>4, <2>6, <2>8, <2>10, <2>12, <2>13, TotalsType
    DEF Move, TotalsAreInts
  <2>15. Even(0, 0, z, 0, a, 0, 0, 0, 0)
    BY <2>1, <2>2 DEF Even
  <2>16. a \in Int /\ z \in Int
    BY <2>1, <2>2
  <2>17. Balancing(0, 0, z, 0, a, 0, 0, 0, 0)
    BY <2>16, <2>14, <2>15 DEF Balancing
  <2> QED
    BY <2>17, Balanced
<1>23. ASSUME NEW c \in Captains, NEW amount \in Claims,
             ReturnFromClaim(c, amount)
      PROVE  Surplus' = Surplus
  <2>1. PICK a \in Int : a = amount
    OBVIOUS
  <2>2. PICK z \in Int : z = 0 - a
    OBVIOUS
  <2>3. dmc' = [dmc EXCEPT ![c] = @ + a]
    BY <1>23, <2>1, <2>2 DEF ReturnFromClaim
  <2>4. Dmcs' = Dmcs + a
    BY <2>1, <2>2, <2>3, DmcMoves
  <2>5. working' = [working EXCEPT ![c] = @ - a]
    BY <1>23, <2>1, <2>2 DEF ReturnFromClaim
  <2>6. Workings' = Workings + z
    BY <2>1, <2>2, <2>5, WorkingPays
  <2>7. status' = status
    BY <1>23 DEF ReturnFromClaim, requestVars
  <2>8. Receipts' = Receipts /\ Asked' = Asked
    BY <2>7, RowsStand
  <2>9. serving' = serving
    BY <1>23 DEF ReturnFromClaim
  <2>10. Hands' = Hands
    BY <2>9, HandsStand
  <2>11. UNCHANGED <<partyBalance, collateral>>
    BY <1>23 DEF ReturnFromClaim, captainVars
  <2>12. PartyDmcs' = PartyDmcs /\ Securities' = Securities
    BY <2>11 DEF PartyDmcs, Securities
  <2>13. poolBalance' = poolBalance /\ funded' = funded
    BY <1>23, <2>1, <2>2 DEF ReturnFromClaim, poolVars, BalancesInv
  <2>14. Move(0, 0, a, 0, z, 0, 0, 0, 0)
    BY <2>1, <2>2, <2>4, <2>6, <2>8, <2>10, <2>12, <2>13, TotalsType
    DEF Move, TotalsAreInts
  <2>15. Even(0, 0, a, 0, z, 0, 0, 0, 0)
    BY <2>1, <2>2 DEF Even
  <2>16. a \in Int /\ z \in Int
    BY <2>1, <2>2
  <2>17. Balancing(0, 0, a, 0, z, 0, 0, 0, 0)
    BY <2>16, <2>14, <2>15 DEF Balancing
  <2> QED
    BY <2>17, Balanced
<1>24. ASSUME NEW c \in Captains, NEW ceiling \in Ceilings \cup {None},
             SetApprovedLimit(c, ceiling)
      PROVE  Surplus' = Surplus
  <2>1. status' = status
    BY <1>24 DEF SetApprovedLimit, SetCeiling, requestVars
  <2>2. Receipts' = Receipts /\ Asked' = Asked
    BY <2>1, RowsStand
  <2>3. serving' = serving
    BY <1>24 DEF SetApprovedLimit, SetCeiling
  <2>4. Hands' = Hands
    BY <2>3, HandsStand
  <2>5. UNCHANGED <<partyBalance, dmc, collateral, working>>
    BY <1>24 DEF SetApprovedLimit, SetCeiling, captainVars
  <2>6. PartyDmcs' = PartyDmcs /\ Dmcs' = Dmcs /\ Securities' = Securities /\ Workings' = Workings
    BY <2>5 DEF PartyDmcs, Dmcs, Securities, Workings
  <2>7. poolBalance' = poolBalance /\ funded' = funded
    BY <1>24 DEF SetApprovedLimit, SetCeiling, poolVars, BalancesInv
  <2>8. Move(0, 0, 0, 0, 0, 0, 0, 0, 0)
    BY <2>2, <2>4, <2>6, <2>7, TotalsType DEF Move, TotalsAreInts
  <2>9. Even(0, 0, 0, 0, 0, 0, 0, 0, 0)
    BY DEF Even
  <2>10. Balancing(0, 0, 0, 0, 0, 0, 0, 0, 0)
    BY <2>8, <2>9 DEF Balancing
  <2> QED
    BY <2>10, Balanced
<1>25. ASSUME NEW c \in Captains, NEW grant \in Grants,
             RaiseCeiling(c, grant)
      PROVE  Surplus' = Surplus
  <2>1. status' = status
    BY <1>25 DEF RaiseCeiling, SetCeiling, CeilingOf, requestVars
  <2>2. Receipts' = Receipts /\ Asked' = Asked
    BY <2>1, RowsStand
  <2>3. serving' = serving
    BY <1>25 DEF RaiseCeiling, SetCeiling, CeilingOf
  <2>4. Hands' = Hands
    BY <2>3, HandsStand
  <2>5. UNCHANGED <<partyBalance, dmc, collateral, working>>
    BY <1>25 DEF RaiseCeiling, SetCeiling, CeilingOf, captainVars
  <2>6. PartyDmcs' = PartyDmcs /\ Dmcs' = Dmcs /\ Securities' = Securities /\ Workings' = Workings
    BY <2>5 DEF PartyDmcs, Dmcs, Securities, Workings
  <2>7. poolBalance' = poolBalance /\ funded' = funded
    BY <1>25 DEF RaiseCeiling, SetCeiling, CeilingOf, poolVars, BalancesInv
  <2>8. Move(0, 0, 0, 0, 0, 0, 0, 0, 0)
    BY <2>2, <2>4, <2>6, <2>7, TotalsType DEF Move, TotalsAreInts
  <2>9. Even(0, 0, 0, 0, 0, 0, 0, 0, 0)
    BY DEF Even
  <2>10. Balancing(0, 0, 0, 0, 0, 0, 0, 0, 0)
    BY <2>8, <2>9 DEF Balancing
  <2> QED
    BY <2>10, Balanced
<1>26. CASE \E h \in Handlers : InsertFails(h) \/ ShareFails(h)
  BY <1>26 DEF InsertFails, ShareFails, Refused, FaultsInv
<1>27. CASE ProcessStops
  BY <1>27 DEF ProcessStops, FaultsInv
<1>28. CASE UNCHANGED fundingVars
  <2>1. /\ UNCHANGED <<status, serving, partyBalance, dmc, collateral, working, poolBalance, funded>>
    BY <1>28 DEF fundingVars, requestVars, captainVars, poolVars
  <2>2. Receipts' = Receipts /\ Asked' = Asked /\ Hands' = Hands
    BY <2>1, RowsStand, HandsStand
  <2>3. PartyDmcs' = PartyDmcs /\ Dmcs' = Dmcs /\ Securities' = Securities /\ Workings' = Workings
    BY <2>1 DEF PartyDmcs, Dmcs, Securities, Workings
  <2> QED
    BY <2>1, <2>2, <2>3 DEF Surplus
<1> QED
  BY <1>1, <1>2, <1>3, <1>4, <1>5, <1>6, <1>7, <1>8, <1>9, <1>10, <1>11,
     <1>12, <1>13, <1>14, <1>15, <1>16, <1>17, <1>18, <1>19, <1>20, <1>21, <1>22,
     <1>23, <1>24, <1>25, <1>26, <1>27, <1>28 DEF FundingNext, ServeStep, Decide

\* A process that stops loses what its handlers had in hand.
LEMMA CrashLoses ==
  ASSUME FundingInv, ProcessStops
  PROVE  Surplus' <= Surplus
<1>1. /\ UNCHANGED <<status, partyBalance, dmc, collateral, working, poolBalance, funded>>
      /\ \A h \in Handlers : serving'[h] = Free
  BY DEF ProcessStops, requestVars, captainVars, poolVars
<1>2. Receipts' = Receipts /\ Asked' = Asked
  BY <1>1, RowsStand
<1>3. PartyDmcs' = PartyDmcs /\ Dmcs' = Dmcs /\ Securities' = Securities /\ Workings' = Workings
  BY <1>1 DEF PartyDmcs, Dmcs, Securities, Workings
<1>4. Hands' = 0
  <2> DEFINE f == [h \in Handlers |-> OnHand(h)']
  <2>1. f = HandOf'
    BY DEF HandOf
  <2>2. \A h \in Handlers : f[h] = 0
    BY <1>1 DEF OnHand, Free
  <2> HIDE DEF f
  <2>3. Total(f, Handlers) = 0
    BY <2>2, FundingFiniteAssumption, TotalZero
  <2> QED
    BY <2>1, <2>3 DEF Hands
<1>5. PICK x \in Int, h \in Nat, y \in Int :
        /\ x = PartyDmcs + poolBalance + Dmcs + Securities + Workings + Asked
        /\ h = Hands /\ y = funded + Receipts
  BY TotalsType DEF TotalsAreInts
<1>6. Surplus = x + h - y /\ Surplus' = x + 0 - y
  BY <1>1, <1>2, <1>3, <1>4, <1>5 DEF Surplus
<1> QED
  BY <1>5, <1>6

\* Only a write that is refused and a stop count as faults.
LEMMA FaultsMove ==
  ASSUME FundingInv, [FundingNext]_fundingVars
  PROVE  \/ refused' = refused /\ stops' = stops
         \/ refused < MaxRefused /\ refused' = refused + 1 /\ stops' = stops
         \/ ProcessStops
<1> DEFINE Moved == \/ refused' = refused /\ stops' = stops
                    \/ refused < MaxRefused /\ refused' = refused + 1 /\ stops' = stops
                    \/ ProcessStops
<1>1. ASSUME NEW h \in Handlers, InsertRow(h)
      PROVE  Moved
  BY <1>1 DEF InsertRow, faultVars
<1>2. ASSUME NEW h \in Handlers, CreditTopUp(h)
      PROVE  Moved
  BY <1>2 DEF CreditTopUp, faultVars
<1>3. ASSUME NEW h \in Handlers, CreditDeposit(h)
      PROVE  Moved
  BY <1>3 DEF CreditDeposit, faultVars
<1>4. ASSUME NEW h \in Handlers, CreditLimitPurchase(h)
      PROVE  Moved
  BY <1>4 DEF CreditLimitPurchase, CeilingOf, faultVars
<1>5. ASSUME NEW h \in Handlers, InsertRedemption(h)
      PROVE  Moved
  BY <1>5 DEF InsertRedemption, faultVars
<1>6. ASSUME NEW h \in Handlers, InsertFails(h)
      PROVE  Moved
  BY <1>6 DEF InsertFails, Refused, faultVars
<1>7. ASSUME NEW h \in Handlers, GiveBack(h)
      PROVE  Moved
  BY <1>7 DEF GiveBack, faultVars
<1>8. ASSUME NEW h \in Handlers, CreditShare(h)
      PROVE  Moved
  BY <1>8 DEF CreditShare, CreditCaptain, faultVars
<1>9. ASSUME NEW h \in Handlers, WriteEntry(h)
      PROVE  Moved
  BY <1>9 DEF WriteEntry, faultVars
<1>10. ASSUME NEW h \in Handlers, ShareFails(h)
       PROVE  Moved
  BY <1>10 DEF ShareFails, Refused, faultVars
<1>11. ASSUME NEW h \in Handlers, CollectBack(h)
       PROVE  Moved
  BY <1>11 DEF CollectBack, faultVars
<1>12. ASSUME NEW h \in Handlers, NEW r \in AllRequests, RequestRead(h, r)
       PROVE  Moved
  BY <1>12 DEF RequestRead, faultVars
<1>13. ASSUME NEW h \in Handlers, NEW r \in AllRequests, Approve(h, r)
       PROVE  Moved
  BY <1>13 DEF Approve, Approved, faultVars
<1>14. ASSUME NEW h \in Handlers, NEW r \in AllRequests, RedeemHold(h, r)
       PROVE  Moved
  BY <1>14 DEF RedeemHold, Redeemable, TakeForRedemption, faultVars
<1>15. ASSUME NEW h \in Handlers, NEW r \in AllRequests,
             RejectRedemption(h, r)
      PROVE  Moved
  BY <1>15 DEF RejectRedemption, faultVars
<1>16. ASSUME NEW r \in AllRequests, RequestDeposit(r)
       PROVE  Moved
  BY <1>16 DEF RequestDeposit, faultVars
<1>17. ASSUME NEW r \in AllRequests, RedeemInTransaction(r)
       PROVE  Moved
  BY <1>17 DEF RedeemInTransaction, Redeemable, TakeForRedemption, faultVars
<1>18. ASSUME NEW r \in AllRequests, MarkPaid(r)
       PROVE  Moved
  BY <1>18 DEF MarkPaid, faultVars
<1>19. ASSUME NEW r \in AllRequests, Reject(r)
       PROVE  Moved
  BY <1>19 DEF Reject, faultVars
<1>20. ASSUME NEW r \in AllRequests, MarkRedemptionPaid(r)
       PROVE  Moved
  BY <1>20 DEF MarkRedemptionPaid, faultVars
<1>21. ASSUME NEW c \in Captains, NEW share \in Shares,
             PayShareInTransaction(c, share)
      PROVE  Moved
  BY <1>21 DEF PayShareInTransaction, CreditCaptain, faultVars
<1>22. ASSUME NEW h \in Handlers, NEW c \in Captains, NEW share \in Shares,
             TakeShare(h, c, share)
      PROVE  Moved
  BY <1>22 DEF TakeShare, faultVars
<1>23. ASSUME NEW share \in Shares, FundPool(share)
       PROVE  Moved
  BY <1>23 DEF FundPool, faultVars
<1>24. ASSUME NEW c \in Captains, NEW amount \in Claims,
             TakeForClaim(c, amount)
      PROVE  Moved
  BY <1>24 DEF TakeForClaim, faultVars
<1>25. ASSUME NEW c \in Captains, NEW amount \in Claims,
             ReturnFromClaim(c, amount)
      PROVE  Moved
  BY <1>25 DEF ReturnFromClaim, faultVars
<1>26. ASSUME NEW c \in Captains, NEW ceiling \in Ceilings \cup {None},
             SetApprovedLimit(c, ceiling)
      PROVE  Moved
  BY <1>26 DEF SetApprovedLimit, SetCeiling, faultVars
<1>27. ASSUME NEW c \in Captains, NEW grant \in Grants,
             RaiseCeiling(c, grant)
      PROVE  Moved
  BY <1>27 DEF RaiseCeiling, SetCeiling, CeilingOf, faultVars
<1>28. ASSUME ProcessStops
      PROVE  Moved
  BY <1>28
<1>29. CASE UNCHANGED fundingVars
  BY <1>29 DEF fundingVars, faultVars
<1> QED
  BY <1>1, <1>2, <1>3, <1>4, <1>5, <1>6, <1>7, <1>8, <1>9, <1>10, <1>11,
     <1>12, <1>13, <1>14, <1>15, <1>16, <1>17, <1>18, <1>19, <1>20, <1>21, <1>22,
     <1>23, <1>24, <1>25, <1>26, <1>27, <1>28, <1>29 DEF FundingNext, ServeStep, Decide

LEMMA SurplusIsInt == FundingInv => Surplus \in Int
BY TotalsType, SurplusIs

LEMMA SurplusIsIntNext ==
  ASSUME FundingInv'
  PROVE  Surplus' \in Int
<1>1. (FundingInv => Surplus \in Int)'
  BY SurplusIsInt, PTL
<1> QED
  BY <1>1

\* As long as no write was refused the books are even, or short of what a stop
\* lost.
BooksEven == refused = 0 => Surplus <= 0 /\ (stops = 0 => Surplus = 0)

\* For any number of requests, accounts and handlers: every approved request is
\* credited once and in full, every redemption debited once, and only a stop
\* loses what a request had in hand.
THEOREM BooksAddUp == FundingSpec => []FundsAddUp
<1>1. FundingInit => BooksEven
  <2> SUFFICES ASSUME FundingInit PROVE BooksEven
    OBVIOUS
  <2>1. /\ \A r \in AllRequests : ConfirmedBy[r] = 0 /\ AskedBy[r] = 0
        /\ \A h \in Handlers : HandOf[h] = 0
        /\ \A p \in Parties : partyBalance[p] = 0
        /\ \A c \in Captains : dmc[c] = 0 /\ collateral[c] = 0 /\ working[c] = 0
    BY DEF FundingInit, ConfirmedBy, AskedBy, HandOf, Confirmed, AskedBack, Redeemed, OnHand, Free
  <2>2. Receipts = 0 /\ Asked = 0 /\ Hands = 0
    BY <2>1, FundingFiniteAssumption, TotalZero DEF Receipts, Asked, Hands
  <2>3. PartyDmcs = 0 /\ Dmcs = 0 /\ Securities = 0 /\ Workings = 0
    BY <2>1, FundingFiniteAssumption, TotalZero DEF PartyDmcs, Dmcs, Securities, Workings
  <2>4. poolBalance = 0 /\ funded = 0
    BY DEF FundingInit
  <2>5. Surplus = 0
    BY <2>2, <2>3, <2>4 DEF Surplus
  <2> QED
    BY <2>5 DEF BooksEven
<1>2. FundingInv /\ FundingInv' /\ BooksEven /\ [FundingNext]_fundingVars => BooksEven'
  <2> SUFFICES ASSUME FundingInv, FundingInv', BooksEven, [FundingNext]_fundingVars, refused' = 0
               PROVE  Surplus' <= 0 /\ (stops' = 0 => Surplus' = 0)
    BY DEF BooksEven
  <2>1. PICK x \in Int, y \in Int : x = Surplus /\ y = Surplus'
    <3>1. Surplus \in Int
      BY SurplusIsInt
    <3>2. Surplus' \in Int
      BY SurplusIsIntNext
    <3> QED
      BY <3>1, <3>2
  <2>2. PICK f \in Nat, n \in Nat : f = refused /\ n = stops
    BY DEF FundingInv, FaultsInv
  <2>3. CASE refused' = refused /\ stops' = stops
    BY <2>1, <2>3, BooksStep DEF BooksEven
  <2>4. CASE refused' = refused + 1
    BY <2>2, <2>4
  <2>5. CASE ProcessStops
    <3>1. refused = 0 /\ stops' = n + 1
      BY <2>2, <2>5 DEF ProcessStops
    <3>2. x <= 0 /\ y <= x
      BY <2>1, <2>5, <3>1, CrashLoses DEF BooksEven
    <3> QED
      BY <2>1, <2>2, <3>1, <3>2
  <2> QED
    BY <2>3, <2>4, <2>5, FaultsMove
<1>3. FundingInv /\ BooksEven => FundsAddUp
  <2> SUFFICES ASSUME FundingInv, BooksEven, refused = 0
               PROVE  IF stops = 0 THEN WhereItIs = CameIn ELSE WhereItIs <= CameIn
    BY DEF FundsAddUp
  <2>1. PICK x \in Int, y \in Int : x = Surplus /\ y = WhereItIs /\ CameIn = y - x
    BY TotalsType, SurplusIs
  <2>2. x <= 0 /\ (stops = 0 => x = 0)
    BY <2>1 DEF BooksEven
  <2> QED
    BY <2>1, <2>2
<1>4. FundingSpec => [](FundingInv /\ BooksEven)
  BY <1>1, <1>2, FundingStarts, FundingStep, PTL DEF FundingSpec
<1> QED
  BY <1>3, <1>4, PTL

-----------------------------------------------------------------------------
(* Commission *)

SpentBy(k) == [r \in AllRequests |-> FeeSpent(r, k)]
FeeHeldFor(k) == [h \in Handlers |-> FeeInHand(h, k)]

Spent(k) == Total(SpentBy(k), AllRequests)
FeesHeld(k) == Total(FeeHeldFor(k), Handlers)

\* What there is of the commission of k beyond what they were paid.
FeeSurplus(k) == earned[k] + Spent(k) + FeesHeld(k) - commissions[k]

FeesAreInts(k) ==
  /\ earned[k] \in Int /\ commissions[k] \in Int /\ Spent(k) \in Int /\ FeesHeld(k) \in Nat

LEMMA FeeTypes ==
  ASSUME FundingInv, NEW k \in Captains
  PROVE  /\ \A r \in AllRequests : FeeSpent(r, k) \in Nat
         /\ \A h \in Handlers : FeeInHand(h, k) \in Nat
BY DEF FundingInv, FundingRowsInv, HandlersInv, Serving, FeeSpent, FeeInHand

LEMMA FeeTypesNext ==
  ASSUME FundingInv', NEW k \in Captains
  PROVE  /\ \A r \in AllRequests : FeeSpent(r, k)' \in Nat
         /\ \A h \in Handlers : FeeInHand(h, k)' \in Nat
BY DEF FundingInv, FundingRowsInv, HandlersInv, Serving, FeeSpent, FeeInHand

LEMMA FeesType ==
  ASSUME FundingInv, NEW k \in Captains
  PROVE  FeesAreInts(k)
<1>1. \A r \in AllRequests : SpentBy(k)[r] \in Int
  BY FeeTypes DEF SpentBy
<1>2. \A h \in Handlers : FeeHeldFor(k)[h] \in Nat
  BY FeeTypes DEF FeeHeldFor
<1>3. Spent(k) \in Int /\ FeesHeld(k) \in Nat
  BY <1>1, <1>2, FundingFiniteAssumption, TotalInt, TotalNat DEF Spent, FeesHeld
<1> QED
  BY <1>3 DEF FeesAreInts, FundingInv, BalancesInv

LEMMA KeptIs ==
  ASSUME FundingInv, NEW k \in Captains
  PROVE  FeeSurplus(k) \in Int /\ Kept(k) = FeeSurplus(k) + commissions[k]
<1>1. Kept(k) = earned[k] + Spent(k) + FeesHeld(k)
  BY DEF Kept, Spent, FeesHeld, SpentBy, FeeHeldFor
<1>2. PICK e \in Int, s \in Int, g \in Int, m \in Int :
        e = earned[k] /\ s = Spent(k) /\ g = FeesHeld(k) /\ m = commissions[k]
  BY FeesType DEF FeesAreInts
<1>3. FeeSurplus(k) = e + s + g - m
  BY <1>2 DEF FeeSurplus
<1> QED
  BY <1>1, <1>2, <1>3

LEMMA FeesSpentMove ==
  ASSUME FundingInv, FundingInv', NEW k \in Captains, NEW r \in AllRequests,
         \A q \in AllRequests \ {r} : status'[q] = status[q] /\ consumed'[q] = consumed[q]
  PROVE  Spent(k)' = Spent(k) + FeeSpent(r, k)' - FeeSpent(r, k)
<1> DEFINE f == SpentBy(k)
           g == [q \in AllRequests |-> FeeSpent(q, k)']
<1>1. g = SpentBy(k)'
  BY DEF SpentBy
<1>2. \A q \in AllRequests \ {r} : g[q] = f[q]
  BY DEF SpentBy, FeeSpent, Redeemed
<1>3. \A q \in AllRequests : f[q] \in Int /\ g[q] \in Int
  BY FeeTypes, FeeTypesNext DEF SpentBy
<1>4. f[r] = FeeSpent(r, k) /\ g[r] = FeeSpent(r, k)' /\ IsFiniteSet(AllRequests)
  BY FundingFiniteAssumption DEF SpentBy
<1>5. Total(g, AllRequests) = Spent(k)' /\ Total(f, AllRequests) = Spent(k)
  BY <1>1 DEF Spent
<1> HIDE DEF f, g
<1>6. Total(g, AllRequests) = Total(f, AllRequests) + g[r] - f[r]
  BY <1>2, <1>3, <1>4, TotalOneChanges
<1> QED
  BY <1>4, <1>5, <1>6

LEMMA SpentStands ==
  ASSUME NEW k \in Captains, UNCHANGED consumed,
         \A r \in AllRequests : Redeemed(r)' <=> Redeemed(r)
  PROVE  Spent(k)' = Spent(k)
<1>1. SpentBy(k)' = SpentBy(k)
  BY DEF SpentBy, FeeSpent
<1> QED
  BY <1>1 DEF Spent

LEMMA FeesHeldMove ==
  ASSUME FundingInv, FundingInv', NEW k \in Captains, NEW h \in Handlers,
         \A g \in Handlers \ {h} : serving'[g] = serving[g]
  PROVE  FeesHeld(k)' = FeesHeld(k) + FeeInHand(h, k)' - FeeInHand(h, k)
<1> DEFINE f == FeeHeldFor(k)
           g == [q \in Handlers |-> FeeInHand(q, k)']
<1>1. g = FeeHeldFor(k)'
  BY DEF FeeHeldFor
<1>2. \A q \in Handlers \ {h} : g[q] = f[q]
  BY DEF FeeHeldFor, FeeInHand
<1>3. \A q \in Handlers : f[q] \in Int /\ g[q] \in Int
  BY FeeTypes, FeeTypesNext DEF FeeHeldFor
<1>4. f[h] = FeeInHand(h, k) /\ g[h] = FeeInHand(h, k)' /\ IsFiniteSet(Handlers)
  BY FundingFiniteAssumption DEF FeeHeldFor
<1>5. Total(g, Handlers) = FeesHeld(k)' /\ Total(f, Handlers) = FeesHeld(k)
  BY <1>1 DEF FeesHeld
<1> HIDE DEF f, g
<1>6. Total(g, Handlers) = Total(f, Handlers) + g[h] - f[h]
  BY <1>2, <1>3, <1>4, TotalOneChanges
<1> QED
  BY <1>4, <1>5, <1>6

LEMMA FeesHeldStand ==
  ASSUME FundingInv, FundingInv', NEW k \in Captains, NEW h \in Handlers,
         \A g \in Handlers \ {h} : serving'[g] = serving[g], FeeInHand(h, k)' = FeeInHand(h, k)
  PROVE  FeesHeld(k)' = FeesHeld(k)
<1>1. PICK g \in Int, e \in Int : g = FeesHeld(k) /\ e = FeeInHand(h, k)
  BY FeesType, FeeTypes DEF FeesAreInts
<1>2. FeesHeld(k)' = g + e - e
  BY <1>1, FeesHeldMove
<1> QED
  BY <1>1, <1>2

LEMMA FeesHeldSame ==
  ASSUME NEW k \in Captains, serving' = serving
  PROVE  FeesHeld(k)' = FeesHeld(k)
BY DEF FeesHeld, FeeHeldFor, FeeInHand

\* A step moves what k earned, spent, is due back and was paid by so much,
\* and what it moves into one comes out of another, or is a commission.
FeeMove(k, e, s, g, m) ==
  /\ e \in Int /\ s \in Int /\ g \in Int /\ m \in Int
  /\ earned'[k] = earned[k] + e /\ Spent(k)' = Spent(k) + s
  /\ FeesHeld(k)' = FeesHeld(k) + g /\ commissions'[k] = commissions[k] + m
  /\ e + s + g = m

LEMMA FeesBalanced ==
  ASSUME FundingInv, NEW k \in Captains, NEW e, NEW s, NEW g, NEW m, FeeMove(k, e, s, g, m)
  PROVE  FeeSurplus(k)' = FeeSurplus(k)
<1>1. PICK x \in Int, y \in Int, z \in Int, o \in Int :
        x = earned[k] /\ y = Spent(k) /\ z = FeesHeld(k) /\ o = commissions[k]
  BY FeesType DEF FeesAreInts
<1>2. FeeSurplus(k) = x + y + z - o
  BY <1>1 DEF FeeSurplus
<1>3. FeeSurplus(k)' = (x + e) + (y + s) + (z + g) - (o + m)
  BY <1>1 DEF FeeSurplus, FeeMove
<1>4. e \in Int /\ s \in Int /\ g \in Int /\ m \in Int /\ e + s + g = m
  BY DEF FeeMove
<1> QED
  BY <1>2, <1>3, <1>4

LEMMA FeesStill ==
  ASSUME NEW k \in Captains, UNCHANGED <<earned, commissions>>,
         Spent(k)' = Spent(k), FeesHeld(k)' = FeesHeld(k)
  PROVE  FeeSurplus(k)' = FeeSurplus(k)
BY DEF FeeSurplus

LEMMA FeesStep ==
  ASSUME FundingInv, FundingInv', [FundingNext]_fundingVars, ~ProcessStops, NEW k \in Captains
  PROVE  FeeSurplus(k)' = FeeSurplus(k)
<1>0. FundingRowsInv /\ BalancesInv /\ HandlersInv /\ FaultsInv
  BY DEF FundingInv
<1> USE <1>0
<1>1. ASSUME NEW h \in Handlers, InsertRow(h)
      PROVE  FeeSurplus(k)' = FeeSurplus(k)
  <2>1. UNCHANGED <<earned, commissions, consumed>>
    BY <1>1 DEF InsertRow, captainVars, requestVars
  <2>2. \A q \in AllRequests : Redeemed(q)' <=> Redeemed(q)
    BY <1>1
    DEF InsertRow, Redeemed, requestVars, Moves, FundingRowsInv, HandlersInv,
        HandlerKnows, On, AllRequests, CaptainRequests
  <2>3. Spent(k)' = Spent(k)
    BY <2>1, <2>2, SpentStands
  <2>4. \A g \in Handlers \ {h} : serving'[g] = serving[g]
    BY <1>1 DEF InsertRow, HandlersInv, Serve, End, GoOn
  <2>5. FeeInHand(h, k)' = FeeInHand(h, k)
    BY <1>1
    DEF InsertRow, FeeInHand, HandlersInv, Serving, On, Serve, End, GoOn, Free
  <2>6. FeesHeld(k)' = FeesHeld(k)
    BY <2>4, <2>5, FeesHeldStand
  <2> QED
    BY <2>1, <2>3, <2>6, FeesStill
<1>2. ASSUME NEW h \in Handlers, CreditTopUp(h)
      PROVE  FeeSurplus(k)' = FeeSurplus(k)
  <2>1. UNCHANGED <<earned, commissions, consumed>>
    BY <1>2 DEF CreditTopUp, captainVars, requestVars
  <2>2. \A q \in AllRequests : Redeemed(q)' <=> Redeemed(q)
    BY <1>2 DEF CreditTopUp, Redeemed, requestVars
  <2>3. Spent(k)' = Spent(k)
    BY <2>1, <2>2, SpentStands
  <2>4. \A g \in Handlers \ {h} : serving'[g] = serving[g]
    BY <1>2 DEF CreditTopUp, HandlersInv, Serve, End, GoOn
  <2>5. FeeInHand(h, k)' = FeeInHand(h, k)
    BY <1>2 DEF CreditTopUp, FeeInHand, HandlersInv, Serving, On, Serve, End, GoOn, Free
  <2>6. FeesHeld(k)' = FeesHeld(k)
    BY <2>4, <2>5, FeesHeldStand
  <2> QED
    BY <2>1, <2>3, <2>6, FeesStill
<1>3. ASSUME NEW h \in Handlers, CreditDeposit(h)
      PROVE  FeeSurplus(k)' = FeeSurplus(k)
  <2>1. UNCHANGED <<earned, commissions, consumed>>
    BY <1>3 DEF CreditDeposit, captainVars, requestVars
  <2>2. \A q \in AllRequests : Redeemed(q)' <=> Redeemed(q)
    BY <1>3 DEF CreditDeposit, Redeemed, requestVars
  <2>3. Spent(k)' = Spent(k)
    BY <2>1, <2>2, SpentStands
  <2>4. \A g \in Handlers \ {h} : serving'[g] = serving[g]
    BY <1>3 DEF CreditDeposit, HandlersInv, Serve, End, GoOn
  <2>5. FeeInHand(h, k)' = FeeInHand(h, k)
    BY <1>3
    DEF CreditDeposit, FeeInHand, HandlersInv, Serving, On, Serve, End, GoOn, Free
  <2>6. FeesHeld(k)' = FeesHeld(k)
    BY <2>4, <2>5, FeesHeldStand
  <2> QED
    BY <2>1, <2>3, <2>6, FeesStill
<1>4. ASSUME NEW h \in Handlers, CreditLimitPurchase(h)
      PROVE  FeeSurplus(k)' = FeeSurplus(k)
  <2>1. UNCHANGED <<earned, commissions, consumed>>
    BY <1>4 DEF CreditLimitPurchase, CeilingOf, captainVars, requestVars
  <2>2. \A q \in AllRequests : Redeemed(q)' <=> Redeemed(q)
    BY <1>4 DEF CreditLimitPurchase, CeilingOf, Redeemed, requestVars
  <2>3. Spent(k)' = Spent(k)
    BY <2>1, <2>2, SpentStands
  <2>4. \A g \in Handlers \ {h} : serving'[g] = serving[g]
    BY <1>4 DEF CreditLimitPurchase, CeilingOf, HandlersInv, Serve, End, GoOn
  <2>5. FeeInHand(h, k)' = FeeInHand(h, k)
    BY <1>4
    DEF CreditLimitPurchase, CeilingOf, FeeInHand, HandlersInv, Serving, On, Serve,
        End, GoOn, Free
  <2>6. FeesHeld(k)' = FeesHeld(k)
    BY <2>4, <2>5, FeesHeldStand
  <2> QED
    BY <2>1, <2>3, <2>6, FeesStill
<1>5. ASSUME NEW h \in Handlers, InsertRedemption(h)
      PROVE  FeeSurplus(k)' = FeeSurplus(k)
  <2>1. PICK r \in Redemptions, c \in Captains, x \in Int :
          r = serving[h].r /\ c = serving[h].c /\ c = Owner[r] /\ x = serving[h].fee /\ r \in AllRequests
    BY <1>5, OwnerOK
    DEF InsertRedemption, On, HandlersInv, HandlerKnows, Serving, CaptainRequests
  <2>2. PICK e \in Int : e = IF k = c THEN x ELSE 0
    BY <2>1
  <2>3. PICK z \in Int : z = 0 - e
    OBVIOUS
  <2>4. PICK y \in Int, w \in Int : y = earned[k] /\ w = commissions[k]
    BY DEF BalancesInv
  <2>5. earned'[k] = earned[k] + 0
    BY <1>5, <2>4 DEF InsertRedemption, captainVars
  <2>6. commissions'[k] = commissions[k] + 0
    BY <1>5, <2>4 DEF InsertRedemption, captainVars
  <2>7. \A q \in AllRequests \ {r} : status'[q] = status[q] /\ consumed'[q] = consumed[q]
    BY <1>5, <2>1 DEF InsertRedemption, Moves, FundingRowsInv
  <2>8. FeeSpent(r, k) = 0 /\ FeeSpent(r, k)' = e
    BY <1>5, <2>1, <2>2 DEF InsertRedemption, Moves, FundingRowsInv, FeeSpent, Redeemed
  <2>9. Spent(k)' = Spent(k) + e - 0
    BY <2>1, <2>7, <2>8, FeesSpentMove
  <2>10. \A g \in Handlers \ {h} : serving'[g] = serving[g]
    BY <1>5 DEF InsertRedemption, HandlersInv, Serve, End
  <2>11. FeeInHand(h, k) = e /\ FeeInHand(h, k)' = 0
    BY <1>5, <2>1, <2>2
    DEF InsertRedemption, FeeInHand, HandlersInv, Serving, On, Serve, End, Free
  <2>12. FeesHeld(k)' = FeesHeld(k) + 0 - e
    BY <2>10, <2>11, FeesHeldMove
  <2>13. PICK i \in Int, j \in Int : i = Spent(k) /\ j = FeesHeld(k)
    BY FeesType DEF FeesAreInts
  <2>14. FeeMove(k, 0, e, z, 0)
    BY <2>2, <2>3, <2>5, <2>6, <2>9, <2>12, <2>13 DEF FeeMove
  <2> QED
    BY <2>14, FeesBalanced
<1>6. ASSUME NEW h \in Handlers, InsertFails(h)
      PROVE  FeeSurplus(k)' = FeeSurplus(k)
  <2>1. UNCHANGED <<earned, commissions, consumed>>
    BY <1>6 DEF InsertFails, Refused, captainVars, requestVars
  <2>2. \A q \in AllRequests : Redeemed(q)' <=> Redeemed(q)
    BY <1>6 DEF InsertFails, Refused, Redeemed, requestVars
  <2>3. Spent(k)' = Spent(k)
    BY <2>1, <2>2, SpentStands
  <2>4. \A g \in Handlers \ {h} : serving'[g] = serving[g]
    BY <1>6 DEF InsertFails, Refused, HandlersInv, Serve, End, GoOn
  <2>5. FeeInHand(h, k)' = FeeInHand(h, k)
    BY <1>6
    DEF InsertFails, Refused, FeeInHand, HandlersInv, Serving, On, Serve, End, GoOn,
        Free
  <2>6. FeesHeld(k)' = FeesHeld(k)
    BY <2>4, <2>5, FeesHeldStand
  <2> QED
    BY <2>1, <2>3, <2>6, FeesStill
<1>7. ASSUME NEW h \in Handlers, GiveBack(h)
      PROVE  FeeSurplus(k)' = FeeSurplus(k)
  <2>1. PICK c \in Captains, x \in Int :
          c = serving[h].c /\ x = serving[h].fee
    BY <1>7 DEF GiveBack, On, HandlersInv, HandlerKnows, Serving
  <2>2. PICK e \in Int : e = IF k = c THEN x ELSE 0
    BY <2>1
  <2>3. PICK z \in Int : z = 0 - e
    OBVIOUS
  <2>4. PICK y \in Int, w \in Int : y = earned[k] /\ w = commissions[k]
    BY DEF BalancesInv
  <2>5. earned' = [earned EXCEPT ![c] = @ + x]
    BY <1>7, <2>1 DEF GiveBack
  <2>6. earned'[k] = earned[k] + e
    BY <2>1, <2>2, <2>3, <2>4, <2>5 DEF BalancesInv
  <2>7. commissions'[k] = commissions[k] + 0
    BY <1>7, <2>4 DEF GiveBack, captainVars
  <2>8. UNCHANGED consumed /\ \A q \in AllRequests : Redeemed(q)' <=> Redeemed(q)
    BY <1>7 DEF GiveBack, Redeemed, requestVars
  <2>9. Spent(k)' = Spent(k)
    BY <2>8, SpentStands
  <2>10. \A g \in Handlers \ {h} : serving'[g] = serving[g]
    BY <1>7 DEF GiveBack, HandlersInv, Serve, End
  <2>11. FeeInHand(h, k) = e /\ FeeInHand(h, k)' = 0
    BY <1>7, <2>1, <2>2
    DEF GiveBack, FeeInHand, HandlersInv, Serving, On, Serve, End, Free
  <2>12. FeesHeld(k)' = FeesHeld(k) + 0 - e
    BY <2>10, <2>11, FeesHeldMove
  <2>13. PICK i \in Int, j \in Int : i = Spent(k) /\ j = FeesHeld(k)
    BY FeesType DEF FeesAreInts
  <2>14. FeeMove(k, e, 0, z, 0)
    BY <2>2, <2>3, <2>6, <2>7, <2>9, <2>12, <2>13 DEF FeeMove
  <2> QED
    BY <2>14, FeesBalanced
<1>8. ASSUME NEW h \in Handlers, CreditShare(h)
      PROVE  FeeSurplus(k)' = FeeSurplus(k)
  <2>1. PICK c \in Captains, x \in Int :
          c = serving[h].c /\ x = serving[h].amount
    BY <1>8 DEF CreditShare, On, HandlersInv, HandlerKnows, Serving
  <2>2. PICK e \in Int : e = IF k = c THEN x ELSE 0
    BY <2>1
  <2>3. PICK z \in Int : z = 0 - e
    OBVIOUS
  <2>4. PICK y \in Int, w \in Int : y = earned[k] /\ w = commissions[k]
    BY DEF BalancesInv
  <2>5. earned' = [earned EXCEPT ![c] = @ + x]
    BY <1>8, <2>1 DEF CreditShare, CreditCaptain
  <2>6. earned'[k] = earned[k] + e
    BY <2>1, <2>2, <2>3, <2>4, <2>5 DEF BalancesInv
  <2>7. commissions' = [commissions EXCEPT ![c] = @ + x]
    BY <1>8, <2>1 DEF CreditShare, CreditCaptain
  <2>8. commissions'[k] = commissions[k] + e
    BY <2>1, <2>2, <2>3, <2>4, <2>7 DEF BalancesInv
  <2>9. UNCHANGED consumed /\ \A q \in AllRequests : Redeemed(q)' <=> Redeemed(q)
    BY <1>8 DEF CreditShare, CreditCaptain, Redeemed, requestVars
  <2>10. Spent(k)' = Spent(k)
    BY <2>9, SpentStands
  <2>11. \A g \in Handlers \ {h} : serving'[g] = serving[g]
    BY <1>8 DEF CreditShare, CreditCaptain, HandlersInv, GoOn
  <2>12. FeeInHand(h, k)' = FeeInHand(h, k)
    BY <1>8 DEF CreditShare, CreditCaptain, FeeInHand, HandlersInv, Serving, On, GoOn
  <2>13. FeesHeld(k)' = FeesHeld(k)
    BY <2>11, <2>12, FeesHeldStand
  <2>14. PICK i \in Int, j \in Int : i = Spent(k) /\ j = FeesHeld(k)
    BY FeesType DEF FeesAreInts
  <2>15. FeeMove(k, e, 0, 0, e)
    BY <2>2, <2>3, <2>6, <2>8, <2>10, <2>13, <2>14 DEF FeeMove
  <2> QED
    BY <2>15, FeesBalanced
<1>9. ASSUME NEW h \in Handlers, WriteEntry(h)
      PROVE  FeeSurplus(k)' = FeeSurplus(k)
  <2>1. UNCHANGED <<earned, commissions, consumed>>
    BY <1>9 DEF WriteEntry, captainVars, requestVars
  <2>2. \A q \in AllRequests : Redeemed(q)' <=> Redeemed(q)
    BY <1>9 DEF WriteEntry, Redeemed, requestVars
  <2>3. Spent(k)' = Spent(k)
    BY <2>1, <2>2, SpentStands
  <2>4. \A g \in Handlers \ {h} : serving'[g] = serving[g]
    BY <1>9 DEF WriteEntry, HandlersInv, Serve, End, GoOn
  <2>5. FeeInHand(h, k)' = FeeInHand(h, k)
    BY <1>9 DEF WriteEntry, FeeInHand, HandlersInv, Serving, On, Serve, End, GoOn, Free
  <2>6. FeesHeld(k)' = FeesHeld(k)
    BY <2>4, <2>5, FeesHeldStand
  <2> QED
    BY <2>1, <2>3, <2>6, FeesStill
<1>10. ASSUME NEW h \in Handlers, ShareFails(h)
       PROVE  FeeSurplus(k)' = FeeSurplus(k)
  <2>1. UNCHANGED <<earned, commissions, consumed>>
    BY <1>10 DEF ShareFails, Refused, captainVars, requestVars
  <2>2. \A q \in AllRequests : Redeemed(q)' <=> Redeemed(q)
    BY <1>10 DEF ShareFails, Refused, Redeemed, requestVars
  <2>3. Spent(k)' = Spent(k)
    BY <2>1, <2>2, SpentStands
  <2>4. \A g \in Handlers \ {h} : serving'[g] = serving[g]
    BY <1>10 DEF ShareFails, Refused, HandlersInv, Serve, End, GoOn
  <2>5. FeeInHand(h, k)' = FeeInHand(h, k)
    BY <1>10
    DEF ShareFails, Refused, FeeInHand, HandlersInv, Serving, On, Serve, End, GoOn,
        Free
  <2>6. FeesHeld(k)' = FeesHeld(k)
    BY <2>4, <2>5, FeesHeldStand
  <2> QED
    BY <2>1, <2>3, <2>6, FeesStill
<1>11. ASSUME NEW h \in Handlers, CollectBack(h)
       PROVE  FeeSurplus(k)' = FeeSurplus(k)
  <2>1. UNCHANGED <<earned, commissions, consumed>>
    BY <1>11 DEF CollectBack, captainVars, requestVars
  <2>2. \A q \in AllRequests : Redeemed(q)' <=> Redeemed(q)
    BY <1>11 DEF CollectBack, Redeemed, requestVars
  <2>3. Spent(k)' = Spent(k)
    BY <2>1, <2>2, SpentStands
  <2>4. \A g \in Handlers \ {h} : serving'[g] = serving[g]
    BY <1>11 DEF CollectBack, HandlersInv, Serve, End, GoOn
  <2>5. FeeInHand(h, k)' = FeeInHand(h, k)
    BY <1>11
    DEF CollectBack, FeeInHand, HandlersInv, Serving, On, Serve, End, GoOn, Free
  <2>6. FeesHeld(k)' = FeesHeld(k)
    BY <2>4, <2>5, FeesHeldStand
  <2> QED
    BY <2>1, <2>3, <2>6, FeesStill
<1>12. ASSUME NEW h \in Handlers, NEW r \in AllRequests, RequestRead(h, r)
       PROVE  FeeSurplus(k)' = FeeSurplus(k)
  <2>1. UNCHANGED <<earned, commissions, consumed>>
    BY <1>12 DEF RequestRead, captainVars, requestVars
  <2>2. \A q \in AllRequests : Redeemed(q)' <=> Redeemed(q)
    BY <1>12 DEF RequestRead, Redeemed, requestVars
  <2>3. Spent(k)' = Spent(k)
    BY <2>1, <2>2, SpentStands
  <2>4. \A g \in Handlers \ {h} : serving'[g] = serving[g]
    BY <1>12 DEF RequestRead, HandlersInv, Serve, End, GoOn
  <2>5. FeeInHand(h, k)' = FeeInHand(h, k)
    BY <1>12
    DEF RequestRead, FeeInHand, HandlersInv, Serving, On, Serve, End, GoOn, Free
  <2>6. FeesHeld(k)' = FeesHeld(k)
    BY <2>4, <2>5, FeesHeldStand
  <2> QED
    BY <2>1, <2>3, <2>6, FeesStill
<1>13. ASSUME NEW h \in Handlers, NEW r \in AllRequests, Approve(h, r)
       PROVE  FeeSurplus(k)' = FeeSurplus(k)
  <2>1. UNCHANGED <<earned, commissions, consumed>>
    BY <1>13 DEF Approve, Approved, captainVars, requestVars
  <2>2. \A q \in AllRequests : Redeemed(q)' <=> Redeemed(q)
    BY <1>13
    DEF Approve, Approved, Redeemed, requestVars, Moves, FundingRowsInv, HandlersInv,
        HandlerKnows, On, AllRequests, CaptainRequests
  <2>3. Spent(k)' = Spent(k)
    BY <2>1, <2>2, SpentStands
  <2>4. \A g \in Handlers \ {h} : serving'[g] = serving[g]
    BY <1>13 DEF Approve, Approved, HandlersInv, Serve, End, GoOn
  <2>5. FeeInHand(h, k)' = FeeInHand(h, k)
    BY <1>13
    DEF Approve, Approved, FeeInHand, HandlersInv, Serving, On, Serve, End, GoOn, Free
  <2>6. FeesHeld(k)' = FeesHeld(k)
    BY <2>4, <2>5, FeesHeldStand
  <2> QED
    BY <2>1, <2>3, <2>6, FeesStill
<1>14. ASSUME NEW h \in Handlers, NEW r \in AllRequests, RedeemHold(h, r)
       PROVE  FeeSurplus(k)' = FeeSurplus(k)
  <2>1. PICK c \in Captains, x \in Int :
          c = Owner[r] /\ x = Smaller(Amount[r], earned[c])
    BY <1>14, OwnerOK, AmountOK
    DEF RedeemHold, Redeemable, CaptainRequests, Smaller, BalancesInv
  <2>2. PICK e \in Int : e = IF k = c THEN x ELSE 0
    BY <2>1
  <2>3. PICK z \in Int : z = 0 - e
    OBVIOUS
  <2>4. PICK y \in Int, w \in Int : y = earned[k] /\ w = commissions[k]
    BY DEF BalancesInv
  <2>5. earned' = [earned EXCEPT ![c] = @ - x]
    BY <1>14, <2>1 DEF RedeemHold, Redeemable, TakeForRedemption
  <2>6. earned'[k] = earned[k] + z
    BY <2>1, <2>2, <2>3, <2>4, <2>5 DEF BalancesInv
  <2>7. commissions'[k] = commissions[k] + 0
    BY <1>14, <2>4 DEF RedeemHold, Redeemable, TakeForRedemption, captainVars
  <2>8. UNCHANGED consumed /\ \A q \in AllRequests : Redeemed(q)' <=> Redeemed(q)
    BY <1>14
    DEF RedeemHold, Redeemable, TakeForRedemption, Redeemed, requestVars
  <2>9. Spent(k)' = Spent(k)
    BY <2>8, SpentStands
  <2>10. \A g \in Handlers \ {h} : serving'[g] = serving[g]
    BY <1>14 DEF RedeemHold, Redeemable, TakeForRedemption, HandlersInv, Serve, End
  <2>11. FeeInHand(h, k) = 0 /\ FeeInHand(h, k)' = e
    BY <1>14, <2>1, <2>2
    DEF RedeemHold, Redeemable, TakeForRedemption, FeeInHand, HandlersInv, Serving,
        On, Serve, End, Free
  <2>12. FeesHeld(k)' = FeesHeld(k) + e - 0
    BY <2>10, <2>11, FeesHeldMove
  <2>13. PICK i \in Int, j \in Int : i = Spent(k) /\ j = FeesHeld(k)
    BY FeesType DEF FeesAreInts
  <2>14. FeeMove(k, z, 0, e, 0)
    BY <2>2, <2>3, <2>6, <2>7, <2>9, <2>12, <2>13 DEF FeeMove
  <2> QED
    BY <2>14, FeesBalanced
<1>15. ASSUME NEW h \in Handlers, NEW r \in AllRequests,
             RejectRedemption(h, r)
      PROVE  FeeSurplus(k)' = FeeSurplus(k)
  <2>1. PICK c \in Captains, x \in Int :
          c = Owner[r] /\ x = consumed[r]
    BY <1>15, OwnerOK DEF RejectRedemption, FundingRowsInv, CaptainRequests
  <2>2. PICK e \in Int : e = IF k = c THEN x ELSE 0
    BY <2>1
  <2>3. PICK z \in Int : z = 0 - e
    OBVIOUS
  <2>4. PICK y \in Int, w \in Int : y = earned[k] /\ w = commissions[k]
    BY DEF BalancesInv
  <2>5. earned'[k] = earned[k] + 0
    BY <1>15, <2>4 DEF RejectRedemption, captainVars
  <2>6. commissions'[k] = commissions[k] + 0
    BY <1>15, <2>4 DEF RejectRedemption, captainVars
  <2>7. \A q \in AllRequests \ {r} : status'[q] = status[q] /\ consumed'[q] = consumed[q]
    BY <1>15, <2>1 DEF RejectRedemption, Moves, FundingRowsInv
  <2>8. FeeSpent(r, k) = e /\ FeeSpent(r, k)' = 0
    BY <1>15, <2>1, <2>2
    DEF RejectRedemption, Moves, FundingRowsInv, FeeSpent, Redeemed
  <2>9. Spent(k)' = Spent(k) + 0 - e
    BY <2>1, <2>7, <2>8, FeesSpentMove
  <2>10. \A g \in Handlers \ {h} : serving'[g] = serving[g]
    BY <1>15 DEF RejectRedemption, HandlersInv, Serve, End
  <2>11. FeeInHand(h, k) = 0 /\ FeeInHand(h, k)' = e
    BY <1>15, <2>1, <2>2
    DEF RejectRedemption, FeeInHand, HandlersInv, Serving, On, Serve, End, Free
  <2>12. FeesHeld(k)' = FeesHeld(k) + e - 0
    BY <2>10, <2>11, FeesHeldMove
  <2>13. PICK i \in Int, j \in Int : i = Spent(k) /\ j = FeesHeld(k)
    BY FeesType DEF FeesAreInts
  <2>14. FeeMove(k, 0, z, e, 0)
    BY <2>2, <2>3, <2>5, <2>6, <2>9, <2>12, <2>13 DEF FeeMove
  <2> QED
    BY <2>14, FeesBalanced
<1>16. ASSUME NEW r \in AllRequests, RequestDeposit(r)
       PROVE  FeeSurplus(k)' = FeeSurplus(k)
  <2>1. UNCHANGED <<earned, commissions, consumed>>
    BY <1>16 DEF RequestDeposit, captainVars, requestVars
  <2>2. \A q \in AllRequests : Redeemed(q)' <=> Redeemed(q)
    BY <1>16
    DEF RequestDeposit, Redeemed, requestVars, Moves, FundingRowsInv, HandlersInv,
        HandlerKnows, On, AllRequests, CaptainRequests
  <2>3. Spent(k)' = Spent(k)
    BY <2>1, <2>2, SpentStands
  <2>4. serving' = serving
    BY <1>16 DEF RequestDeposit
  <2>5. FeesHeld(k)' = FeesHeld(k)
    BY <2>4, FeesHeldSame
  <2> QED
    BY <2>1, <2>3, <2>5, FeesStill
<1>17. ASSUME NEW r \in AllRequests, RedeemInTransaction(r)
       PROVE  FeeSurplus(k)' = FeeSurplus(k)
  <2>1. PICK c \in Captains, x \in Int :
          c = Owner[r] /\ x = Smaller(Amount[r], earned[c])
    BY <1>17, OwnerOK, AmountOK
    DEF RedeemInTransaction, Redeemable, CaptainRequests, Smaller, BalancesInv
  <2>2. PICK e \in Int : e = IF k = c THEN x ELSE 0
    BY <2>1
  <2>3. PICK z \in Int : z = 0 - e
    OBVIOUS
  <2>4. PICK y \in Int, w \in Int : y = earned[k] /\ w = commissions[k]
    BY DEF BalancesInv
  <2>5. earned' = [earned EXCEPT ![c] = @ - x]
    BY <1>17, <2>1 DEF RedeemInTransaction, Redeemable, TakeForRedemption
  <2>6. earned'[k] = earned[k] + z
    BY <2>1, <2>2, <2>3, <2>4, <2>5 DEF BalancesInv
  <2>7. commissions'[k] = commissions[k] + 0
    BY <1>17, <2>4
    DEF RedeemInTransaction, Redeemable, TakeForRedemption, captainVars
  <2>8. \A q \in AllRequests \ {r} : status'[q] = status[q] /\ consumed'[q] = consumed[q]
    BY <1>17, <2>1
    DEF RedeemInTransaction, Redeemable, TakeForRedemption, Moves, FundingRowsInv
  <2>9. FeeSpent(r, k) = 0 /\ FeeSpent(r, k)' = e
    BY <1>17, <2>1, <2>2
    DEF RedeemInTransaction, Redeemable, TakeForRedemption, Moves, FundingRowsInv,
        FeeSpent, Redeemed
  <2>10. Spent(k)' = Spent(k) + e - 0
    BY <2>1, <2>8, <2>9, FeesSpentMove
  <2>11. serving' = serving
    BY <1>17 DEF RedeemInTransaction, Redeemable, TakeForRedemption
  <2>12. FeesHeld(k)' = FeesHeld(k)
    BY <2>11, FeesHeldSame
  <2>13. PICK i \in Int, j \in Int : i = Spent(k) /\ j = FeesHeld(k)
    BY FeesType DEF FeesAreInts
  <2>14. FeeMove(k, z, e, 0, 0)
    BY <2>2, <2>3, <2>6, <2>7, <2>10, <2>12, <2>13 DEF FeeMove
  <2> QED
    BY <2>14, FeesBalanced
<1>18. ASSUME NEW r \in AllRequests, MarkPaid(r)
       PROVE  FeeSurplus(k)' = FeeSurplus(k)
  <2>1. UNCHANGED <<earned, commissions, consumed>>
    BY <1>18 DEF MarkPaid, captainVars, requestVars
  <2>2. \A q \in AllRequests : Redeemed(q)' <=> Redeemed(q)
    BY <1>18
    DEF MarkPaid, Redeemed, requestVars, Moves, FundingRowsInv, HandlersInv, HandlerKnows,
        On, AllRequests, CaptainRequests
  <2>3. Spent(k)' = Spent(k)
    BY <2>1, <2>2, SpentStands
  <2>4. serving' = serving
    BY <1>18 DEF MarkPaid
  <2>5. FeesHeld(k)' = FeesHeld(k)
    BY <2>4, FeesHeldSame
  <2> QED
    BY <2>1, <2>3, <2>5, FeesStill
<1>19. ASSUME NEW r \in AllRequests, Reject(r)
       PROVE  FeeSurplus(k)' = FeeSurplus(k)
  <2>1. UNCHANGED <<earned, commissions, consumed>>
    BY <1>19 DEF Reject, captainVars, requestVars
  <2>2. \A q \in AllRequests : Redeemed(q)' <=> Redeemed(q)
    BY <1>19
    DEF Reject, Redeemed, requestVars, Moves, FundingRowsInv, HandlersInv, HandlerKnows, On,
        AllRequests, CaptainRequests
  <2>3. Spent(k)' = Spent(k)
    BY <2>1, <2>2, SpentStands
  <2>4. serving' = serving
    BY <1>19 DEF Reject
  <2>5. FeesHeld(k)' = FeesHeld(k)
    BY <2>4, FeesHeldSame
  <2> QED
    BY <2>1, <2>3, <2>5, FeesStill
<1>20. ASSUME NEW r \in AllRequests, MarkRedemptionPaid(r)
       PROVE  FeeSurplus(k)' = FeeSurplus(k)
  <2>1. UNCHANGED <<earned, commissions, consumed>>
    BY <1>20 DEF MarkRedemptionPaid, captainVars, requestVars
  <2>2. \A q \in AllRequests : Redeemed(q)' <=> Redeemed(q)
    BY <1>20
    DEF MarkRedemptionPaid, Redeemed, requestVars, Moves, FundingRowsInv, HandlersInv,
        HandlerKnows, On, AllRequests, CaptainRequests
  <2>3. Spent(k)' = Spent(k)
    BY <2>1, <2>2, SpentStands
  <2>4. serving' = serving
    BY <1>20 DEF MarkRedemptionPaid
  <2>5. FeesHeld(k)' = FeesHeld(k)
    BY <2>4, FeesHeldSame
  <2> QED
    BY <2>1, <2>3, <2>5, FeesStill
<1>21. ASSUME NEW c \in Captains, NEW share \in Shares,
             PayShareInTransaction(c, share)
      PROVE  FeeSurplus(k)' = FeeSurplus(k)
  <2>1. PICK x \in Int :
          x = share
    OBVIOUS
  <2>2. PICK e \in Int : e = IF k = c THEN x ELSE 0
    BY <2>1
  <2>3. PICK z \in Int : z = 0 - e
    OBVIOUS
  <2>4. PICK y \in Int, w \in Int : y = earned[k] /\ w = commissions[k]
    BY DEF BalancesInv
  <2>5. earned' = [earned EXCEPT ![c] = @ + x]
    BY <1>21, <2>1 DEF PayShareInTransaction, CreditCaptain
  <2>6. earned'[k] = earned[k] + e
    BY <2>1, <2>2, <2>3, <2>4, <2>5 DEF BalancesInv
  <2>7. commissions' = [commissions EXCEPT ![c] = @ + x]
    BY <1>21, <2>1 DEF PayShareInTransaction, CreditCaptain
  <2>8. commissions'[k] = commissions[k] + e
    BY <2>1, <2>2, <2>3, <2>4, <2>7 DEF BalancesInv
  <2>9. UNCHANGED consumed /\ \A q \in AllRequests : Redeemed(q)' <=> Redeemed(q)
    BY <1>21 DEF PayShareInTransaction, CreditCaptain, Redeemed, requestVars
  <2>10. Spent(k)' = Spent(k)
    BY <2>9, SpentStands
  <2>11. serving' = serving
    BY <1>21 DEF PayShareInTransaction, CreditCaptain
  <2>12. FeesHeld(k)' = FeesHeld(k)
    BY <2>11, FeesHeldSame
  <2>13. PICK i \in Int, j \in Int : i = Spent(k) /\ j = FeesHeld(k)
    BY FeesType DEF FeesAreInts
  <2>14. FeeMove(k, e, 0, 0, e)
    BY <2>2, <2>3, <2>6, <2>8, <2>10, <2>12, <2>13 DEF FeeMove
  <2> QED
    BY <2>14, FeesBalanced
<1>22. ASSUME NEW h \in Handlers, NEW c \in Captains, NEW share \in Shares,
             TakeShare(h, c, share)
      PROVE  FeeSurplus(k)' = FeeSurplus(k)
  <2>1. UNCHANGED <<earned, commissions, consumed>>
    BY <1>22 DEF TakeShare, captainVars, requestVars
  <2>2. \A q \in AllRequests : Redeemed(q)' <=> Redeemed(q)
    BY <1>22 DEF TakeShare, Redeemed, requestVars
  <2>3. Spent(k)' = Spent(k)
    BY <2>1, <2>2, SpentStands
  <2>4. \A g \in Handlers \ {h} : serving'[g] = serving[g]
    BY <1>22 DEF TakeShare, HandlersInv, Serve, End, GoOn
  <2>5. FeeInHand(h, k)' = FeeInHand(h, k)
    BY <1>22 DEF TakeShare, FeeInHand, HandlersInv, Serving, On, Serve, End, GoOn, Free
  <2>6. FeesHeld(k)' = FeesHeld(k)
    BY <2>4, <2>5, FeesHeldStand
  <2> QED
    BY <2>1, <2>3, <2>6, FeesStill
<1>23. ASSUME NEW share \in Shares, FundPool(share)
       PROVE  FeeSurplus(k)' = FeeSurplus(k)
  <2>1. UNCHANGED <<earned, commissions, consumed>>
    BY <1>23 DEF FundPool, captainVars, requestVars
  <2>2. \A q \in AllRequests : Redeemed(q)' <=> Redeemed(q)
    BY <1>23 DEF FundPool, Redeemed, requestVars
  <2>3. Spent(k)' = Spent(k)
    BY <2>1, <2>2, SpentStands
  <2>4. serving' = serving
    BY <1>23 DEF FundPool
  <2>5. FeesHeld(k)' = FeesHeld(k)
    BY <2>4, FeesHeldSame
  <2> QED
    BY <2>1, <2>3, <2>5, FeesStill
<1>24. ASSUME NEW c \in Captains, NEW amount \in Claims,
             TakeForClaim(c, amount)
      PROVE  FeeSurplus(k)' = FeeSurplus(k)
  <2>1. UNCHANGED <<earned, commissions, consumed>>
    BY <1>24 DEF TakeForClaim, captainVars, requestVars
  <2>2. \A q \in AllRequests : Redeemed(q)' <=> Redeemed(q)
    BY <1>24 DEF TakeForClaim, Redeemed, requestVars
  <2>3. Spent(k)' = Spent(k)
    BY <2>1, <2>2, SpentStands
  <2>4. serving' = serving
    BY <1>24 DEF TakeForClaim
  <2>5. FeesHeld(k)' = FeesHeld(k)
    BY <2>4, FeesHeldSame
  <2> QED
    BY <2>1, <2>3, <2>5, FeesStill
<1>25. ASSUME NEW c \in Captains, NEW amount \in Claims,
             ReturnFromClaim(c, amount)
      PROVE  FeeSurplus(k)' = FeeSurplus(k)
  <2>1. UNCHANGED <<earned, commissions, consumed>>
    BY <1>25 DEF ReturnFromClaim, captainVars, requestVars
  <2>2. \A q \in AllRequests : Redeemed(q)' <=> Redeemed(q)
    BY <1>25 DEF ReturnFromClaim, Redeemed, requestVars
  <2>3. Spent(k)' = Spent(k)
    BY <2>1, <2>2, SpentStands
  <2>4. serving' = serving
    BY <1>25 DEF ReturnFromClaim
  <2>5. FeesHeld(k)' = FeesHeld(k)
    BY <2>4, FeesHeldSame
  <2> QED
    BY <2>1, <2>3, <2>5, FeesStill
<1>26. ASSUME NEW c \in Captains, NEW ceiling \in Ceilings \cup {None},
             SetApprovedLimit(c, ceiling)
      PROVE  FeeSurplus(k)' = FeeSurplus(k)
  <2>1. UNCHANGED <<earned, commissions, consumed>>
    BY <1>26 DEF SetApprovedLimit, SetCeiling, captainVars, requestVars
  <2>2. \A q \in AllRequests : Redeemed(q)' <=> Redeemed(q)
    BY <1>26 DEF SetApprovedLimit, SetCeiling, Redeemed, requestVars
  <2>3. Spent(k)' = Spent(k)
    BY <2>1, <2>2, SpentStands
  <2>4. serving' = serving
    BY <1>26 DEF SetApprovedLimit, SetCeiling
  <2>5. FeesHeld(k)' = FeesHeld(k)
    BY <2>4, FeesHeldSame
  <2> QED
    BY <2>1, <2>3, <2>5, FeesStill
<1>27. ASSUME NEW c \in Captains, NEW grant \in Grants,
             RaiseCeiling(c, grant)
      PROVE  FeeSurplus(k)' = FeeSurplus(k)
  <2>1. UNCHANGED <<earned, commissions, consumed>>
    BY <1>27 DEF RaiseCeiling, SetCeiling, CeilingOf, captainVars, requestVars
  <2>2. \A q \in AllRequests : Redeemed(q)' <=> Redeemed(q)
    BY <1>27 DEF RaiseCeiling, SetCeiling, CeilingOf, Redeemed, requestVars
  <2>3. Spent(k)' = Spent(k)
    BY <2>1, <2>2, SpentStands
  <2>4. serving' = serving
    BY <1>27 DEF RaiseCeiling, SetCeiling, CeilingOf
  <2>5. FeesHeld(k)' = FeesHeld(k)
    BY <2>4, FeesHeldSame
  <2> QED
    BY <2>1, <2>3, <2>5, FeesStill
<1>28. CASE UNCHANGED fundingVars
  <2>1. UNCHANGED <<earned, commissions, consumed, status, serving>>
    BY <1>28 DEF fundingVars, captainVars, requestVars
  <2>2. \A q \in AllRequests : Redeemed(q)' <=> Redeemed(q)
    BY <2>1 DEF Redeemed
  <2> QED
    BY <2>1, <2>2, SpentStands, FeesHeldSame, FeesStill
<1> QED
  BY <1>1, <1>2, <1>3, <1>4, <1>5, <1>6, <1>7, <1>8, <1>9, <1>10, <1>11,
     <1>12, <1>13, <1>14, <1>15, <1>16, <1>17, <1>18, <1>19, <1>20, <1>21, <1>22,
     <1>23, <1>24, <1>25, <1>26, <1>27, <1>28 DEF FundingNext, ServeStep, Decide

LEMMA FeesCrash ==
  ASSUME FundingInv, ProcessStops, NEW k \in Captains
  PROVE  FeeSurplus(k)' <= FeeSurplus(k)
<1>1. /\ UNCHANGED <<earned, commissions, consumed, status>>
      /\ \A h \in Handlers : serving'[h] = Free
  BY DEF ProcessStops, requestVars, captainVars
<1>2. Spent(k)' = Spent(k)
  BY <1>1, SpentStands DEF Redeemed
<1>3. FeesHeld(k)' = 0
  <2> DEFINE f == [h \in Handlers |-> FeeInHand(h, k)']
  <2>1. f = FeeHeldFor(k)'
    BY DEF FeeHeldFor
  <2>2. \A h \in Handlers : f[h] = 0
    BY <1>1 DEF FeeInHand, Free
  <2> HIDE DEF f
  <2>3. Total(f, Handlers) = 0
    BY <2>2, FundingFiniteAssumption, TotalZero
  <2> QED
    BY <2>1, <2>3 DEF FeesHeld
<1>4. PICK x \in Int, y \in Int, g \in Nat, o \in Int :
        x = earned[k] /\ y = Spent(k) /\ g = FeesHeld(k) /\ o = commissions[k]
  BY FeesType DEF FeesAreInts
<1>5. FeeSurplus(k) = x + y + g - o /\ FeeSurplus(k)' = x + y + 0 - o
  BY <1>1, <1>2, <1>3, <1>4 DEF FeeSurplus
<1> QED
  BY <1>4, <1>5

LEMMA FeeSurplusIsInt == FundingInv => \A k \in Captains : FeeSurplus(k) \in Int
BY KeptIs

LEMMA FeeSurplusIsIntNext ==
  ASSUME FundingInv'
  PROVE  \A k \in Captains : FeeSurplus(k)' \in Int
<1>1. (FundingInv => \A k \in Captains : FeeSurplus(k) \in Int)'
  BY FeeSurplusIsInt, PTL
<1> QED
  BY <1>1

FeesEven ==
  \A k \in Captains : FeeSurplus(k) <= 0 /\ (stops = 0 => FeeSurplus(k) = 0)

\* For any number of captains, redemptions and handlers: what a captain was ever
\* paid as commission is retained, or was spent by a redemption that remembers
\* it, or is on its way back; only a stop loses any, and nothing adds to it.
THEOREM FeesStayFees == FundingSpec => []FeesAddUp
<1>1. FundingInit => FeesEven
  <2> SUFFICES ASSUME FundingInit, NEW k \in Captains PROVE FeeSurplus(k) = 0
    BY DEF FeesEven
  <2>1. /\ \A r \in AllRequests : SpentBy(k)[r] = 0
        /\ \A h \in Handlers : FeeHeldFor(k)[h] = 0
    BY DEF FundingInit, SpentBy, FeeHeldFor, FeeSpent, Redeemed, FeeInHand, Free
  <2>2. Spent(k) = 0 /\ FeesHeld(k) = 0
    BY <2>1, FundingFiniteAssumption, TotalZero DEF Spent, FeesHeld
  <2>3. earned[k] = 0 /\ commissions[k] = 0
    BY DEF FundingInit
  <2> QED
    BY <2>2, <2>3 DEF FeeSurplus
<1>2. FundingInv /\ FundingInv' /\ FeesEven /\ [FundingNext]_fundingVars => FeesEven'
  <2> SUFFICES ASSUME FundingInv, FundingInv', FeesEven, [FundingNext]_fundingVars, NEW k \in Captains
               PROVE  FeeSurplus(k)' <= 0 /\ (stops' = 0 => FeeSurplus(k)' = 0)
    BY DEF FeesEven
  <2>1. PICK x \in Int, y \in Int : x = FeeSurplus(k) /\ y = FeeSurplus(k)'
    BY KeptIs, FeeSurplusIsIntNext
  <2>2. PICK n \in Nat : n = stops
    BY DEF FundingInv, FaultsInv
  <2>3. x <= 0 /\ (n = 0 => x = 0)
    BY <2>1, <2>2 DEF FeesEven
  <2>4. CASE ProcessStops
    <3>1. stops' = n + 1 /\ y <= x
      BY <2>1, <2>2, <2>4, FeesCrash DEF ProcessStops
    <3> QED
      BY <2>1, <2>2, <2>3, <3>1
  <2>5. CASE ~ProcessStops
    <3>1. stops' = stops
      BY <2>5, FaultsMove
    <3>2. y = x
      BY <2>1, <2>5, FeesStep
    <3> QED
      BY <2>1, <2>2, <2>3, <3>1, <3>2
  <2> QED
    BY <2>4, <2>5
<1>3. FundingInv /\ FeesEven => FeesAddUp
  <2> SUFFICES ASSUME FundingInv, FeesEven, NEW k \in Captains
               PROVE  IF stops = 0 THEN Kept(k) = commissions[k] ELSE Kept(k) <= commissions[k]
    BY DEF FeesAddUp
  <2>1. PICK x \in Int, m \in Int : x = FeeSurplus(k) /\ m = commissions[k]
    BY KeptIs DEF FundingInv, BalancesInv
  <2>2. Kept(k) = x + m
    BY <2>1, KeptIs
  <2>3. x <= 0 /\ (stops = 0 => x = 0)
    BY <2>1 DEF FeesEven
  <2> QED
    BY <2>1, <2>2, <2>3
<1>4. FundingSpec => [](FundingInv /\ FeesEven)
  BY <1>1, <1>2, FundingStarts, FundingStep, PTL DEF FundingSpec
<1> QED
  BY <1>3, <1>4, PTL

=============================================================================
