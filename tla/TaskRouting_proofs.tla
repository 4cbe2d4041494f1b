------------------------- MODULE TaskRouting_proofs -------------------------
(***************************************************************************)
(* What holds of TaskRouting for every number of captains and requests.    *)
(***************************************************************************)
EXTENDS TaskRouting, TLAPS

USE RoutingAssumption

-----------------------------------------------------------------------------
(* Types *)

\* The steps of a job that is about one captain.
NamingPcs ==
  {"offer", "unstall", "row", "release", "miss", "count", "claim", "accept",
   "withdrawOthers"}

\* A job that is about a captain names them; only sweeps take offers back.
JobOK(j, w) ==
  /\ j.pc \in NamingPcs => j.c \in Captains
  /\ w \in Requests => j.pc \notin SweepPcs

\* A task somebody holds names who does.
TypeInv ==
  /\ RoutingTypeOK
  /\ status = "HELD" => captainId \in Captains
  /\ \A w \in Workers : JobOK(jobs[w], w)

\* The rows of a captain's offers, in any status.
RowsOf(o) == o["OFFERED"] + o["ACCEPTED"] + o["MISSED"] + o["WITHDRAWN"]

LEMMA MoveKeepsRows ==
  ASSUME NEW c \in Captains, offers \in [Captains -> [OFFER_STATUSES -> Nat]],
         NEW s \in {"MISSED", "WITHDRAWN"}
  PROVE  /\ MoveOffers(c, "OFFERED", s) \in [OFFER_STATUSES -> Nat]
         /\ RowsOf(MoveOffers(c, "OFFERED", s)) = RowsOf(offers[c])
BY DEF MoveOffers, OFFER_STATUSES, RowsOf

RowsOK ==
  /\ status \in Statuses
  /\ captainId \in Captains \cup {None} /\ offeredCaptainId \in Captains \cup {None}
  /\ offerLapsed \in BOOLEAN /\ openPool \in BOOLEAN /\ routingStalled \in BOOLEAN
  /\ offeredCaptainIds \subseteq Captains /\ previousCaptainIds \subseteq Captains
  /\ standing \in [Captains -> Standings] /\ crashes \in 0..MaxCrashes
  /\ status = "HELD" => captainId \in Captains

OffersOK ==
  offers \in [Captains -> [OFFER_STATUSES -> Nat]] /\ missed \in [Captains -> Nat]

JobsOK == jobs \in [Workers -> Job] /\ \A w \in Workers : JobOK(jobs[w], w)

LEMMA JobMoves ==
  ASSUME JobsOK, NEW w \in Workers, NEW j \in Job, JobOK(j, w),
         jobs' = [jobs EXCEPT ![w] = j]
  PROVE  JobsOK'
BY DEF JobsOK

LEMMA TypeParts == TypeInv <=> RowsOK /\ OffersOK /\ JobsOK
BY DEF TypeInv, RoutingTypeOK, RowsOK, OffersOK, JobsOK

LEMMA TypePartsNext == (TypeInv <=> RowsOK /\ OffersOK /\ JobsOK)'
BY TypeParts, PTL

LEMMA TypeInit == Init => TypeInv
<1> SUFFICES ASSUME Init
             PROVE  RowsOK /\ OffersOK /\ JobsOK
  BY TypeParts
<1>1. RowsOK
  <2>1. standing \in [Captains -> Standings]
    BY DEF Init, Standings
  <2>2. crashes \in 0..MaxCrashes
    BY DEF Init
  <2> QED
    BY <2>1, <2>2 DEF Init, RowsOK, Statuses
<1>2. OffersOK
  BY DEF Init, OffersOK, OFFER_STATUSES
<1>3. Idle \in Job
  BY DEF Idle, Job, Pcs
<1>4. JobsOK
  BY <1>3 DEF Init, JobsOK, JobOK, Idle, NamingPcs, SweepPcs
<1> QED
  BY <1>1, <1>2, <1>4

LEMMA TypeStep ==
  ASSUME RowsOK, OffersOK, JobsOK, [Next]_vars
  PROVE  /\ RowsOK'
         /\ OffersOK'
         /\ JobsOK'
<1>1. ASSUME NEW w \in Workers, OfferRead(w)
      PROVE  /\ RowsOK'
             /\ OffersOK'
             /\ JobsOK'
  <2>1. RowsOK'
    BY <1>1
    DEF OfferRead, At, EndJob, Claimable, Idle, taskVars, offerVars, RowsOK,
        Statuses, Standings, JobsOK, JobOK, NamingPcs, Workers
  <2>2. OffersOK'
    BY <1>1
    DEF OfferRead, At, EndJob, Claimable, Idle, taskVars, offerVars, OffersOK,
        JobsOK, JobOK, NamingPcs, OFFER_STATUSES
  <2>3. JobsOK'
    <3>1. jobs[w] \in Job
      BY <1>1 DEF JobsOK
    <3>2. CASE Claimable /\ ~openPool
      <4> DEFINE j == [jobs[w] EXCEPT !.pc = "rank", !.offered = offeredCaptainId,
                                      !.tried = offeredCaptainIds,
                                      !.barred = previousCaptainIds]
      <4>1. j \in Job /\ j.pc = "rank"
        BY <3>1 DEF RowsOK, Job, Pcs, RoutingPcs
      <4>2. jobs' = [jobs EXCEPT ![w] = j]
        BY <1>1, <3>2 DEF OfferRead
      <4> HIDE DEF j
      <4>3. JobOK(j, w)
        BY <4>1 DEF JobOK, NamingPcs, SweepPcs
      <4> QED
        BY <4>1, <4>2, <4>3, JobMoves
    <3>3. CASE ~(Claimable /\ ~openPool)
      BY <1>1, <3>3
      DEF OfferRead, EndJob, Idle, JobsOK, Job, JobOK, NamingPcs, Pcs,
          RoutingPcs, SweepPcs, ClaimPcs, ReturnPcs
    <3> QED
      BY <3>2, <3>3
  <2> QED
    BY <2>1, <2>2, <2>3
<1>2. ASSUME NEW w \in Workers, Rank(w)
      PROVE  /\ RowsOK'
             /\ OffersOK'
             /\ JobsOK'
  <2>1. RowsOK'
    BY <1>2
    DEF Rank, At, GoTo, Idle, taskVars, offerVars, RowsOK, Statuses,
        Standings, JobsOK, JobOK, NamingPcs, Workers
  <2>2. OffersOK'
    BY <1>2
    DEF Rank, At, GoTo, Idle, taskVars, offerVars, OffersOK, JobsOK, JobOK,
        NamingPcs, OFFER_STATUSES
  <2>3. JobsOK'
    <3>1. ASSUME NEW best \in Captains,
                 jobs' = [jobs EXCEPT ![w] = [Idle EXCEPT !.pc = "offer", !.c = best,
                                                          !.offered = jobs[w].offered]]
          PROVE  JobsOK'
      <4> DEFINE j == [Idle EXCEPT !.pc = "offer", !.c = best, !.offered = jobs[w].offered]
      <4>1. j \in Job /\ j.pc = "offer" /\ j.c = best
        BY DEF JobsOK, Idle, Job, JobOK, NamingPcs, Pcs, RoutingPcs, SweepPcs,
           ClaimPcs, ReturnPcs
      <4> HIDE DEF j
      <4>2. JobOK(j, w)
        BY <4>1 DEF JobOK, NamingPcs, SweepPcs
      <4> QED
        BY <3>1, <4>1, <4>2, JobMoves DEF j
    <3>2. ASSUME NEW p \in {"open", "drought", "stall"}, GoTo(w, p)
          PROVE  JobsOK'
      BY <3>2
      DEF GoTo, Idle, JobsOK, Job, JobOK, NamingPcs, Pcs, RoutingPcs,
          SweepPcs, ClaimPcs, ReturnPcs
    <3> QED
      BY <1>2, <3>1, <3>2 DEF Rank, Eligible
  <2> QED
    BY <2>1, <2>2, <2>3
<1>3. ASSUME NEW w \in Workers, MarkRoutingStalled(w)
      PROVE  /\ RowsOK'
             /\ OffersOK'
             /\ JobsOK'
  <2>1. RowsOK'
    BY <1>3
    DEF MarkRoutingStalled, SetStalled, At, EndJob, Idle, taskVars, offerVars,
        RowsOK, Statuses, Standings, JobsOK, JobOK, NamingPcs, Workers
  <2>2. OffersOK'
    BY <1>3
    DEF MarkRoutingStalled, SetStalled, At, EndJob, Idle, taskVars, offerVars,
        OffersOK, JobsOK, JobOK, NamingPcs, OFFER_STATUSES
  <2>3. JobsOK'
    BY <1>3
    DEF MarkRoutingStalled, SetStalled, At, EndJob, Idle, taskVars, offerVars,
        JobsOK, RowsOK, Workers, Eligible, Job, JobOK, NamingPcs, Pcs,
        RoutingPcs, SweepPcs, ClaimPcs, ReturnPcs
  <2> QED
    BY <2>1, <2>2, <2>3
<1>4. ASSUME NEW w \in Workers, ClearStalledInDrought(w)
      PROVE  /\ RowsOK'
             /\ OffersOK'
             /\ JobsOK'
  <2>1. RowsOK'
    BY <1>4
    DEF ClearStalledInDrought, SetStalled, At, EndJob, Idle, taskVars,
        offerVars, RowsOK, Statuses, Standings, JobsOK, JobOK, NamingPcs,
        Workers
  <2>2. OffersOK'
    BY <1>4
    DEF ClearStalledInDrought, SetStalled, At, EndJob, Idle, taskVars,
        offerVars, OffersOK, JobsOK, JobOK, NamingPcs, OFFER_STATUSES
  <2>3. JobsOK'
    BY <1>4
    DEF ClearStalledInDrought, SetStalled, At, EndJob, Idle, taskVars,
        offerVars, JobsOK, RowsOK, Workers, Eligible, Job, JobOK, NamingPcs,
        Pcs, RoutingPcs, SweepPcs, ClaimPcs, ReturnPcs
  <2> QED
    BY <2>1, <2>2, <2>3
<1>5. ASSUME NEW w \in Workers, ClearStalledOnceOffered(w)
      PROVE  /\ RowsOK'
             /\ OffersOK'
             /\ JobsOK'
  <2>1. RowsOK'
    BY <1>5
    DEF ClearStalledOnceOffered, SetStalled, At, GoTo, Idle, taskVars,
        offerVars, RowsOK, Statuses, Standings, JobsOK, JobOK, NamingPcs,
        Workers
  <2>2. OffersOK'
    BY <1>5
    DEF ClearStalledOnceOffered, SetStalled, At, GoTo, Idle, taskVars,
        offerVars, OffersOK, JobsOK, JobOK, NamingPcs, OFFER_STATUSES
  <2>3. JobsOK'
    BY <1>5
    DEF ClearStalledOnceOffered, SetStalled, At, GoTo, Idle, taskVars,
        offerVars, JobsOK, RowsOK, Workers, Eligible, Job, JobOK, NamingPcs,
        Pcs, RoutingPcs, SweepPcs, ClaimPcs, ReturnPcs
  <2> QED
    BY <2>1, <2>2, <2>3
<1>6. ASSUME NEW w \in Workers, OpenToPool(w)
      PROVE  /\ RowsOK'
             /\ OffersOK'
             /\ JobsOK'
  <2>1. RowsOK'
    BY <1>6
    DEF OpenToPool, At, EndJob, Claimable, Idle, taskVars, offerVars, RowsOK,
        Statuses, Standings, JobsOK, JobOK, NamingPcs, Workers
  <2>2. OffersOK'
    BY <1>6
    DEF OpenToPool, At, EndJob, Claimable, Idle, taskVars, offerVars,
        OffersOK, JobsOK, JobOK, NamingPcs, OFFER_STATUSES
  <2>3. JobsOK'
    BY <1>6
    DEF OpenToPool, At, EndJob, Claimable, Idle, taskVars, offerVars, JobsOK,
        RowsOK, Workers, Eligible, Job, JobOK, NamingPcs, Pcs, RoutingPcs,
        SweepPcs, ClaimPcs, ReturnPcs
  <2> QED
    BY <2>1, <2>2, <2>3
<1>7. ASSUME NEW w \in Workers, OfferWrite(w)
      PROVE  /\ RowsOK'
             /\ OffersOK'
             /\ JobsOK'
  <2>1. RowsOK'
    BY <1>7
    DEF OfferWrite, At, GoTo, Claimable, Idle, taskVars, offerVars, RowsOK,
        Statuses, Standings, JobsOK, JobOK, NamingPcs, Workers
  <2>2. OffersOK'
    BY <1>7
    DEF OfferWrite, At, GoTo, Claimable, Idle, taskVars, offerVars, OffersOK,
        JobsOK, JobOK, NamingPcs, OFFER_STATUSES
  <2>3. JobsOK'
    BY <1>7
    DEF OfferWrite, At, GoTo, Claimable, Idle, taskVars, offerVars, JobsOK,
        RowsOK, Workers, Eligible, Job, JobOK, NamingPcs, Pcs, RoutingPcs,
        SweepPcs, ClaimPcs, ReturnPcs
  <2> QED
    BY <2>1, <2>2, <2>3
<1>8. ASSUME NEW w \in Workers, OfferLost(w)
      PROVE  /\ RowsOK'
             /\ OffersOK'
             /\ JobsOK'
  <2>1. RowsOK'
    BY <1>8
    DEF OfferLost, At, EndJob, Claimable, Idle, taskVars, offerVars, RowsOK,
        Statuses, Standings, JobsOK, JobOK, NamingPcs, Workers
  <2>2. OffersOK'
    BY <1>8
    DEF OfferLost, At, EndJob, Claimable, Idle, taskVars, offerVars, OffersOK,
        JobsOK, JobOK, NamingPcs, OFFER_STATUSES
  <2>3. JobsOK'
    BY <1>8
    DEF OfferLost, At, EndJob, Claimable, Idle, taskVars, offerVars, JobsOK,
        RowsOK, Workers, Eligible, Job, JobOK, NamingPcs, Pcs, RoutingPcs,
        SweepPcs, ClaimPcs, ReturnPcs
  <2> QED
    BY <2>1, <2>2, <2>3
<1>9. ASSUME NEW w \in Workers, OfferRow(w)
      PROVE  /\ RowsOK'
             /\ OffersOK'
             /\ JobsOK'
  <2>1. RowsOK'
    BY <1>9
    DEF OfferRow, At, EndJob, Idle, taskVars, offerVars, RowsOK, Statuses,
        Standings, JobsOK, JobOK, NamingPcs, Workers
  <2>2. OffersOK'
    BY <1>9
    DEF OfferRow, At, EndJob, Idle, taskVars, offerVars, OffersOK, JobsOK,
        JobOK, NamingPcs, OFFER_STATUSES
  <2>3. JobsOK'
    BY <1>9
    DEF OfferRow, At, EndJob, Idle, taskVars, offerVars, JobsOK, RowsOK,
        Workers, Eligible, Job, JobOK, NamingPcs, Pcs, RoutingPcs, SweepPcs,
        ClaimPcs, ReturnPcs
  <2> QED
    BY <2>1, <2>2, <2>3
<1>10. ASSUME NEW w \in Workers, ReleaseOffer(w)
      PROVE  /\ RowsOK'
             /\ OffersOK'
             /\ JobsOK'
  <2>1. RowsOK'
    BY <1>10
    DEF ReleaseOffer, At, GoTo, EndJob, Idle, taskVars, offerVars, RowsOK,
        Statuses, Standings, JobsOK, JobOK, NamingPcs, Workers
  <2>2. OffersOK'
    BY <1>10
    DEF ReleaseOffer, At, GoTo, EndJob, Idle, taskVars, offerVars, OffersOK,
        JobsOK, JobOK, NamingPcs, OFFER_STATUSES
  <2>3. JobsOK'
    <3>1. CASE GoTo(w, "miss")
      BY <1>10, <3>1
      DEF ReleaseOffer, At, GoTo, Idle, JobsOK, Job, JobOK, NamingPcs, Pcs,
          RoutingPcs, SweepPcs, ClaimPcs, ReturnPcs
    <3>2. CASE EndJob(w)
      BY <1>10, <3>2
      DEF ReleaseOffer, At, EndJob, Idle, JobsOK, Job, JobOK, NamingPcs, Pcs,
          RoutingPcs, SweepPcs, ClaimPcs, ReturnPcs
    <3> QED
      BY <1>10, <3>1, <3>2 DEF ReleaseOffer
  <2> QED
    BY <2>1, <2>2, <2>3
<1>11. ASSUME NEW w \in Workers, MarkMissed(w)
      PROVE  /\ RowsOK'
             /\ OffersOK'
             /\ JobsOK'
  <2>1. RowsOK'
    BY <1>11, MoveKeepsRows
    DEF MarkMissed, At, GoTo, Idle, taskVars, offerVars, RowsOK, Statuses,
        Standings, JobsOK, JobOK, NamingPcs, Workers
  <2>2. OffersOK'
    BY <1>11, MoveKeepsRows
    DEF MarkMissed, At, GoTo, Idle, taskVars, offerVars, OffersOK, JobsOK,
        JobOK, NamingPcs, OFFER_STATUSES
  <2>3. JobsOK'
    BY <1>11, MoveKeepsRows
    DEF MarkMissed, At, GoTo, Idle, taskVars, offerVars, JobsOK, RowsOK,
        Workers, Eligible, Job, JobOK, NamingPcs, Pcs, RoutingPcs, SweepPcs,
        ClaimPcs, ReturnPcs
  <2> QED
    BY <2>1, <2>2, <2>3
<1>12. ASSUME NEW w \in Workers, CountMissed(w)
      PROVE  /\ RowsOK'
             /\ OffersOK'
             /\ JobsOK'
  <2>1. RowsOK'
    BY <1>12
    DEF CountMissed, At, StartRouting, Idle, taskVars, offerVars, RowsOK,
        Statuses, Standings, JobsOK, JobOK, NamingPcs, Workers
  <2>2. OffersOK'
    BY <1>12
    DEF CountMissed, At, StartRouting, Idle, taskVars, offerVars, OffersOK,
        JobsOK, JobOK, NamingPcs, OFFER_STATUSES
  <2>3. JobsOK'
    BY <1>12
    DEF CountMissed, At, StartRouting, Idle, taskVars, offerVars, JobsOK,
        RowsOK, Workers, Eligible, Job, JobOK, NamingPcs, Pcs, RoutingPcs,
        SweepPcs, ClaimPcs, ReturnPcs
  <2> QED
    BY <2>1, <2>2, <2>3
<1>13. ASSUME NEW w \in Workers, ClaimWrite(w)
      PROVE  /\ RowsOK'
             /\ OffersOK'
             /\ JobsOK'
  <2>1. RowsOK'
    BY <1>13
    DEF ClaimWrite, At, GoTo, Claimable, Idle, taskVars, offerVars, RowsOK,
        Statuses, Standings, JobsOK, JobOK, NamingPcs, Workers
  <2>2. OffersOK'
    BY <1>13
    DEF ClaimWrite, At, GoTo, Claimable, Idle, taskVars, offerVars, OffersOK,
        JobsOK, JobOK, NamingPcs, OFFER_STATUSES
  <2>3. JobsOK'
    BY <1>13
    DEF ClaimWrite, At, GoTo, Claimable, Idle, taskVars, offerVars, JobsOK,
        RowsOK, Workers, Eligible, Job, JobOK, NamingPcs, Pcs, RoutingPcs,
        SweepPcs, ClaimPcs, ReturnPcs
  <2> QED
    BY <2>1, <2>2, <2>3
<1>14. ASSUME NEW w \in Workers, ClaimRefused(w)
      PROVE  /\ RowsOK'
             /\ OffersOK'
             /\ JobsOK'
  <2>1. RowsOK'
    BY <1>14
    DEF ClaimRefused, At, EndJob, Claimable, Idle, taskVars, offerVars,
        RowsOK, Statuses, Standings, JobsOK, JobOK, NamingPcs, Workers
  <2>2. OffersOK'
    BY <1>14
    DEF ClaimRefused, At, EndJob, Claimable, Idle, taskVars, offerVars,
        OffersOK, JobsOK, JobOK, NamingPcs, OFFER_STATUSES
  <2>3. JobsOK'
    BY <1>14
    DEF ClaimRefused, At, EndJob, Claimable, Idle, taskVars, offerVars,
        JobsOK, RowsOK, Workers, Eligible, Job, JobOK, NamingPcs, Pcs,
        RoutingPcs, SweepPcs, ClaimPcs, ReturnPcs
  <2> QED
    BY <2>1, <2>2, <2>3
<1>15. ASSUME NEW w \in Workers, MarkOfferAccepted(w)
      PROVE  /\ RowsOK'
             /\ OffersOK'
             /\ JobsOK'
  <2>1. RowsOK'
    BY <1>15
    DEF MarkOfferAccepted, At, GoTo, Idle, taskVars, offerVars, RowsOK,
        Statuses, Standings, JobsOK, JobOK, NamingPcs, Workers
  <2>2. OffersOK'
    BY <1>15
    DEF MarkOfferAccepted, At, GoTo, Idle, taskVars, offerVars, OffersOK,
        JobsOK, JobOK, NamingPcs, OFFER_STATUSES
  <2>3. JobsOK'
    BY <1>15
    DEF MarkOfferAccepted, At, GoTo, Idle, taskVars, offerVars, JobsOK,
        RowsOK, Workers, Eligible, Job, JobOK, NamingPcs, Pcs, RoutingPcs,
        SweepPcs, ClaimPcs, ReturnPcs
  <2> QED
    BY <2>1, <2>2, <2>3
<1>16. ASSUME NEW w \in Workers, WithdrawOthers(w)
      PROVE  /\ RowsOK'
             /\ OffersOK'
             /\ JobsOK'
  <2>1. RowsOK'
    BY <1>16, MoveKeepsRows
    DEF WithdrawOthers, At, EndJob, WithdrawFrom, Idle, taskVars, offerVars,
        RowsOK, Statuses, Standings, JobsOK, JobOK, NamingPcs, Workers
  <2>2. OffersOK'
    BY <1>16, MoveKeepsRows
    DEF WithdrawOthers, At, EndJob, WithdrawFrom, Idle, taskVars, offerVars,
        OffersOK, JobsOK, JobOK, NamingPcs, OFFER_STATUSES
  <2>3. JobsOK'
    BY <1>16, MoveKeepsRows
    DEF WithdrawOthers, At, EndJob, WithdrawFrom, Idle, taskVars, offerVars,
        JobsOK, RowsOK, Workers, Eligible, Job, JobOK, NamingPcs, Pcs,
        RoutingPcs, SweepPcs, ClaimPcs, ReturnPcs
  <2> QED
    BY <2>1, <2>2, <2>3
<1>17. ASSUME NEW w \in Workers, ClearOffer(w)
      PROVE  /\ RowsOK'
             /\ OffersOK'
             /\ JobsOK'
  <2>1. RowsOK'
    BY <1>17
    DEF ClearOffer, At, GoTo, Idle, taskVars, offerVars, RowsOK, Statuses,
        Standings, JobsOK, JobOK, NamingPcs, Workers
  <2>2. OffersOK'
    BY <1>17
    DEF ClearOffer, At, GoTo, Idle, taskVars, offerVars, OffersOK, JobsOK,
        JobOK, NamingPcs, OFFER_STATUSES
  <2>3. JobsOK'
    BY <1>17
    DEF ClearOffer, At, GoTo, Idle, taskVars, offerVars, JobsOK, RowsOK,
        Workers, Eligible, Job, JobOK, NamingPcs, Pcs, RoutingPcs, SweepPcs,
        ClaimPcs, ReturnPcs
  <2> QED
    BY <2>1, <2>2, <2>3
<1>18. ASSUME NEW w \in Workers, WithdrawAll(w)
      PROVE  /\ RowsOK'
             /\ OffersOK'
             /\ JobsOK'
  <2>1. RowsOK'
    BY <1>18, MoveKeepsRows
    DEF WithdrawAll, At, StartRouting, WithdrawFrom, Idle, taskVars,
        offerVars, RowsOK, Statuses, Standings, JobsOK, JobOK, NamingPcs,
        Workers
  <2>2. OffersOK'
    BY <1>18, MoveKeepsRows
    DEF WithdrawAll, At, StartRouting, WithdrawFrom, Idle, taskVars,
        offerVars, OffersOK, JobsOK, JobOK, NamingPcs, OFFER_STATUSES
  <2>3. JobsOK'
    BY <1>18, MoveKeepsRows
    DEF WithdrawAll, At, StartRouting, WithdrawFrom, Idle, taskVars,
        offerVars, JobsOK, RowsOK, Workers, Eligible, Job, JobOK, NamingPcs,
        Pcs, RoutingPcs, SweepPcs, ClaimPcs, ReturnPcs
  <2> QED
    BY <2>1, <2>2, <2>3
<1>19. ASSUME NEW w \in Workers, WithdrawClosed(w)
      PROVE  /\ RowsOK'
             /\ OffersOK'
             /\ JobsOK'
  <2>1. RowsOK'
    BY <1>19, MoveKeepsRows
    DEF WithdrawClosed, At, EndJob, WithdrawFrom, Idle, taskVars, offerVars,
        RowsOK, Statuses, Standings, JobsOK, JobOK, NamingPcs, Workers
  <2>2. OffersOK'
    BY <1>19, MoveKeepsRows
    DEF WithdrawClosed, At, EndJob, WithdrawFrom, Idle, taskVars, offerVars,
        OffersOK, JobsOK, JobOK, NamingPcs, OFFER_STATUSES
  <2>3. JobsOK'
    BY <1>19, MoveKeepsRows
    DEF WithdrawClosed, At, EndJob, WithdrawFrom, Idle, taskVars, offerVars,
        JobsOK, RowsOK, Workers, Eligible, Job, JobOK, NamingPcs, Pcs,
        RoutingPcs, SweepPcs, ClaimPcs, ReturnPcs
  <2> QED
    BY <2>1, <2>2, <2>3
<1>20. ASSUME NEW w \in Requests, CreateTask(w)
      PROVE  /\ RowsOK'
             /\ OffersOK'
             /\ JobsOK'
  <2>1. RowsOK'
    BY <1>20
    DEF CreateTask, Begin, Idle, taskVars, offerVars, RowsOK, Statuses,
        Standings, JobsOK, JobOK, NamingPcs, Workers
  <2>2. OffersOK'
    BY <1>20
    DEF CreateTask, Begin, Idle, taskVars, offerVars, OffersOK, JobsOK, JobOK,
        NamingPcs, OFFER_STATUSES
  <2>3. JobsOK'
    BY <1>20
    DEF CreateTask, Begin, Idle, taskVars, offerVars, JobsOK, RowsOK, Workers,
        Eligible, Job, JobOK, NamingPcs, Pcs, RoutingPcs, SweepPcs, ClaimPcs,
        ReturnPcs
  <2> QED
    BY <2>1, <2>2, <2>3
<1>21. ASSUME NEW w \in Requests, Reassign(w)
      PROVE  /\ RowsOK'
             /\ OffersOK'
             /\ JobsOK'
  <2>1. RowsOK'
    BY <1>21
    DEF Reassign, Begin, Settled, Idle, taskVars, offerVars, RowsOK, Statuses,
        Standings, JobsOK, JobOK, NamingPcs, Workers
  <2>2. OffersOK'
    BY <1>21
    DEF Reassign, Begin, Settled, Idle, taskVars, offerVars, OffersOK, JobsOK,
        JobOK, NamingPcs, OFFER_STATUSES
  <2>3. JobsOK'
    BY <1>21
    DEF Reassign, Begin, Settled, Idle, taskVars, offerVars, JobsOK, RowsOK,
        Workers, Eligible, Job, JobOK, NamingPcs, Pcs, RoutingPcs, SweepPcs,
        ClaimPcs, ReturnPcs
  <2> QED
    BY <2>1, <2>2, <2>3
<1>22. ASSUME NEW w \in Requests, NEW c \in Captains, ClaimRead(w, c)
      PROVE  /\ RowsOK'
             /\ OffersOK'
             /\ JobsOK'
  <2>1. RowsOK'
    BY <1>22
    DEF ClaimRead, Begin, Claimable, Idle, taskVars, offerVars, RowsOK,
        Statuses, Standings, JobsOK, JobOK, NamingPcs, Workers
  <2>2. OffersOK'
    BY <1>22
    DEF ClaimRead, Begin, Claimable, Idle, taskVars, offerVars, OffersOK,
        JobsOK, JobOK, NamingPcs, OFFER_STATUSES
  <2>3. JobsOK'
    BY <1>22
    DEF ClaimRead, Begin, Claimable, Idle, taskVars, offerVars, JobsOK,
        RowsOK, Workers, Eligible, Job, JobOK, NamingPcs, Pcs, RoutingPcs,
        SweepPcs, ClaimPcs, ReturnPcs
  <2> QED
    BY <2>1, <2>2, <2>3
<1>23. ASSUME NEW w \in Sweepers, SweepLapsed(w)
      PROVE  /\ RowsOK'
             /\ OffersOK'
             /\ JobsOK'
  <2>1. RowsOK'
    BY <1>23
    DEF SweepLapsed, Begin, Claimable, Idle, taskVars, offerVars, RowsOK,
        Statuses, Standings, JobsOK, JobOK, NamingPcs, Workers
  <2>2. OffersOK'
    BY <1>23
    DEF SweepLapsed, Begin, Claimable, Idle, taskVars, offerVars, OffersOK,
        JobsOK, JobOK, NamingPcs, OFFER_STATUSES
  <2>3. JobsOK'
    BY <1>23
    DEF SweepLapsed, Begin, Claimable, Idle, taskVars, offerVars, JobsOK,
        RowsOK, Workers, Eligible, Job, JobOK, NamingPcs, Pcs, RoutingPcs,
        SweepPcs, ClaimPcs, ReturnPcs
  <2> QED
    BY <2>1, <2>2, <2>3
<1>24. ASSUME NEW w \in Sweepers, SweepUnrouted(w)
      PROVE  /\ RowsOK'
             /\ OffersOK'
             /\ JobsOK'
  <2>1. RowsOK'
    BY <1>24
    DEF SweepUnrouted, Begin, Claimable, Idle, taskVars, offerVars, RowsOK,
        Statuses, Standings, JobsOK, JobOK, NamingPcs, Workers
  <2>2. OffersOK'
    BY <1>24
    DEF SweepUnrouted, Begin, Claimable, Idle, taskVars, offerVars, OffersOK,
        JobsOK, JobOK, NamingPcs, OFFER_STATUSES
  <2>3. JobsOK'
    BY <1>24
    DEF SweepUnrouted, Begin, Claimable, Idle, taskVars, offerVars, JobsOK,
        RowsOK, Workers, Eligible, Job, JobOK, NamingPcs, Pcs, RoutingPcs,
        SweepPcs, ClaimPcs, ReturnPcs
  <2> QED
    BY <2>1, <2>2, <2>3
<1>25. ASSUME NEW w \in Sweepers, ExpireUnclaimed(w)
      PROVE  /\ RowsOK'
             /\ OffersOK'
             /\ JobsOK'
  <2>1. RowsOK'
    BY <1>25
    DEF ExpireUnclaimed, Begin, Claimable, Idle, taskVars, offerVars, RowsOK,
        Statuses, Standings, JobsOK, JobOK, NamingPcs, Workers
  <2>2. OffersOK'
    BY <1>25
    DEF ExpireUnclaimed, Begin, Claimable, Idle, taskVars, offerVars,
        OffersOK, JobsOK, JobOK, NamingPcs, OFFER_STATUSES
  <2>3. JobsOK'
    BY <1>25
    DEF ExpireUnclaimed, Begin, Claimable, Idle, taskVars, offerVars, JobsOK,
        RowsOK, Workers, Eligible, Job, JobOK, NamingPcs, Pcs, RoutingPcs,
        SweepPcs, ClaimPcs, ReturnPcs
  <2> QED
    BY <2>1, <2>2, <2>3
<1>26. ASSUME NEW c \in Captains, CaptainChanges(c)
      PROVE  /\ RowsOK'
             /\ OffersOK'
             /\ JobsOK'
  <2>1. RowsOK'
    BY <1>26
    DEF CaptainChanges, Idle, taskVars, offerVars, RowsOK, Statuses,
        Standings, JobsOK, JobOK, NamingPcs, Workers
  <2>2. OffersOK'
    BY <1>26
    DEF CaptainChanges, Idle, taskVars, offerVars, OffersOK, JobsOK, JobOK,
        NamingPcs, OFFER_STATUSES
  <2>3. JobsOK'
    BY <1>26
    DEF CaptainChanges, Idle, taskVars, offerVars, JobsOK, RowsOK, Workers,
        Eligible, Job, JobOK, NamingPcs, Pcs, RoutingPcs, SweepPcs, ClaimPcs,
        ReturnPcs
  <2> QED
    BY <2>1, <2>2, <2>3
<1>27. ASSUME OfferLapses
      PROVE  /\ RowsOK'
             /\ OffersOK'
             /\ JobsOK'
  <2>1. RowsOK'
    BY <1>27
    DEF OfferLapses, Settled, taskVars, offerVars, RowsOK, Statuses,
        Standings, JobsOK, JobOK, NamingPcs, Workers
  <2>2. OffersOK'
    BY <1>27
    DEF OfferLapses, Settled, taskVars, offerVars, OffersOK, JobsOK, JobOK,
        NamingPcs, OFFER_STATUSES
  <2>3. JobsOK'
    BY <1>27
    DEF OfferLapses, Settled, taskVars, offerVars, JobsOK, RowsOK, Workers,
        Eligible, Job, JobOK, NamingPcs, Pcs, RoutingPcs, SweepPcs, ClaimPcs,
        ReturnPcs
  <2> QED
    BY <2>1, <2>2, <2>3
<1>28. ASSUME CancelUnclaimed
      PROVE  /\ RowsOK'
             /\ OffersOK'
             /\ JobsOK'
  <2>1. RowsOK'
    BY <1>28
    DEF CancelUnclaimed, Claimable, taskVars, offerVars, RowsOK, Statuses,
        Standings, JobsOK, JobOK, NamingPcs, Workers
  <2>2. OffersOK'
    BY <1>28
    DEF CancelUnclaimed, Claimable, taskVars, offerVars, OffersOK, JobsOK,
        JobOK, NamingPcs, OFFER_STATUSES
  <2>3. JobsOK'
    BY <1>28
    DEF CancelUnclaimed, Claimable, taskVars, offerVars, JobsOK, RowsOK,
        Workers, Eligible, Job, JobOK, NamingPcs, Pcs, RoutingPcs, SweepPcs,
        ClaimPcs, ReturnPcs
  <2> QED
    BY <2>1, <2>2, <2>3
<1>29. ASSUME CloseHeld
      PROVE  /\ RowsOK'
             /\ OffersOK'
             /\ JobsOK'
  <2>1. RowsOK'
    BY <1>29
    DEF CloseHeld, taskVars, offerVars, RowsOK, Statuses, Standings, JobsOK,
        JobOK, NamingPcs, Workers
  <2>2. OffersOK'
    BY <1>29
    DEF CloseHeld, taskVars, offerVars, OffersOK, JobsOK, JobOK, NamingPcs,
        OFFER_STATUSES
  <2>3. JobsOK'
    BY <1>29
    DEF CloseHeld, taskVars, offerVars, JobsOK, RowsOK, Workers, Eligible,
        Job, JobOK, NamingPcs, Pcs, RoutingPcs, SweepPcs, ClaimPcs, ReturnPcs
  <2> QED
    BY <2>1, <2>2, <2>3
<1>30. ASSUME Crash
      PROVE  /\ RowsOK'
             /\ OffersOK'
             /\ JobsOK'
  <2>1. RowsOK'
    BY <1>30
    DEF Crash, Idle, taskVars, offerVars, RowsOK, Statuses, Standings, JobsOK,
        JobOK, NamingPcs, Workers
  <2>2. OffersOK'
    BY <1>30
    DEF Crash, Idle, taskVars, offerVars, OffersOK, JobsOK, JobOK, NamingPcs,
        OFFER_STATUSES
  <2>3. JobsOK'
    BY <1>30
    DEF Crash, Idle, taskVars, offerVars, JobsOK, RowsOK, Workers, Eligible,
        Job, JobOK, NamingPcs, Pcs, RoutingPcs, SweepPcs, ClaimPcs, ReturnPcs
  <2> QED
    BY <2>1, <2>2, <2>3
<1>31. ASSUME UNCHANGED vars
      PROVE  /\ RowsOK'
             /\ OffersOK'
             /\ JobsOK'
  <2>1. RowsOK'
    BY <1>31
    DEF vars, taskVars, offerVars, RowsOK, Statuses, Standings, JobsOK, JobOK,
        NamingPcs, Workers
  <2>2. OffersOK'
    BY <1>31
    DEF vars, taskVars, offerVars, OffersOK, JobsOK, JobOK, NamingPcs,
        OFFER_STATUSES
  <2>3. JobsOK'
    BY <1>31
    DEF vars, taskVars, offerVars, JobsOK, RowsOK, Workers, Eligible, Job,
        JobOK, NamingPcs, Pcs, RoutingPcs, SweepPcs, ClaimPcs, ReturnPcs
  <2> QED
    BY <2>1, <2>2, <2>3
<1> QED
  BY <1>1, <1>2, <1>3, <1>4, <1>5, <1>6, <1>7, <1>8, <1>9, <1>10, <1>11,
     <1>12, <1>13, <1>14, <1>15, <1>16, <1>17, <1>18, <1>19, <1>20, <1>21,
     <1>22, <1>23, <1>24, <1>25, <1>26, <1>27, <1>28, <1>29, <1>30, <1>31
  DEF Next, JobStep, RoutingStep, Sweep, Workers

LEMMA TypeInvariant == Spec => []TypeInv
<1>1. TypeInv /\ [Next]_vars => TypeInv'
  BY TypeParts, TypePartsNext, TypeStep
<1> QED
  BY <1>1, TypeInit, PTL DEF Spec

\* The row, the offers and the jobs of routing keep their types.
THEOREM RoutingTypeCorrect == Spec => []RoutingTypeOK
<1>1. TypeInv => RoutingTypeOK
  BY DEF TypeInv
<1> QED
  BY <1>1, TypeInvariant, PTL

-----------------------------------------------------------------------------
(* Offers and holders *)

\* An offer is only ever made to a captain that counts as tried, and ends with
\* the claim; a window without an offer does not run out.  Before the task is
\* created nothing runs.
OfferInv ==
  /\ HeldIsNotOffered
  /\ offeredCaptainId = None => ~offerLapsed
  /\ offeredCaptainId \in offeredCaptainIds \cup {None}
  /\ status = "ABSENT" =>
       offeredCaptainId = None /\ offeredCaptainIds = {} /\ \A w \in Workers : jobs[w].pc = "idle"

LEMMA OfferStep ==
  ASSUME TypeInv, OfferInv, [Next]_vars
  PROVE  OfferInv'
<1>1. ASSUME NEW w \in Workers, OfferRead(w)
      PROVE  OfferInv'
  BY <1>1
  DEF OfferRead, At, EndJob, Claimable, Idle, taskVars, offerVars, OfferInv,
      HeldIsNotOffered, TypeInv, RoutingTypeOK, JobOK, NamingPcs, Workers,
      RoutingPcs, SweepPcs, ClaimPcs, ReturnPcs, Statuses
<1>2. ASSUME NEW w \in Workers, Rank(w)
      PROVE  OfferInv'
  BY <1>2
  DEF Rank, At, GoTo, Idle, taskVars, offerVars, OfferInv, HeldIsNotOffered,
      TypeInv, RoutingTypeOK, JobOK, NamingPcs, Workers, RoutingPcs, SweepPcs,
      ClaimPcs, ReturnPcs, Statuses
<1>3. ASSUME NEW w \in Workers, MarkRoutingStalled(w)
      PROVE  OfferInv'
  BY <1>3
  DEF MarkRoutingStalled, SetStalled, At, EndJob, Idle, taskVars, offerVars,
      OfferInv, HeldIsNotOffered, TypeInv, RoutingTypeOK, JobOK, NamingPcs,
      Workers, RoutingPcs, SweepPcs, ClaimPcs, ReturnPcs, Statuses
<1>4. ASSUME NEW w \in Workers, ClearStalledInDrought(w)
      PROVE  OfferInv'
  BY <1>4
  DEF ClearStalledInDrought, SetStalled, At, EndJob, Idle, taskVars,
      offerVars, OfferInv, HeldIsNotOffered, TypeInv, RoutingTypeOK, JobOK,
      NamingPcs, Workers, RoutingPcs, SweepPcs, ClaimPcs, ReturnPcs, Statuses
<1>5. ASSUME NEW w \in Workers, ClearStalledOnceOffered(w)
      PROVE  OfferInv'
  BY <1>5
  DEF ClearStalledOnceOffered, SetStalled, At, GoTo, Idle, taskVars,
      offerVars, OfferInv, HeldIsNotOffered, TypeInv, RoutingTypeOK, JobOK,
      NamingPcs, Workers, RoutingPcs, SweepPcs, ClaimPcs, ReturnPcs, Statuses
<1>6. ASSUME NEW w \in Workers, OpenToPool(w)
      PROVE  OfferInv'
  BY <1>6
  DEF OpenToPool, At, EndJob, Claimable, Idle, taskVars, offerVars, OfferInv,
      HeldIsNotOffered, TypeInv, RoutingTypeOK, JobOK, NamingPcs, Workers,
      RoutingPcs, SweepPcs, ClaimPcs, ReturnPcs, Statuses
<1>7. ASSUME NEW w \in Workers, OfferWrite(w)
      PROVE  OfferInv'
  BY <1>7
  DEF OfferWrite, At, GoTo, Claimable, Idle, taskVars, offerVars, OfferInv,
      HeldIsNotOffered, TypeInv, RoutingTypeOK, JobOK, NamingPcs, Workers,
      RoutingPcs, SweepPcs, ClaimPcs, ReturnPcs, Statuses
<1>8. ASSUME NEW w \in Workers, OfferLost(w)
      PROVE  OfferInv'
  BY <1>8
  DEF OfferLost, At, EndJob, Claimable, Idle, taskVars, offerVars, OfferInv,
      HeldIsNotOffered, TypeInv, RoutingTypeOK, JobOK, NamingPcs, Workers,
      RoutingPcs, SweepPcs, ClaimPcs, ReturnPcs, Statuses
<1>9. ASSUME NEW w \in Workers, OfferRow(w)
      PROVE  OfferInv'
  BY <1>9
  DEF OfferRow, At, EndJob, Idle, taskVars, offerVars, OfferInv,
      HeldIsNotOffered, TypeInv, RoutingTypeOK, JobOK, NamingPcs, Workers,
      RoutingPcs, SweepPcs, ClaimPcs, ReturnPcs, Statuses
<1>10. ASSUME NEW w \in Workers, ReleaseOffer(w)
      PROVE  OfferInv'
  BY <1>10
  DEF ReleaseOffer, At, GoTo, EndJob, Idle, taskVars, offerVars, OfferInv,
      HeldIsNotOffered, TypeInv, RoutingTypeOK, JobOK, NamingPcs, Workers,
      RoutingPcs, SweepPcs, ClaimPcs, ReturnPcs, Statuses
<1>11. ASSUME NEW w \in Workers, MarkMissed(w)
      PROVE  OfferInv'
  BY <1>11
  DEF MarkMissed, At, GoTo, Idle, taskVars, offerVars, OfferInv,
      HeldIsNotOffered, TypeInv, RoutingTypeOK, JobOK, NamingPcs, Workers,
      RoutingPcs, SweepPcs, ClaimPcs, ReturnPcs, Statuses
<1>12. ASSUME NEW w \in Workers, CountMissed(w)
      PROVE  OfferInv'
  BY <1>12
  DEF CountMissed, At, StartRouting, Idle, taskVars, offerVars, OfferInv,
      HeldIsNotOffered, TypeInv, RoutingTypeOK, JobOK, NamingPcs, Workers,
      RoutingPcs, SweepPcs, ClaimPcs, ReturnPcs, Statuses
<1>13. ASSUME NEW w \in Workers, ClaimWrite(w)
      PROVE  OfferInv'
  BY <1>13
  DEF ClaimWrite, At, GoTo, Claimable, Idle, taskVars, offerVars, OfferInv,
      HeldIsNotOffered, TypeInv, RoutingTypeOK, JobOK, NamingPcs, Workers,
      RoutingPcs, SweepPcs, ClaimPcs, ReturnPcs, Statuses
<1>14. ASSUME NEW w \in Workers, ClaimRefused(w)
      PROVE  OfferInv'
  BY <1>14
  DEF ClaimRefused, At, EndJob, Claimable, Idle, taskVars, offerVars,
      OfferInv, HeldIsNotOffered, TypeInv, RoutingTypeOK, JobOK, NamingPcs,
      Workers, RoutingPcs, SweepPcs, ClaimPcs, ReturnPcs, Statuses
<1>15. ASSUME NEW w \in Workers, MarkOfferAccepted(w)
      PROVE  OfferInv'
  BY <1>15
  DEF MarkOfferAccepted, At, GoTo, Idle, taskVars, offerVars, OfferInv,
      HeldIsNotOffered, TypeInv, RoutingTypeOK, JobOK, NamingPcs, Workers,
      RoutingPcs, SweepPcs, ClaimPcs, ReturnPcs, Statuses
<1>16. ASSUME NEW w \in Workers, WithdrawOthers(w)
      PROVE  OfferInv'
  BY <1>16
  DEF WithdrawOthers, At, EndJob, WithdrawFrom, Idle, taskVars, offerVars,
      OfferInv, HeldIsNotOffered, TypeInv, RoutingTypeOK, JobOK, NamingPcs,
      Workers, RoutingPcs, SweepPcs, ClaimPcs, ReturnPcs, Statuses
<1>17. ASSUME NEW w \in Workers, ClearOffer(w)
      PROVE  OfferInv'
  BY <1>17
  DEF ClearOffer, At, GoTo, Idle, taskVars, offerVars, OfferInv,
      HeldIsNotOffered, TypeInv, RoutingTypeOK, JobOK, NamingPcs, Workers,
      RoutingPcs, SweepPcs, ClaimPcs, ReturnPcs, Statuses
<1>18. ASSUME NEW w \in Workers, WithdrawAll(w)
      PROVE  OfferInv'
  BY <1>18
  DEF WithdrawAll, At, StartRouting, WithdrawFrom, Idle, taskVars, offerVars,
      OfferInv, HeldIsNotOffered, TypeInv, RoutingTypeOK, JobOK, NamingPcs,
      Workers, RoutingPcs, SweepPcs, ClaimPcs, ReturnPcs, Statuses
<1>19. ASSUME NEW w \in Workers, WithdrawClosed(w)
      PROVE  OfferInv'
  BY <1>19
  DEF WithdrawClosed, At, EndJob, WithdrawFrom, Idle, taskVars, offerVars,
      OfferInv, HeldIsNotOffered, TypeInv, RoutingTypeOK, JobOK, NamingPcs,
      Workers, RoutingPcs, SweepPcs, ClaimPcs, ReturnPcs, Statuses
<1>20. ASSUME NEW w \in Requests, CreateTask(w)
      PROVE  OfferInv'
  BY <1>20
  DEF CreateTask, Begin, Idle, taskVars, offerVars, OfferInv,
      HeldIsNotOffered, TypeInv, RoutingTypeOK, JobOK, NamingPcs, Workers,
      RoutingPcs, SweepPcs, ClaimPcs, ReturnPcs, Statuses
<1>21. ASSUME NEW w \in Requests, Reassign(w)
      PROVE  OfferInv'
  BY <1>21
  DEF Reassign, Begin, Settled, Idle, taskVars, offerVars, OfferInv,
      HeldIsNotOffered, TypeInv, RoutingTypeOK, JobOK, NamingPcs, Workers,
      RoutingPcs, SweepPcs, ClaimPcs, ReturnPcs, Statuses
<1>22. ASSUME NEW w \in Requests, NEW c \in Captains, ClaimRead(w, c)
      PROVE  OfferInv'
  BY <1>22
  DEF ClaimRead, Begin, Claimable, Idle, taskVars, offerVars, OfferInv,
      HeldIsNotOffered, TypeInv, RoutingTypeOK, JobOK, NamingPcs, Workers,
      RoutingPcs, SweepPcs, ClaimPcs, ReturnPcs, Statuses
<1>23. ASSUME NEW w \in Sweepers, SweepLapsed(w)
      PROVE  OfferInv'
  BY <1>23
  DEF SweepLapsed, Begin, Claimable, Idle, taskVars, offerVars, OfferInv,
      HeldIsNotOffered, TypeInv, RoutingTypeOK, JobOK, NamingPcs, Workers,
      RoutingPcs, SweepPcs, ClaimPcs, ReturnPcs, Statuses
<1>24. ASSUME NEW w \in Sweepers, SweepUnrouted(w)
      PROVE  OfferInv'
  BY <1>24
  DEF SweepUnrouted, Begin, Claimable, Idle, taskVars, offerVars, OfferInv,
      HeldIsNotOffered, TypeInv, RoutingTypeOK, JobOK, NamingPcs, Workers,
      RoutingPcs, SweepPcs, ClaimPcs, ReturnPcs, Statuses
<1>25. ASSUME NEW w \in Sweepers, ExpireUnclaimed(w)
      PROVE  OfferInv'
  BY <1>25
  DEF ExpireUnclaimed, Begin, Claimable, Idle, taskVars, offerVars, OfferInv,
      HeldIsNotOffered, TypeInv, RoutingTypeOK, JobOK, NamingPcs, Workers,
      RoutingPcs, SweepPcs, ClaimPcs, ReturnPcs, Statuses
<1>26. ASSUME NEW c \in Captains, CaptainChanges(c)
      PROVE  OfferInv'
  BY <1>26
  DEF CaptainChanges, Idle, taskVars, offerVars, OfferInv, HeldIsNotOffered,
      TypeInv, RoutingTypeOK, JobOK, NamingPcs, Workers, RoutingPcs, SweepPcs,
      ClaimPcs, ReturnPcs, Statuses
<1>27. ASSUME OfferLapses
      PROVE  OfferInv'
  BY <1>27
  DEF OfferLapses, Settled, taskVars, offerVars, OfferInv, HeldIsNotOffered,
      TypeInv, RoutingTypeOK, JobOK, NamingPcs, Workers, RoutingPcs, SweepPcs,
      ClaimPcs, ReturnPcs, Statuses
<1>28. ASSUME CancelUnclaimed
      PROVE  OfferInv'
  BY <1>28
  DEF CancelUnclaimed, Claimable, taskVars, offerVars, OfferInv,
      HeldIsNotOffered, TypeInv, RoutingTypeOK, JobOK, NamingPcs, Workers,
      RoutingPcs, SweepPcs, ClaimPcs, ReturnPcs, Statuses
<1>29. ASSUME CloseHeld
      PROVE  OfferInv'
  BY <1>29
  DEF CloseHeld, taskVars, offerVars, OfferInv, HeldIsNotOffered, TypeInv,
      RoutingTypeOK, JobOK, NamingPcs, Workers, RoutingPcs, SweepPcs,
      ClaimPcs, ReturnPcs, Statuses
<1>30. ASSUME Crash
      PROVE  OfferInv'
  BY <1>30
  DEF Crash, Idle, taskVars, offerVars, OfferInv, HeldIsNotOffered, TypeInv,
      RoutingTypeOK, JobOK, NamingPcs, Workers, RoutingPcs, SweepPcs,
      ClaimPcs, ReturnPcs, Statuses
<1>31. ASSUME UNCHANGED vars
      PROVE  OfferInv'
  BY <1>31
  DEF vars, taskVars, offerVars, OfferInv, HeldIsNotOffered, TypeInv,
      RoutingTypeOK, JobOK, NamingPcs, Workers, RoutingPcs, SweepPcs,
      ClaimPcs, ReturnPcs, Statuses
<1> QED
  BY <1>1, <1>2, <1>3, <1>4, <1>5, <1>6, <1>7, <1>8, <1>9, <1>10, <1>11,
     <1>12, <1>13, <1>14, <1>15, <1>16, <1>17, <1>18, <1>19, <1>20, <1>21,
     <1>22, <1>23, <1>24, <1>25, <1>26, <1>27, <1>28, <1>29, <1>30, <1>31
  DEF Next, JobStep, RoutingStep, Sweep, Workers

LEMMA OfferInvariant == Spec => []OfferInv
<1>1. Init => OfferInv
  BY DEF Init, OfferInv, HeldIsNotOffered, Idle
<1>2. TypeInv /\ OfferInv /\ [Next]_vars => OfferInv'
  BY OfferStep
<1> QED
  BY <1>1, <1>2, TypeInvariant, PTL DEF Spec

\* However passes and claims overlap, a task that is held is offered to nobody:
\* an offer is written only to a row that is still unclaimed, and the claim
\* takes the offer with it.
THEOREM HeldIsNeverOffered == Spec => []HeldIsNotOffered
<1>1. OfferInv => HeldIsNotOffered
  BY DEF OfferInv
<1> QED
  BY <1>1, OfferInvariant, PTL

-----------------------------------------------------------------------------
(* One turn each *)

\* The timing assumption, and one pass of the expiry job at a time.
OnePassAtATime == PromptRouting /\ \A v, w \in Sweepers : v = w

Passing(w) == jobs[w].pc \in RoutingPcs \cup ReturnPcs

\* Two passes at most route the task together: that of one request and, unless
\* it has an offer to take back, that of the sweep.
OneRequestRoutes == \A v, w \in Requests : Passing(v) /\ Passing(w) => v = w

LapseAlone ==
  (offerLapsed \/ \E s \in Workers : jobs[s].pc \in SweepPcs)
    => \A w \in Requests : ~Passing(w)

\* The copy a pass decides from, and whether it is out of date.
CopyOK(w) ==
  /\ jobs[w].pc \in {"rank", "offer"} => jobs[w].offered \in offeredCaptainIds \cup {None}
  /\ jobs[w].pc = "rank" => jobs[w].tried \subseteq offeredCaptainIds

Stale(w) ==
  \/ jobs[w].pc = "rank" /\ ~(offeredCaptainIds \subseteq jobs[w].tried)
  \/ jobs[w].pc = "offer" /\ jobs[w].c \in offeredCaptainIds

\* Reads and writes after which a stale pass could write its offer.
Stirring == {"read", "rank", "offer", "open"} \cup ReturnPcs \cup SweepPcs

\* A stale pass finds another captain's offer on the row, and nobody to take
\* it off before the pass has ended.
StaleLoses(w) ==
  Stale(w) /\ Claimable =>
    /\ offeredCaptainId \notin {None, jobs[w].offered}
    /\ \A v \in Workers \ {w} : jobs[v].pc \notin Stirring

PassInv ==
  /\ OneRequestRoutes
  /\ LapseAlone
  /\ \A w \in Workers : CopyOK(w)
  /\ \A w \in Workers : StaleLoses(w)

\* What a read, a ranking and a withdrawn offer leave behind.
LEMMA ReadEffect ==
  ASSUME TypeInv, NEW w \in Workers, OfferRead(w)
  PROVE  /\ jobs[w].pc = "read" /\ UNCHANGED taskVars
         /\ \A v \in Workers \ {w} : jobs'[v] = jobs[v]
         /\ \/ jobs'[w].pc = "idle"
            \/ /\ jobs'[w].pc = "rank"
               /\ jobs'[w].offered = offeredCaptainId
               /\ jobs'[w].tried = offeredCaptainIds
<1>1. jobs \in [Workers -> Job] /\ jobs[w] \in Job
  BY DEF TypeInv, RoutingTypeOK
<1>2. CASE Claimable /\ ~openPool
  <2>1. jobs' = [jobs EXCEPT ![w] = [@ EXCEPT !.pc = "rank", !.offered = offeredCaptainId,
                                              !.tried = offeredCaptainIds,
                                              !.barred = previousCaptainIds]]
    BY <1>2 DEF OfferRead
  <2>2. /\ jobs'[w].pc = "rank" /\ jobs'[w].offered = offeredCaptainId
        /\ jobs'[w].tried = offeredCaptainIds
    BY <1>1, <2>1 DEF Job
  <2> QED
    BY <1>1, <2>1, <2>2 DEF OfferRead, At
<1>3. CASE ~(Claimable /\ ~openPool)
  BY <1>1, <1>3 DEF OfferRead, At, EndJob, Idle
<1> QED
  BY <1>2, <1>3

LEMMA RankEffect ==
  ASSUME TypeInv, NEW w \in Workers, Rank(w)
  PROVE  /\ jobs[w].pc = "rank" /\ UNCHANGED taskVars
         /\ \A v \in Workers \ {w} : jobs'[v] = jobs[v]
         /\ \/ /\ jobs'[w].pc = "offer"
               /\ jobs'[w].offered = jobs[w].offered
               /\ jobs'[w].c \notin jobs[w].tried
            \/ jobs'[w].pc \in {"open", "drought", "stall"}
<1>1. jobs \in [Workers -> Job]
  BY DEF TypeInv, RoutingTypeOK
<1>2. ASSUME NEW best \in Eligible(jobs[w].barred) \ jobs[w].tried,
             jobs' = [jobs EXCEPT ![w] = [Idle EXCEPT !.pc = "offer", !.c = best,
                                                      !.offered = jobs[w].offered]]
      PROVE  /\ \A v \in Workers \ {w} : jobs'[v] = jobs[v]
             /\ jobs'[w].pc = "offer" /\ jobs'[w].offered = jobs[w].offered
             /\ jobs'[w].c \notin jobs[w].tried
  BY <1>1, <1>2 DEF Idle
<1>3. ASSUME NEW p \in {"open", "drought", "stall"}, GoTo(w, p)
      PROVE  (\A v \in Workers \ {w} : jobs'[v] = jobs[v]) /\ jobs'[w].pc = p
  BY <1>1, <1>3 DEF GoTo, Idle
<1> QED
  BY <1>2, <1>3 DEF Rank, At

LEMMA ReleaseEffect ==
  ASSUME TypeInv, NEW w \in Workers, ReleaseOffer(w)
  PROVE  /\ jobs[w].pc = "release"
         /\ UNCHANGED <<status, captainId, offeredCaptainIds, openPool, offers, missed>>
         /\ \A v \in Workers \ {w} : jobs'[v] = jobs[v]
         /\ \/ /\ jobs'[w].pc = "miss" /\ jobs'[w].c = jobs[w].c
               /\ offeredCaptainId = jobs[w].c
               /\ offeredCaptainId' = None /\ offerLapsed' = FALSE
            \/ jobs'[w].pc = "idle" /\ UNCHANGED <<offeredCaptainId, offerLapsed>>
<1>1. jobs \in [Workers -> Job]
  BY DEF TypeInv, RoutingTypeOK
<1>2. CASE GoTo(w, "miss")
  BY <1>1, <1>2 DEF ReleaseOffer, At, GoTo, EndJob, Idle, offerVars
<1>3. CASE EndJob(w)
  BY <1>1, <1>3 DEF ReleaseOffer, At, GoTo, EndJob, Idle, offerVars
<1> QED
  BY <1>2, <1>3 DEF ReleaseOffer

LEMMA PassStep ==
  ASSUME OnePassAtATime, TypeInv, TypeInv', OfferInv, PassInv, [Next]_vars
  PROVE  /\ OneRequestRoutes'
         /\ LapseAlone'
         /\ \A x \in Workers : CopyOK(x)'
         /\ \A x \in Workers : StaleLoses(x)'
<1>1. ASSUME NEW w \in Workers, OfferRead(w)
      PROVE  /\ OneRequestRoutes'
             /\ LapseAlone'
             /\ \A x \in Workers : CopyOK(x)'
             /\ \A x \in Workers : StaleLoses(x)'
  <2>1. OneRequestRoutes'
    <3>1. \A v \in Workers : Passing(v)' => Passing(v)
      BY <1>1, ReadEffect DEF Passing, RoutingPcs, ReturnPcs
    <3> QED
      BY <3>1 DEF PassInv, OneRequestRoutes, Workers
  <2>2. LapseAlone'
    BY <1>1, ReadEffect
    DEF taskVars, PassInv, LapseAlone, Passing, TypeInv, RoutingTypeOK, JobOK,
        OfferInv, HeldIsNotOffered, OnePassAtATime, Workers, ClaimPcs,
        RoutingPcs, SweepPcs, ReturnPcs
  <2>3. \A x \in Workers : CopyOK(x)'
    <3>1. offeredCaptainIds' = offeredCaptainIds
      BY <1>1, ReadEffect DEF taskVars
    <3>2. CopyOK(w)'
      BY <1>1, <3>1, ReadEffect DEF CopyOK, OfferInv
    <3>3. \A x \in Workers \ {w} : CopyOK(x)'
      BY <1>1, <3>1, ReadEffect DEF CopyOK, PassInv
    <3> QED
      BY <3>2, <3>3
  <2>4. \A x \in Workers : StaleLoses(x)'
    BY <1>1, ReadEffect
    DEF taskVars, PassInv, StaleLoses, Stale, Stirring, CopyOK, LapseAlone,
        OneRequestRoutes, Passing, TypeInv, RoutingTypeOK, JobOK, NamingPcs,
        OfferInv, HeldIsNotOffered, OnePassAtATime, Workers, ClaimPcs,
        Claimable, RoutingPcs, SweepPcs, ReturnPcs
  <2> QED
    BY <2>1, <2>2, <2>3, <2>4
<1>2. ASSUME NEW w \in Workers, Rank(w)
      PROVE  /\ OneRequestRoutes'
             /\ LapseAlone'
             /\ \A x \in Workers : CopyOK(x)'
             /\ \A x \in Workers : StaleLoses(x)'
  <2>1. OneRequestRoutes'
    BY <1>2, RankEffect
    DEF taskVars, PassInv, OneRequestRoutes, Passing, TypeInv, RoutingTypeOK,
        JobOK, OfferInv, OnePassAtATime, Workers, ClaimPcs, RoutingPcs,
        SweepPcs, ReturnPcs
  <2>2. LapseAlone'
    BY <1>2, RankEffect
    DEF taskVars, PassInv, LapseAlone, Passing, TypeInv, RoutingTypeOK, JobOK,
        OfferInv, HeldIsNotOffered, OnePassAtATime, Workers, ClaimPcs,
        RoutingPcs, SweepPcs, ReturnPcs
  <2>3. \A x \in Workers : CopyOK(x)'
    BY <1>2, RankEffect
    DEF taskVars, PassInv, CopyOK, TypeInv, RoutingTypeOK, OfferInv, Workers,
        ClaimPcs, RoutingPcs, SweepPcs, ReturnPcs
  <2>4. \A x \in Workers : StaleLoses(x)'
    BY <1>2, RankEffect
    DEF taskVars, PassInv, StaleLoses, Stale, Stirring, CopyOK, LapseAlone,
        OneRequestRoutes, Passing, TypeInv, RoutingTypeOK, JobOK, NamingPcs,
        OfferInv, HeldIsNotOffered, OnePassAtATime, Workers, ClaimPcs,
        Claimable, RoutingPcs, SweepPcs, ReturnPcs
  <2> QED
    BY <2>1, <2>2, <2>3, <2>4
<1>3. ASSUME NEW w \in Workers, MarkRoutingStalled(w)
      PROVE  /\ OneRequestRoutes'
             /\ LapseAlone'
             /\ \A x \in Workers : CopyOK(x)'
             /\ \A x \in Workers : StaleLoses(x)'
  <2>1. OneRequestRoutes'
    BY <1>3
    DEF MarkRoutingStalled, SetStalled, At, EndJob, Idle, taskVars, offerVars,
        PassInv, OneRequestRoutes, Passing, TypeInv, RoutingTypeOK, JobOK,
        OfferInv, OnePassAtATime, Workers, ClaimPcs, RoutingPcs, SweepPcs,
        ReturnPcs
  <2>2. LapseAlone'
    BY <1>3
    DEF MarkRoutingStalled, SetStalled, At, EndJob, Idle, taskVars, offerVars,
        PassInv, LapseAlone, Passing, TypeInv, RoutingTypeOK, JobOK, OfferInv,
        HeldIsNotOffered, OnePassAtATime, Workers, ClaimPcs, RoutingPcs,
        SweepPcs, ReturnPcs
  <2>3. \A x \in Workers : CopyOK(x)'
    BY <1>3
    DEF MarkRoutingStalled, SetStalled, At, EndJob, Idle, taskVars, offerVars,
        PassInv, CopyOK, TypeInv, RoutingTypeOK, OfferInv, Workers, ClaimPcs,
        RoutingPcs, SweepPcs, ReturnPcs
  <2>4. \A x \in Workers : StaleLoses(x)'
    BY <1>3
    DEF MarkRoutingStalled, SetStalled, At, EndJob, Idle, taskVars, offerVars,
        PassInv, StaleLoses, Stale, Stirring, CopyOK, LapseAlone,
        OneRequestRoutes, Passing, TypeInv, RoutingTypeOK, JobOK, NamingPcs,
        OfferInv, HeldIsNotOffered, OnePassAtATime, Workers, ClaimPcs,
        Claimable, Eligible, RoutingPcs, SweepPcs, ReturnPcs
  <2> QED
    BY <2>1, <2>2, <2>3, <2>4
<1>4. ASSUME NEW w \in Workers, ClearStalledInDrought(w)
      PROVE  /\ OneRequestRoutes'
             /\ LapseAlone'
             /\ \A x \in Workers : CopyOK(x)'
             /\ \A x \in Workers : StaleLoses(x)'
  <2>1. OneRequestRoutes'
    BY <1>4
    DEF ClearStalledInDrought, SetStalled, At, EndJob, Idle, taskVars,
        offerVars, PassInv, OneRequestRoutes, Passing, TypeInv, RoutingTypeOK,
        JobOK, OfferInv, OnePassAtATime, Workers, ClaimPcs, RoutingPcs,
        SweepPcs, ReturnPcs
  <2>2. LapseAlone'
    BY <1>4
    DEF ClearStalledInDrought, SetStalled, At, EndJob, Idle, taskVars,
        offerVars, PassInv, LapseAlone, Passing, TypeInv, RoutingTypeOK,
        JobOK, OfferInv, HeldIsNotOffered, OnePassAtATime, Workers, ClaimPcs,
        RoutingPcs, SweepPcs, ReturnPcs
  <2>3. \A x \in Workers : CopyOK(x)'
    BY <1>4
    DEF ClearStalledInDrought, SetStalled, At, EndJob, Idle, taskVars,
        offerVars, PassInv, CopyOK, TypeInv, RoutingTypeOK, OfferInv, Workers,
        ClaimPcs, RoutingPcs, SweepPcs, ReturnPcs
  <2>4. \A x \in Workers : StaleLoses(x)'
    BY <1>4
    DEF ClearStalledInDrought, SetStalled, At, EndJob, Idle, taskVars,
        offerVars, PassInv, StaleLoses, Stale, Stirring, CopyOK, LapseAlone,
        OneRequestRoutes, Passing, TypeInv, RoutingTypeOK, JobOK, NamingPcs,
        OfferInv, HeldIsNotOffered, OnePassAtATime, Workers, ClaimPcs,
        Claimable, Eligible, RoutingPcs, SweepPcs, ReturnPcs
  <2> QED
    BY <2>1, <2>2, <2>3, <2>4
<1>5. ASSUME NEW w \in Workers, ClearStalledOnceOffered(w)
      PROVE  /\ OneRequestRoutes'
             /\ LapseAlone'
             /\ \A x \in Workers : CopyOK(x)'
             /\ \A x \in Workers : StaleLoses(x)'
  <2>1. OneRequestRoutes'
    BY <1>5
    DEF ClearStalledOnceOffered, SetStalled, At, GoTo, Idle, taskVars,
        offerVars, PassInv, OneRequestRoutes, Passing, TypeInv, RoutingTypeOK,
        JobOK, OfferInv, OnePassAtATime, Workers, ClaimPcs, RoutingPcs,
        SweepPcs, ReturnPcs
  <2>2. LapseAlone'
    BY <1>5
    DEF ClearStalledOnceOffered, SetStalled, At, GoTo, Idle, taskVars,
        offerVars, PassInv, LapseAlone, Passing, TypeInv, RoutingTypeOK,
        JobOK, OfferInv, HeldIsNotOffered, OnePassAtATime, Workers, ClaimPcs,
        RoutingPcs, SweepPcs, ReturnPcs
  <2>3. \A x \in Workers : CopyOK(x)'
    BY <1>5
    DEF ClearStalledOnceOffered, SetStalled, At, GoTo, Idle, taskVars,
        offerVars, PassInv, CopyOK, TypeInv, RoutingTypeOK, OfferInv, Workers,
        ClaimPcs, RoutingPcs, SweepPcs, ReturnPcs
  <2>4. \A x \in Workers : StaleLoses(x)'
    BY <1>5
    DEF ClearStalledOnceOffered, SetStalled, At, GoTo, Idle, taskVars,
        offerVars, PassInv, StaleLoses, Stale, Stirring, CopyOK, LapseAlone,
        OneRequestRoutes, Passing, TypeInv, RoutingTypeOK, JobOK, NamingPcs,
        OfferInv, HeldIsNotOffered, OnePassAtATime, Workers, ClaimPcs,
        Claimable, Eligible, RoutingPcs, SweepPcs, ReturnPcs
  <2> QED
    BY <2>1, <2>2, <2>3, <2>4
<1>6. ASSUME NEW w \in Workers, OpenToPool(w)
      PROVE  /\ OneRequestRoutes'
             /\ LapseAlone'
             /\ \A x \in Workers : CopyOK(x)'
             /\ \A x \in Workers : StaleLoses(x)'
  <2>1. OneRequestRoutes'
    BY <1>6
    DEF OpenToPool, At, EndJob, Claimable, Idle, taskVars, offerVars, PassInv,
        OneRequestRoutes, Passing, TypeInv, RoutingTypeOK, JobOK, OfferInv,
        OnePassAtATime, Workers, ClaimPcs, RoutingPcs, SweepPcs, ReturnPcs
  <2>2. LapseAlone'
    BY <1>6
    DEF OpenToPool, At, EndJob, Claimable, Idle, taskVars, offerVars, PassInv,
        LapseAlone, Passing, TypeInv, RoutingTypeOK, JobOK, OfferInv,
        HeldIsNotOffered, OnePassAtATime, Workers, ClaimPcs, RoutingPcs,
        SweepPcs, ReturnPcs
  <2>3. \A x \in Workers : CopyOK(x)'
    BY <1>6
    DEF OpenToPool, At, EndJob, Claimable, Idle, taskVars, offerVars, PassInv,
        CopyOK, TypeInv, RoutingTypeOK, OfferInv, Workers, ClaimPcs,
        RoutingPcs, SweepPcs, ReturnPcs
  <2>4. \A x \in Workers : StaleLoses(x)'
    BY <1>6
    DEF OpenToPool, At, EndJob, Claimable, Idle, taskVars, offerVars, PassInv,
        StaleLoses, Stale, Stirring, CopyOK, LapseAlone, OneRequestRoutes,
        Passing, TypeInv, RoutingTypeOK, JobOK, NamingPcs, OfferInv,
        HeldIsNotOffered, OnePassAtATime, Workers, ClaimPcs, Eligible,
        RoutingPcs, SweepPcs, ReturnPcs
  <2> QED
    BY <2>1, <2>2, <2>3, <2>4
<1>7. ASSUME NEW w \in Workers, OfferWrite(w)
      PROVE  /\ OneRequestRoutes'
             /\ LapseAlone'
             /\ \A x \in Workers : CopyOK(x)'
             /\ \A x \in Workers : StaleLoses(x)'
  <2>1. OneRequestRoutes'
    BY <1>7
    DEF OfferWrite, At, GoTo, Claimable, Idle, taskVars, offerVars, PassInv,
        OneRequestRoutes, Passing, TypeInv, RoutingTypeOK, JobOK, OfferInv,
        OnePassAtATime, Workers, ClaimPcs, RoutingPcs, SweepPcs, ReturnPcs
  <2>2. LapseAlone'
    BY <1>7
    DEF OfferWrite, At, GoTo, Claimable, Idle, taskVars, offerVars, PassInv,
        LapseAlone, Passing, TypeInv, RoutingTypeOK, JobOK, OfferInv,
        HeldIsNotOffered, OnePassAtATime, Workers, ClaimPcs, RoutingPcs,
        SweepPcs, ReturnPcs
  <2>3. \A x \in Workers : CopyOK(x)'
    BY <1>7
    DEF OfferWrite, At, GoTo, Claimable, Idle, taskVars, offerVars, PassInv,
        CopyOK, TypeInv, RoutingTypeOK, OfferInv, Workers, ClaimPcs,
        RoutingPcs, SweepPcs, ReturnPcs
  <2>4. \A x \in Workers : StaleLoses(x)'
    BY <1>7
    DEF OfferWrite, At, GoTo, Claimable, Idle, taskVars, offerVars, PassInv,
        StaleLoses, Stale, Stirring, CopyOK, LapseAlone, OneRequestRoutes,
        Passing, TypeInv, RoutingTypeOK, JobOK, NamingPcs, OfferInv,
        HeldIsNotOffered, OnePassAtATime, Workers, ClaimPcs, Eligible,
        RoutingPcs, SweepPcs, ReturnPcs
  <2> QED
    BY <2>1, <2>2, <2>3, <2>4
<1>8. ASSUME NEW w \in Workers, OfferLost(w)
      PROVE  /\ OneRequestRoutes'
             /\ LapseAlone'
             /\ \A x \in Workers : CopyOK(x)'
             /\ \A x \in Workers : StaleLoses(x)'
  <2>1. OneRequestRoutes'
    BY <1>8
    DEF OfferLost, At, EndJob, Claimable, Idle, taskVars, offerVars, PassInv,
        OneRequestRoutes, Passing, TypeInv, RoutingTypeOK, JobOK, OfferInv,
        OnePassAtATime, Workers, ClaimPcs, RoutingPcs, SweepPcs, ReturnPcs
  <2>2. LapseAlone'
    BY <1>8
    DEF OfferLost, At, EndJob, Claimable, Idle, taskVars, offerVars, PassInv,
        LapseAlone, Passing, TypeInv, RoutingTypeOK, JobOK, OfferInv,
        HeldIsNotOffered, OnePassAtATime, Workers, ClaimPcs, RoutingPcs,
        SweepPcs, ReturnPcs
  <2>3. \A x \in Workers : CopyOK(x)'
    BY <1>8
    DEF OfferLost, At, EndJob, Claimable, Idle, taskVars, offerVars, PassInv,
        CopyOK, TypeInv, RoutingTypeOK, OfferInv, Workers, ClaimPcs,
        RoutingPcs, SweepPcs, ReturnPcs
  <2>4. \A x \in Workers : StaleLoses(x)'
    BY <1>8
    DEF OfferLost, At, EndJob, Claimable, Idle, taskVars, offerVars, PassInv,
        StaleLoses, Stale, Stirring, CopyOK, LapseAlone, OneRequestRoutes,
        Passing, TypeInv, RoutingTypeOK, JobOK, NamingPcs, OfferInv,
        HeldIsNotOffered, OnePassAtATime, Workers, ClaimPcs, Eligible,
        RoutingPcs, SweepPcs, ReturnPcs
  <2> QED
    BY <2>1, <2>2, <2>3, <2>4
<1>9. ASSUME NEW w \in Workers, OfferRow(w)
      PROVE  /\ OneRequestRoutes'
             /\ LapseAlone'
             /\ \A x \in Workers : CopyOK(x)'
             /\ \A x \in Workers : StaleLoses(x)'
  <2>1. OneRequestRoutes'
    BY <1>9
    DEF OfferRow, At, EndJob, Idle, taskVars, offerVars, PassInv,
        OneRequestRoutes, Passing, TypeInv, RoutingTypeOK, JobOK, OfferInv,
        OnePassAtATime, Workers, ClaimPcs, RoutingPcs, SweepPcs, ReturnPcs
  <2>2. LapseAlone'
    BY <1>9
    DEF OfferRow, At, EndJob, Idle, taskVars, offerVars, PassInv, LapseAlone,
        Passing, TypeInv, RoutingTypeOK, JobOK, OfferInv, HeldIsNotOffered,
        OnePassAtATime, Workers, ClaimPcs, RoutingPcs, SweepPcs, ReturnPcs
  <2>3. \A x \in Workers : CopyOK(x)'
    BY <1>9
    DEF OfferRow, At, EndJob, Idle, taskVars, offerVars, PassInv, CopyOK,
        TypeInv, RoutingTypeOK, OfferInv, Workers, ClaimPcs, RoutingPcs,
        SweepPcs, ReturnPcs
  <2>4. \A x \in Workers : StaleLoses(x)'
    BY <1>9
    DEF OfferRow, At, EndJob, Idle, taskVars, offerVars, PassInv, StaleLoses,
        Stale, Stirring, CopyOK, LapseAlone, OneRequestRoutes, Passing,
        TypeInv, RoutingTypeOK, JobOK, NamingPcs, OfferInv, HeldIsNotOffered,
        OnePassAtATime, Workers, ClaimPcs, Claimable, Eligible, RoutingPcs,
        SweepPcs, ReturnPcs
  <2> QED
    BY <2>1, <2>2, <2>3, <2>4
<1>10. ASSUME NEW w \in Workers, ReleaseOffer(w)
      PROVE  /\ OneRequestRoutes'
             /\ LapseAlone'
             /\ \A x \in Workers : CopyOK(x)'
             /\ \A x \in Workers : StaleLoses(x)'
  <2>1. OneRequestRoutes'
    <3>1. \A v \in Workers : Passing(v)' => Passing(v)
      BY <1>10, ReleaseEffect DEF Passing, RoutingPcs, ReturnPcs
    <3> QED
      BY <3>1 DEF PassInv, OneRequestRoutes, Workers
  <2>2. LapseAlone'
    BY <1>10, ReleaseEffect
    DEF taskVars, PassInv, LapseAlone, Passing, TypeInv, RoutingTypeOK, JobOK,
        OfferInv, HeldIsNotOffered, OnePassAtATime, Workers, ClaimPcs,
        RoutingPcs, SweepPcs, ReturnPcs
  <2>3. \A x \in Workers : CopyOK(x)'
    BY <1>10, ReleaseEffect
    DEF taskVars, PassInv, CopyOK, TypeInv, RoutingTypeOK, OfferInv, Workers,
        ClaimPcs, RoutingPcs, SweepPcs, ReturnPcs
  <2>4. \A x \in Workers : StaleLoses(x)'
    <3>1. ASSUME NEW x \in Workers, Stale(x)'
          PROVE  x # w /\ Stale(x)
      <4>1. offeredCaptainIds' = offeredCaptainIds /\ jobs'[w].pc \in {"miss", "idle"}
        BY <1>10, ReleaseEffect
      <4>2. x # w
        BY <3>1, <4>1 DEF Stale
      <4>3. jobs'[x] = jobs[x]
        BY <1>10, <4>2, ReleaseEffect
      <4> QED
        BY <3>1, <4>1, <4>2, <4>3 DEF Stale
    <3>2. Claimable' => Claimable
      BY <1>10, ReleaseEffect DEF Claimable
    <3>3. \A x \in Workers \ {w} : ~(Stale(x) /\ Claimable)
      BY <1>10, ReleaseEffect DEF PassInv, StaleLoses, Stirring, SweepPcs
    <3> QED
      BY <3>1, <3>2, <3>3 DEF StaleLoses
  <2> QED
    BY <2>1, <2>2, <2>3, <2>4
<1>11. ASSUME NEW w \in Workers, MarkMissed(w)
      PROVE  /\ OneRequestRoutes'
             /\ LapseAlone'
             /\ \A x \in Workers : CopyOK(x)'
             /\ \A x \in Workers : StaleLoses(x)'
  <2>1. OneRequestRoutes'
    BY <1>11
    DEF MarkMissed, At, GoTo, Idle, taskVars, offerVars, PassInv,
        OneRequestRoutes, Passing, TypeInv, RoutingTypeOK, JobOK, OfferInv,
        OnePassAtATime, Workers, ClaimPcs, RoutingPcs, SweepPcs, ReturnPcs
  <2>2. LapseAlone'
    BY <1>11
    DEF MarkMissed, At, GoTo, Idle, taskVars, offerVars, PassInv, LapseAlone,
        Passing, TypeInv, RoutingTypeOK, JobOK, OfferInv, HeldIsNotOffered,
        OnePassAtATime, Workers, ClaimPcs, RoutingPcs, SweepPcs, ReturnPcs
  <2>3. \A x \in Workers : CopyOK(x)'
    BY <1>11
    DEF MarkMissed, At, GoTo, Idle, taskVars, offerVars, PassInv, CopyOK,
        TypeInv, RoutingTypeOK, OfferInv, Workers, ClaimPcs, RoutingPcs,
        SweepPcs, ReturnPcs
  <2>4. \A x \in Workers : StaleLoses(x)'
    BY <1>11
    DEF MarkMissed, At, GoTo, Idle, taskVars, offerVars, PassInv, StaleLoses,
        Stale, Stirring, CopyOK, LapseAlone, OneRequestRoutes, Passing,
        TypeInv, RoutingTypeOK, JobOK, NamingPcs, OfferInv, HeldIsNotOffered,
        OnePassAtATime, Workers, ClaimPcs, Claimable, Eligible, RoutingPcs,
        SweepPcs, ReturnPcs
  <2> QED
    BY <2>1, <2>2, <2>3, <2>4
<1>12. ASSUME NEW w \in Workers, CountMissed(w)
      PROVE  /\ OneRequestRoutes'
             /\ LapseAlone'
             /\ \A x \in Workers : CopyOK(x)'
             /\ \A x \in Workers : StaleLoses(x)'
  <2>1. OneRequestRoutes'
    BY <1>12
    DEF CountMissed, At, StartRouting, Idle, taskVars, offerVars, PassInv,
        OneRequestRoutes, Passing, TypeInv, RoutingTypeOK, JobOK, OfferInv,
        OnePassAtATime, Workers, ClaimPcs, RoutingPcs, SweepPcs, ReturnPcs
  <2>2. LapseAlone'
    BY <1>12
    DEF CountMissed, At, StartRouting, Idle, taskVars, offerVars, PassInv,
        LapseAlone, Passing, TypeInv, RoutingTypeOK, JobOK, OfferInv,
        HeldIsNotOffered, OnePassAtATime, Workers, ClaimPcs, RoutingPcs,
        SweepPcs, ReturnPcs
  <2>3. \A x \in Workers : CopyOK(x)'
    BY <1>12
    DEF CountMissed, At, StartRouting, Idle, taskVars, offerVars, PassInv,
        CopyOK, TypeInv, RoutingTypeOK, OfferInv, Workers, ClaimPcs,
        RoutingPcs, SweepPcs, ReturnPcs
  <2>4. \A x \in Workers : StaleLoses(x)'
    BY <1>12
    DEF CountMissed, At, StartRouting, Idle, taskVars, offerVars, PassInv,
        StaleLoses, Stale, Stirring, CopyOK, LapseAlone, OneRequestRoutes,
        Passing, TypeInv, RoutingTypeOK, JobOK, NamingPcs, OfferInv,
        HeldIsNotOffered, OnePassAtATime, Workers, ClaimPcs, Claimable,
        Eligible, RoutingPcs, SweepPcs, ReturnPcs
  <2> QED
    BY <2>1, <2>2, <2>3, <2>4
<1>13. ASSUME NEW w \in Workers, ClaimWrite(w)
      PROVE  /\ OneRequestRoutes'
             /\ LapseAlone'
             /\ \A x \in Workers : CopyOK(x)'
             /\ \A x \in Workers : StaleLoses(x)'
  <2>1. OneRequestRoutes'
    BY <1>13
    DEF ClaimWrite, At, GoTo, Claimable, Idle, taskVars, offerVars, PassInv,
        OneRequestRoutes, Passing, TypeInv, RoutingTypeOK, JobOK, OfferInv,
        OnePassAtATime, Workers, ClaimPcs, RoutingPcs, SweepPcs, ReturnPcs
  <2>2. LapseAlone'
    BY <1>13
    DEF ClaimWrite, At, GoTo, Claimable, Idle, taskVars, offerVars, PassInv,
        LapseAlone, Passing, TypeInv, RoutingTypeOK, JobOK, OfferInv,
        HeldIsNotOffered, OnePassAtATime, Workers, ClaimPcs, RoutingPcs,
        SweepPcs, ReturnPcs
  <2>3. \A x \in Workers : CopyOK(x)'
    BY <1>13
    DEF ClaimWrite, At, GoTo, Claimable, Idle, taskVars, offerVars, PassInv,
        CopyOK, TypeInv, RoutingTypeOK, OfferInv, Workers, ClaimPcs,
        RoutingPcs, SweepPcs, ReturnPcs
  <2>4. \A x \in Workers : StaleLoses(x)'
    BY <1>13
    DEF ClaimWrite, At, GoTo, Claimable, Idle, taskVars, offerVars, PassInv,
        StaleLoses, Stale, Stirring, CopyOK, LapseAlone, OneRequestRoutes,
        Passing, TypeInv, RoutingTypeOK, JobOK, NamingPcs, OfferInv,
        HeldIsNotOffered, OnePassAtATime, Workers, ClaimPcs, Eligible,
        RoutingPcs, SweepPcs, ReturnPcs
  <2> QED
    BY <2>1, <2>2, <2>3, <2>4
<1>14. ASSUME NEW w \in Workers, ClaimRefused(w)
      PROVE  /\ OneRequestRoutes'
             /\ LapseAlone'
             /\ \A x \in Workers : CopyOK(x)'
             /\ \A x \in Workers : StaleLoses(x)'
  <2>1. OneRequestRoutes'
    BY <1>14
    DEF ClaimRefused, At, EndJob, Claimable, Idle, taskVars, offerVars,
        PassInv, OneRequestRoutes, Passing, TypeInv, RoutingTypeOK, JobOK,
        OfferInv, OnePassAtATime, Workers, ClaimPcs, RoutingPcs, SweepPcs,
        ReturnPcs
  <2>2. LapseAlone'
    BY <1>14
    DEF ClaimRefused, At, EndJob, Claimable, Idle, taskVars, offerVars,
        PassInv, LapseAlone, Passing, TypeInv, RoutingTypeOK, JobOK, OfferInv,
        HeldIsNotOffered, OnePassAtATime, Workers, ClaimPcs, RoutingPcs,
        SweepPcs, ReturnPcs
  <2>3. \A x \in Workers : CopyOK(x)'
    BY <1>14
    DEF ClaimRefused, At, EndJob, Claimable, Idle, taskVars, offerVars,
        PassInv, CopyOK, TypeInv, RoutingTypeOK, OfferInv, Workers, ClaimPcs,
        RoutingPcs, SweepPcs, ReturnPcs
  <2>4. \A x \in Workers : StaleLoses(x)'
    BY <1>14
    DEF ClaimRefused, At, EndJob, Claimable, Idle, taskVars, offerVars,
        PassInv, StaleLoses, Stale, Stirring, CopyOK, LapseAlone,
        OneRequestRoutes, Passing, TypeInv, RoutingTypeOK, JobOK, NamingPcs,
        OfferInv, HeldIsNotOffered, OnePassAtATime, Workers, ClaimPcs,
        Eligible, RoutingPcs, SweepPcs, ReturnPcs
  <2> QED
    BY <2>1, <2>2, <2>3, <2>4
<1>15. ASSUME NEW w \in Workers, MarkOfferAccepted(w)
      PROVE  /\ OneRequestRoutes'
             /\ LapseAlone'
             /\ \A x \in Workers : CopyOK(x)'
             /\ \A x \in Workers : StaleLoses(x)'
  <2>1. OneRequestRoutes'
    BY <1>15
    DEF MarkOfferAccepted, At, GoTo, Idle, taskVars, offerVars, PassInv,
        OneRequestRoutes, Passing, TypeInv, RoutingTypeOK, JobOK, OfferInv,
        OnePassAtATime, Workers, ClaimPcs, RoutingPcs, SweepPcs, ReturnPcs
  <2>2. LapseAlone'
    BY <1>15
    DEF MarkOfferAccepted, At, GoTo, Idle, taskVars, offerVars, PassInv,
        LapseAlone, Passing, TypeInv, RoutingTypeOK, JobOK, OfferInv,
        HeldIsNotOffered, OnePassAtATime, Workers, ClaimPcs, RoutingPcs,
        SweepPcs, ReturnPcs
  <2>3. \A x \in Workers : CopyOK(x)'
    BY <1>15
    DEF MarkOfferAccepted, At, GoTo, Idle, taskVars, offerVars, PassInv,
        CopyOK, TypeInv, RoutingTypeOK, OfferInv, Workers, ClaimPcs,
        RoutingPcs, SweepPcs, ReturnPcs
  <2>4. \A x \in Workers : StaleLoses(x)'
    BY <1>15
    DEF MarkOfferAccepted, At, GoTo, Idle, taskVars, offerVars, PassInv,
        StaleLoses, Stale, Stirring, CopyOK, LapseAlone, OneRequestRoutes,
        Passing, TypeInv, RoutingTypeOK, JobOK, NamingPcs, OfferInv,
        HeldIsNotOffered, OnePassAtATime, Workers, ClaimPcs, Claimable,
        Eligible, RoutingPcs, SweepPcs, ReturnPcs
  <2> QED
    BY <2>1, <2>2, <2>3, <2>4
<1>16. ASSUME NEW w \in Workers, WithdrawOthers(w)
      PROVE  /\ OneRequestRoutes'
             /\ LapseAlone'
             /\ \A x \in Workers : CopyOK(x)'
             /\ \A x \in Workers : StaleLoses(x)'
  <2>1. OneRequestRoutes'
    BY <1>16
    DEF WithdrawOthers, At, EndJob, WithdrawFrom, Idle, taskVars, offerVars,
        PassInv, OneRequestRoutes, Passing, TypeInv, RoutingTypeOK, JobOK,
        OfferInv, OnePassAtATime, Workers, ClaimPcs, RoutingPcs, SweepPcs,
        ReturnPcs
  <2>2. LapseAlone'
    BY <1>16
    DEF WithdrawOthers, At, EndJob, WithdrawFrom, Idle, taskVars, offerVars,
        PassInv, LapseAlone, Passing, TypeInv, RoutingTypeOK, JobOK, OfferInv,
        HeldIsNotOffered, OnePassAtATime, Workers, ClaimPcs, RoutingPcs,
        SweepPcs, ReturnPcs
  <2>3. \A x \in Workers : CopyOK(x)'
    BY <1>16
    DEF WithdrawOthers, At, EndJob, WithdrawFrom, Idle, taskVars, offerVars,
        PassInv, CopyOK, TypeInv, RoutingTypeOK, OfferInv, Workers, ClaimPcs,
        RoutingPcs, SweepPcs, ReturnPcs
  <2>4. \A x \in Workers : StaleLoses(x)'
    BY <1>16
    DEF WithdrawOthers, At, EndJob, WithdrawFrom, Idle, taskVars, offerVars,
        PassInv, StaleLoses, Stale, Stirring, CopyOK, LapseAlone,
        OneRequestRoutes, Passing, TypeInv, RoutingTypeOK, JobOK, NamingPcs,
        OfferInv, HeldIsNotOffered, OnePassAtATime, Workers, ClaimPcs,
        Claimable, Eligible, RoutingPcs, SweepPcs, ReturnPcs
  <2> QED
    BY <2>1, <2>2, <2>3, <2>4
<1>17. ASSUME NEW w \in Workers, ClearOffer(w)
      PROVE  /\ OneRequestRoutes'
             /\ LapseAlone'
             /\ \A x \in Workers : CopyOK(x)'
             /\ \A x \in Workers : StaleLoses(x)'
  <2>1. OneRequestRoutes'
    BY <1>17
    DEF ClearOffer, At, GoTo, Idle, taskVars, offerVars, PassInv,
        OneRequestRoutes, Passing, TypeInv, RoutingTypeOK, JobOK, OfferInv,
        OnePassAtATime, Workers, ClaimPcs, RoutingPcs, SweepPcs, ReturnPcs
  <2>2. LapseAlone'
    BY <1>17
    DEF ClearOffer, At, GoTo, Idle, taskVars, offerVars, PassInv, LapseAlone,
        Passing, TypeInv, RoutingTypeOK, JobOK, OfferInv, HeldIsNotOffered,
        OnePassAtATime, Workers, ClaimPcs, RoutingPcs, SweepPcs, ReturnPcs
  <2>3. \A x \in Workers : CopyOK(x)'
    BY <1>17
    DEF ClearOffer, At, GoTo, Idle, taskVars, offerVars, PassInv, CopyOK,
        TypeInv, RoutingTypeOK, OfferInv, Workers, ClaimPcs, RoutingPcs,
        SweepPcs, ReturnPcs
  <2>4. \A x \in Workers : StaleLoses(x)'
    BY <1>17
    DEF ClearOffer, At, GoTo, Idle, taskVars, offerVars, PassInv, StaleLoses,
        Stale, Stirring, CopyOK, LapseAlone, OneRequestRoutes, Passing,
        TypeInv, RoutingTypeOK, JobOK, NamingPcs, OfferInv, HeldIsNotOffered,
        OnePassAtATime, Workers, ClaimPcs, Claimable, Eligible, RoutingPcs,
        SweepPcs, ReturnPcs
  <2> QED
    BY <2>1, <2>2, <2>3, <2>4
<1>18. ASSUME NEW w \in Workers, WithdrawAll(w)
      PROVE  /\ OneRequestRoutes'
             /\ LapseAlone'
             /\ \A x \in Workers : CopyOK(x)'
             /\ \A x \in Workers : StaleLoses(x)'
  <2>1. OneRequestRoutes'
    BY <1>18
    DEF WithdrawAll, At, StartRouting, WithdrawFrom, Idle, taskVars,
        offerVars, PassInv, OneRequestRoutes, Passing, TypeInv, RoutingTypeOK,
        JobOK, OfferInv, OnePassAtATime, Workers, ClaimPcs, RoutingPcs,
        SweepPcs, ReturnPcs
  <2>2. LapseAlone'
    BY <1>18
    DEF WithdrawAll, At, StartRouting, WithdrawFrom, Idle, taskVars,
        offerVars, PassInv, LapseAlone, Passing, TypeInv, RoutingTypeOK,
        JobOK, OfferInv, HeldIsNotOffered, OnePassAtATime, Workers, ClaimPcs,
        RoutingPcs, SweepPcs, ReturnPcs
  <2>3. \A x \in Workers : CopyOK(x)'
    BY <1>18
    DEF WithdrawAll, At, StartRouting, WithdrawFrom, Idle, taskVars,
        offerVars, PassInv, CopyOK, TypeInv, RoutingTypeOK, OfferInv, Workers,
        ClaimPcs, RoutingPcs, SweepPcs, ReturnPcs
  <2>4. \A x \in Workers : StaleLoses(x)'
    BY <1>18
    DEF WithdrawAll, At, StartRouting, WithdrawFrom, Idle, taskVars,
        offerVars, PassInv, StaleLoses, Stale, Stirring, CopyOK, LapseAlone,
        OneRequestRoutes, Passing, TypeInv, RoutingTypeOK, JobOK, NamingPcs,
        OfferInv, HeldIsNotOffered, OnePassAtATime, Workers, ClaimPcs,
        Claimable, Eligible, RoutingPcs, SweepPcs, ReturnPcs
  <2> QED
    BY <2>1, <2>2, <2>3, <2>4
<1>19. ASSUME NEW w \in Workers, WithdrawClosed(w)
      PROVE  /\ OneRequestRoutes'
             /\ LapseAlone'
             /\ \A x \in Workers : CopyOK(x)'
             /\ \A x \in Workers : StaleLoses(x)'
  <2>1. OneRequestRoutes'
    BY <1>19
    DEF WithdrawClosed, At, EndJob, WithdrawFrom, Idle, taskVars, offerVars,
        PassInv, OneRequestRoutes, Passing, TypeInv, RoutingTypeOK, JobOK,
        OfferInv, OnePassAtATime, Workers, ClaimPcs, RoutingPcs, SweepPcs,
        ReturnPcs
  <2>2. LapseAlone'
    BY <1>19
    DEF WithdrawClosed, At, EndJob, WithdrawFrom, Idle, taskVars, offerVars,
        PassInv, LapseAlone, Passing, TypeInv, RoutingTypeOK, JobOK, OfferInv,
        HeldIsNotOffered, OnePassAtATime, Workers, ClaimPcs, RoutingPcs,
        SweepPcs, ReturnPcs
  <2>3. \A x \in Workers : CopyOK(x)'
    BY <1>19
    DEF WithdrawClosed, At, EndJob, WithdrawFrom, Idle, taskVars, offerVars,
        PassInv, CopyOK, TypeInv, RoutingTypeOK, OfferInv, Workers, ClaimPcs,
        RoutingPcs, SweepPcs, ReturnPcs
  <2>4. \A x \in Workers : StaleLoses(x)'
    BY <1>19
    DEF WithdrawClosed, At, EndJob, WithdrawFrom, Idle, taskVars, offerVars,
        PassInv, StaleLoses, Stale, Stirring, CopyOK, LapseAlone,
        OneRequestRoutes, Passing, TypeInv, RoutingTypeOK, JobOK, NamingPcs,
        OfferInv, HeldIsNotOffered, OnePassAtATime, Workers, ClaimPcs,
        Claimable, Eligible, RoutingPcs, SweepPcs, ReturnPcs
  <2> QED
    BY <2>1, <2>2, <2>3, <2>4
<1>20. ASSUME NEW w \in Requests, CreateTask(w)
      PROVE  /\ OneRequestRoutes'
             /\ LapseAlone'
             /\ \A x \in Workers : CopyOK(x)'
             /\ \A x \in Workers : StaleLoses(x)'
  <2>1. OneRequestRoutes'
    BY <1>20
    DEF CreateTask, Begin, Idle, taskVars, offerVars, PassInv,
        OneRequestRoutes, Passing, TypeInv, RoutingTypeOK, JobOK, OfferInv,
        OnePassAtATime, Workers, ClaimPcs, RoutingPcs, SweepPcs, ReturnPcs
  <2>2. LapseAlone'
    BY <1>20
    DEF CreateTask, Begin, Idle, taskVars, offerVars, PassInv, LapseAlone,
        Passing, TypeInv, RoutingTypeOK, JobOK, OfferInv, HeldIsNotOffered,
        OnePassAtATime, Workers, ClaimPcs, RoutingPcs, SweepPcs, ReturnPcs
  <2>3. \A x \in Workers : CopyOK(x)'
    BY <1>20
    DEF CreateTask, Begin, Idle, taskVars, offerVars, PassInv, CopyOK,
        TypeInv, RoutingTypeOK, OfferInv, Workers, ClaimPcs, RoutingPcs,
        SweepPcs, ReturnPcs
  <2>4. \A x \in Workers : StaleLoses(x)'
    BY <1>20
    DEF CreateTask, Begin, Idle, taskVars, offerVars, PassInv, StaleLoses,
        Stale, Stirring, CopyOK, LapseAlone, OneRequestRoutes, Passing,
        TypeInv, RoutingTypeOK, JobOK, NamingPcs, OfferInv, HeldIsNotOffered,
        OnePassAtATime, Workers, ClaimPcs, Claimable, Eligible, RoutingPcs,
        SweepPcs, ReturnPcs
  <2> QED
    BY <2>1, <2>2, <2>3, <2>4
<1>21. ASSUME NEW w \in Requests, Reassign(w)
      PROVE  /\ OneRequestRoutes'
             /\ LapseAlone'
             /\ \A x \in Workers : CopyOK(x)'
             /\ \A x \in Workers : StaleLoses(x)'
  <2>1. OneRequestRoutes'
    BY <1>21
    DEF Reassign, Begin, Settled, Idle, taskVars, offerVars, PassInv,
        OneRequestRoutes, Passing, TypeInv, RoutingTypeOK, JobOK, OfferInv,
        OnePassAtATime, Workers, ClaimPcs, RoutingPcs, SweepPcs, ReturnPcs
  <2>2. LapseAlone'
    BY <1>21
    DEF Reassign, Begin, Settled, Idle, taskVars, offerVars, PassInv,
        LapseAlone, Passing, TypeInv, RoutingTypeOK, JobOK, OfferInv,
        HeldIsNotOffered, OnePassAtATime, Workers, ClaimPcs, RoutingPcs,
        SweepPcs, ReturnPcs
  <2>3. \A x \in Workers : CopyOK(x)'
    BY <1>21
    DEF Reassign, Begin, Settled, Idle, taskVars, offerVars, PassInv, CopyOK,
        TypeInv, RoutingTypeOK, OfferInv, Workers, ClaimPcs, RoutingPcs,
        SweepPcs, ReturnPcs
  <2>4. \A x \in Workers : StaleLoses(x)'
    BY <1>21
    DEF Reassign, Begin, Settled, Idle, taskVars, offerVars, PassInv,
        StaleLoses, Stale, Stirring, CopyOK, LapseAlone, OneRequestRoutes,
        Passing, TypeInv, RoutingTypeOK, JobOK, NamingPcs, OfferInv,
        HeldIsNotOffered, OnePassAtATime, Workers, ClaimPcs, Claimable,
        Eligible, RoutingPcs, SweepPcs, ReturnPcs
  <2> QED
    BY <2>1, <2>2, <2>3, <2>4
<1>22. ASSUME NEW w \in Requests, NEW c \in Captains, ClaimRead(w, c)
      PROVE  /\ OneRequestRoutes'
             /\ LapseAlone'
             /\ \A x \in Workers : CopyOK(x)'
             /\ \A x \in Workers : StaleLoses(x)'
  <2>1. OneRequestRoutes'
    BY <1>22
    DEF ClaimRead, Begin, Claimable, Idle, taskVars, offerVars, PassInv,
        OneRequestRoutes, Passing, TypeInv, RoutingTypeOK, JobOK, OfferInv,
        OnePassAtATime, Workers, ClaimPcs, RoutingPcs, SweepPcs, ReturnPcs
  <2>2. LapseAlone'
    BY <1>22
    DEF ClaimRead, Begin, Claimable, Idle, taskVars, offerVars, PassInv,
        LapseAlone, Passing, TypeInv, RoutingTypeOK, JobOK, OfferInv,
        HeldIsNotOffered, OnePassAtATime, Workers, ClaimPcs, RoutingPcs,
        SweepPcs, ReturnPcs
  <2>3. \A x \in Workers : CopyOK(x)'
    BY <1>22
    DEF ClaimRead, Begin, Claimable, Idle, taskVars, offerVars, PassInv,
        CopyOK, TypeInv, RoutingTypeOK, OfferInv, Workers, ClaimPcs,
        RoutingPcs, SweepPcs, ReturnPcs
  <2>4. \A x \in Workers : StaleLoses(x)'
    BY <1>22
    DEF ClaimRead, Begin, Claimable, Idle, taskVars, offerVars, PassInv,
        StaleLoses, Stale, Stirring, CopyOK, LapseAlone, OneRequestRoutes,
        Passing, TypeInv, RoutingTypeOK, JobOK, NamingPcs, OfferInv,
        HeldIsNotOffered, OnePassAtATime, Workers, ClaimPcs, Eligible,
        RoutingPcs, SweepPcs, ReturnPcs
  <2> QED
    BY <2>1, <2>2, <2>3, <2>4
<1>23. ASSUME NEW w \in Sweepers, SweepLapsed(w)
      PROVE  /\ OneRequestRoutes'
             /\ LapseAlone'
             /\ \A x \in Workers : CopyOK(x)'
             /\ \A x \in Workers : StaleLoses(x)'
  <2>1. OneRequestRoutes'
    BY <1>23
    DEF SweepLapsed, Begin, Claimable, Idle, taskVars, offerVars, PassInv,
        OneRequestRoutes, Passing, TypeInv, RoutingTypeOK, JobOK, OfferInv,
        OnePassAtATime, Workers, ClaimPcs, RoutingPcs, SweepPcs, ReturnPcs
  <2>2. LapseAlone'
    BY <1>23
    DEF SweepLapsed, Begin, Claimable, Idle, taskVars, offerVars, PassInv,
        LapseAlone, Passing, TypeInv, RoutingTypeOK, JobOK, OfferInv,
        HeldIsNotOffered, OnePassAtATime, Workers, ClaimPcs, RoutingPcs,
        SweepPcs, ReturnPcs
  <2>3. \A x \in Workers : CopyOK(x)'
    BY <1>23
    DEF SweepLapsed, Begin, Claimable, Idle, taskVars, offerVars, PassInv,
        CopyOK, TypeInv, RoutingTypeOK, OfferInv, Workers, ClaimPcs,
        RoutingPcs, SweepPcs, ReturnPcs
  <2>4. \A x \in Workers : StaleLoses(x)'
    BY <1>23
    DEF SweepLapsed, Begin, Claimable, Idle, taskVars, offerVars, PassInv,
        StaleLoses, Stale, Stirring, CopyOK, LapseAlone, OneRequestRoutes,
        Passing, TypeInv, RoutingTypeOK, JobOK, NamingPcs, OfferInv,
        HeldIsNotOffered, OnePassAtATime, Workers, ClaimPcs, Eligible,
        RoutingPcs, SweepPcs, ReturnPcs
  <2> QED
    BY <2>1, <2>2, <2>3, <2>4
<1>24. ASSUME NEW w \in Sweepers, SweepUnrouted(w)
      PROVE  /\ OneRequestRoutes'
             /\ LapseAlone'
             /\ \A x \in Workers : CopyOK(x)'
             /\ \A x \in Workers : StaleLoses(x)'
  <2>1. OneRequestRoutes'
    BY <1>24
    DEF SweepUnrouted, Begin, Claimable, Idle, taskVars, offerVars, PassInv,
        OneRequestRoutes, Passing, TypeInv, RoutingTypeOK, JobOK, OfferInv,
        OnePassAtATime, Workers, ClaimPcs, RoutingPcs, SweepPcs, ReturnPcs
  <2>2. LapseAlone'
    BY <1>24
    DEF SweepUnrouted, Begin, Claimable, Idle, taskVars, offerVars, PassInv,
        LapseAlone, Passing, TypeInv, RoutingTypeOK, JobOK, OfferInv,
        HeldIsNotOffered, OnePassAtATime, Workers, ClaimPcs, RoutingPcs,
        SweepPcs, ReturnPcs
  <2>3. \A x \in Workers : CopyOK(x)'
    BY <1>24
    DEF SweepUnrouted, Begin, Claimable, Idle, taskVars, offerVars, PassInv,
        CopyOK, TypeInv, RoutingTypeOK, OfferInv, Workers, ClaimPcs,
        RoutingPcs, SweepPcs, ReturnPcs
  <2>4. \A x \in Workers : StaleLoses(x)'
    BY <1>24
    DEF SweepUnrouted, Begin, Claimable, Idle, taskVars, offerVars, PassInv,
        StaleLoses, Stale, Stirring, CopyOK, LapseAlone, OneRequestRoutes,
        Passing, TypeInv, RoutingTypeOK, JobOK, NamingPcs, OfferInv,
        HeldIsNotOffered, OnePassAtATime, Workers, ClaimPcs, Eligible,
        RoutingPcs, SweepPcs, ReturnPcs
  <2> QED
    BY <2>1, <2>2, <2>3, <2>4
<1>25. ASSUME NEW w \in Sweepers, ExpireUnclaimed(w)
      PROVE  /\ OneRequestRoutes'
             /\ LapseAlone'
             /\ \A x \in Workers : CopyOK(x)'
             /\ \A x \in Workers : StaleLoses(x)'
  <2>1. OneRequestRoutes'
    BY <1>25
    DEF ExpireUnclaimed, Begin, Claimable, Idle, taskVars, offerVars, PassInv,
        OneRequestRoutes, Passing, TypeInv, RoutingTypeOK, JobOK, OfferInv,
        OnePassAtATime, Workers, ClaimPcs, RoutingPcs, SweepPcs, ReturnPcs
  <2>2. LapseAlone'
    BY <1>25
    DEF ExpireUnclaimed, Begin, Claimable, Idle, taskVars, offerVars, PassInv,
        LapseAlone, Passing, TypeInv, RoutingTypeOK, JobOK, OfferInv,
        HeldIsNotOffered, OnePassAtATime, Workers, ClaimPcs, RoutingPcs,
        SweepPcs, ReturnPcs
  <2>3. \A x \in Workers : CopyOK(x)'
    BY <1>25
    DEF ExpireUnclaimed, Begin, Claimable, Idle, taskVars, offerVars, PassInv,
        CopyOK, TypeInv, RoutingTypeOK, OfferInv, Workers, ClaimPcs,
        RoutingPcs, SweepPcs, ReturnPcs
  <2>4. \A x \in Workers : StaleLoses(x)'
    BY <1>25
    DEF ExpireUnclaimed, Begin, Claimable, Idle, taskVars, offerVars, PassInv,
        StaleLoses, Stale, Stirring, CopyOK, LapseAlone, OneRequestRoutes,
        Passing, TypeInv, RoutingTypeOK, JobOK, NamingPcs, OfferInv,
        HeldIsNotOffered, OnePassAtATime, Workers, ClaimPcs, Eligible,
        RoutingPcs, SweepPcs, ReturnPcs
  <2> QED
    BY <2>1, <2>2, <2>3, <2>4
<1>26. ASSUME NEW c \in Captains, CaptainChanges(c)
      PROVE  /\ OneRequestRoutes'
             /\ LapseAlone'
             /\ \A x \in Workers : CopyOK(x)'
             /\ \A x \in Workers : StaleLoses(x)'
  <2>1. OneRequestRoutes'
    BY <1>26
    DEF CaptainChanges, Idle, taskVars, offerVars, PassInv, OneRequestRoutes,
        Passing, TypeInv, RoutingTypeOK, JobOK, OfferInv, OnePassAtATime,
        Workers, ClaimPcs, RoutingPcs, SweepPcs, ReturnPcs
  <2>2. LapseAlone'
    BY <1>26
    DEF CaptainChanges, Idle, taskVars, offerVars, PassInv, LapseAlone,
        Passing, TypeInv, RoutingTypeOK, JobOK, OfferInv, HeldIsNotOffered,
        OnePassAtATime, Workers, ClaimPcs, RoutingPcs, SweepPcs, ReturnPcs
  <2>3. \A x \in Workers : CopyOK(x)'
    BY <1>26
    DEF CaptainChanges, Idle, taskVars, offerVars, PassInv, CopyOK, TypeInv,
        RoutingTypeOK, OfferInv, Workers, ClaimPcs, RoutingPcs, SweepPcs,
        ReturnPcs
  <2>4. \A x \in Workers : StaleLoses(x)'
    BY <1>26
    DEF CaptainChanges, Idle, taskVars, offerVars, PassInv, StaleLoses, Stale,
        Stirring, CopyOK, LapseAlone, OneRequestRoutes, Passing, TypeInv,
        RoutingTypeOK, JobOK, NamingPcs, OfferInv, HeldIsNotOffered,
        OnePassAtATime, Workers, ClaimPcs, Claimable, Eligible, RoutingPcs,
        SweepPcs, ReturnPcs
  <2> QED
    BY <2>1, <2>2, <2>3, <2>4
<1>27. ASSUME OfferLapses
      PROVE  /\ OneRequestRoutes'
             /\ LapseAlone'
             /\ \A x \in Workers : CopyOK(x)'
             /\ \A x \in Workers : StaleLoses(x)'
  <2>1. OneRequestRoutes'
    BY <1>27
    DEF OfferLapses, Settled, taskVars, offerVars, PassInv, OneRequestRoutes,
        Passing, TypeInv, RoutingTypeOK, JobOK, OfferInv, OnePassAtATime,
        Workers, ClaimPcs, RoutingPcs, SweepPcs, ReturnPcs
  <2>2. LapseAlone'
    BY <1>27
    DEF OfferLapses, Settled, taskVars, offerVars, PassInv, LapseAlone,
        Passing, TypeInv, RoutingTypeOK, JobOK, OfferInv, HeldIsNotOffered,
        OnePassAtATime, Workers, ClaimPcs, RoutingPcs, SweepPcs, ReturnPcs
  <2>3. \A x \in Workers : CopyOK(x)'
    BY <1>27
    DEF OfferLapses, Settled, taskVars, offerVars, PassInv, CopyOK, TypeInv,
        RoutingTypeOK, OfferInv, Workers, ClaimPcs, RoutingPcs, SweepPcs,
        ReturnPcs
  <2>4. \A x \in Workers : StaleLoses(x)'
    BY <1>27
    DEF OfferLapses, Settled, taskVars, offerVars, PassInv, StaleLoses, Stale,
        Stirring, CopyOK, LapseAlone, OneRequestRoutes, Passing, TypeInv,
        RoutingTypeOK, JobOK, NamingPcs, OfferInv, HeldIsNotOffered,
        OnePassAtATime, Workers, ClaimPcs, Claimable, Eligible, RoutingPcs,
        SweepPcs, ReturnPcs
  <2> QED
    BY <2>1, <2>2, <2>3, <2>4
<1>28. ASSUME CancelUnclaimed
      PROVE  /\ OneRequestRoutes'
             /\ LapseAlone'
             /\ \A x \in Workers : CopyOK(x)'
             /\ \A x \in Workers : StaleLoses(x)'
  <2>1. OneRequestRoutes'
    BY <1>28
    DEF CancelUnclaimed, Claimable, taskVars, offerVars, PassInv,
        OneRequestRoutes, Passing, TypeInv, RoutingTypeOK, JobOK, OfferInv,
        OnePassAtATime, Workers, ClaimPcs, RoutingPcs, SweepPcs, ReturnPcs
  <2>2. LapseAlone'
    BY <1>28
    DEF CancelUnclaimed, Claimable, taskVars, offerVars, PassInv, LapseAlone,
        Passing, TypeInv, RoutingTypeOK, JobOK, OfferInv, HeldIsNotOffered,
        OnePassAtATime, Workers, ClaimPcs, RoutingPcs, SweepPcs, ReturnPcs
  <2>3. \A x \in Workers : CopyOK(x)'
    BY <1>28
    DEF CancelUnclaimed, Claimable, taskVars, offerVars, PassInv, CopyOK,
        TypeInv, RoutingTypeOK, OfferInv, Workers, ClaimPcs, RoutingPcs,
        SweepPcs, ReturnPcs
  <2>4. \A x \in Workers : StaleLoses(x)'
    BY <1>28
    DEF CancelUnclaimed, Claimable, taskVars, offerVars, PassInv, StaleLoses,
        Stale, Stirring, CopyOK, LapseAlone, OneRequestRoutes, Passing,
        TypeInv, RoutingTypeOK, JobOK, NamingPcs, OfferInv, HeldIsNotOffered,
        OnePassAtATime, Workers, ClaimPcs, Eligible, RoutingPcs, SweepPcs,
        ReturnPcs
  <2> QED
    BY <2>1, <2>2, <2>3, <2>4
<1>29. ASSUME CloseHeld
      PROVE  /\ OneRequestRoutes'
             /\ LapseAlone'
             /\ \A x \in Workers : CopyOK(x)'
             /\ \A x \in Workers : StaleLoses(x)'
  <2>1. OneRequestRoutes'
    BY <1>29
    DEF CloseHeld, taskVars, offerVars, PassInv, OneRequestRoutes, Passing,
        TypeInv, RoutingTypeOK, JobOK, OfferInv, OnePassAtATime, Workers,
        ClaimPcs, RoutingPcs, SweepPcs, ReturnPcs
  <2>2. LapseAlone'
    BY <1>29
    DEF CloseHeld, taskVars, offerVars, PassInv, LapseAlone, Passing, TypeInv,
        RoutingTypeOK, JobOK, OfferInv, HeldIsNotOffered, OnePassAtATime,
        Workers, ClaimPcs, RoutingPcs, SweepPcs, ReturnPcs
  <2>3. \A x \in Workers : CopyOK(x)'
    BY <1>29
    DEF CloseHeld, taskVars, offerVars, PassInv, CopyOK, TypeInv,
        RoutingTypeOK, OfferInv, Workers, ClaimPcs, RoutingPcs, SweepPcs,
        ReturnPcs
  <2>4. \A x \in Workers : StaleLoses(x)'
    BY <1>29
    DEF CloseHeld, taskVars, offerVars, PassInv, StaleLoses, Stale, Stirring,
        CopyOK, LapseAlone, OneRequestRoutes, Passing, TypeInv, RoutingTypeOK,
        JobOK, NamingPcs, OfferInv, HeldIsNotOffered, OnePassAtATime, Workers,
        ClaimPcs, Claimable, Eligible, RoutingPcs, SweepPcs, ReturnPcs
  <2> QED
    BY <2>1, <2>2, <2>3, <2>4
<1>30. ASSUME Crash
      PROVE  /\ OneRequestRoutes'
             /\ LapseAlone'
             /\ \A x \in Workers : CopyOK(x)'
             /\ \A x \in Workers : StaleLoses(x)'
  <2>1. OneRequestRoutes'
    BY <1>30
    DEF Crash, Idle, taskVars, offerVars, PassInv, OneRequestRoutes, Passing,
        TypeInv, RoutingTypeOK, JobOK, OfferInv, OnePassAtATime, Workers,
        ClaimPcs, RoutingPcs, SweepPcs, ReturnPcs
  <2>2. LapseAlone'
    BY <1>30
    DEF Crash, Idle, taskVars, offerVars, PassInv, LapseAlone, Passing,
        TypeInv, RoutingTypeOK, JobOK, OfferInv, HeldIsNotOffered,
        OnePassAtATime, Workers, ClaimPcs, RoutingPcs, SweepPcs, ReturnPcs
  <2>3. \A x \in Workers : CopyOK(x)'
    BY <1>30
    DEF Crash, Idle, taskVars, offerVars, PassInv, CopyOK, TypeInv,
        RoutingTypeOK, OfferInv, Workers, ClaimPcs, RoutingPcs, SweepPcs,
        ReturnPcs
  <2>4. \A x \in Workers : StaleLoses(x)'
    BY <1>30
    DEF Crash, Idle, taskVars, offerVars, PassInv, StaleLoses, Stale,
        Stirring, CopyOK, LapseAlone, OneRequestRoutes, Passing, TypeInv,
        RoutingTypeOK, JobOK, NamingPcs, OfferInv, HeldIsNotOffered,
        OnePassAtATime, Workers, ClaimPcs, Claimable, Eligible, RoutingPcs,
        SweepPcs, ReturnPcs
  <2> QED
    BY <2>1, <2>2, <2>3, <2>4
<1>31. ASSUME UNCHANGED vars
      PROVE  /\ OneRequestRoutes'
             /\ LapseAlone'
             /\ \A x \in Workers : CopyOK(x)'
             /\ \A x \in Workers : StaleLoses(x)'
  <2>1. OneRequestRoutes'
    BY <1>31
    DEF vars, taskVars, offerVars, PassInv, OneRequestRoutes, Passing,
        TypeInv, RoutingTypeOK, JobOK, OfferInv, OnePassAtATime, Workers,
        ClaimPcs, RoutingPcs, SweepPcs, ReturnPcs
  <2>2. LapseAlone'
    BY <1>31
    DEF vars, taskVars, offerVars, PassInv, LapseAlone, Passing, TypeInv,
        RoutingTypeOK, JobOK, OfferInv, HeldIsNotOffered, OnePassAtATime,
        Workers, ClaimPcs, RoutingPcs, SweepPcs, ReturnPcs
  <2>3. \A x \in Workers : CopyOK(x)'
    BY <1>31
    DEF vars, taskVars, offerVars, PassInv, CopyOK, TypeInv, RoutingTypeOK,
        OfferInv, Workers, ClaimPcs, RoutingPcs, SweepPcs, ReturnPcs
  <2>4. \A x \in Workers : StaleLoses(x)'
    BY <1>31
    DEF vars, taskVars, offerVars, PassInv, StaleLoses, Stale, Stirring,
        CopyOK, LapseAlone, OneRequestRoutes, Passing, TypeInv, RoutingTypeOK,
        JobOK, NamingPcs, OfferInv, HeldIsNotOffered, OnePassAtATime, Workers,
        ClaimPcs, Claimable, Eligible, RoutingPcs, SweepPcs, ReturnPcs
  <2> QED
    BY <2>1, <2>2, <2>3, <2>4
<1> QED
  BY <1>1, <1>2, <1>3, <1>4, <1>5, <1>6, <1>7, <1>8, <1>9, <1>10, <1>11,
     <1>12, <1>13, <1>14, <1>15, <1>16, <1>17, <1>18, <1>19, <1>20, <1>21,
     <1>22, <1>23, <1>24, <1>25, <1>26, <1>27, <1>28, <1>29, <1>30, <1>31
  DEF Next, JobStep, RoutingStep, Sweep, Workers

LEMMA PassInvariant == ASSUME OnePassAtATime PROVE Spec => []PassInv
<1>1. Init => PassInv
  BY DEF Init, PassInv, OneRequestRoutes, LapseAlone, Passing, CopyOK, StaleLoses,
         Stale, Claimable, Idle, Workers, RoutingPcs, SweepPcs, ReturnPcs
<1>2. TypeInv /\ TypeInv' /\ OfferInv /\ PassInv /\ [Next]_vars => PassInv'
  BY PassStep DEF PassInv
<1> QED
  BY <1>1, <1>2, TypeInvariant, OfferInvariant, PTL DEF Spec

\* The row of an offer that has been made and not yet recorded, and a missed
\* offer that has been taken back and not yet counted.
Pending(w, c) == jobs[w].c = c /\ jobs[w].pc \in {"unstall", "row"}
Missing(w, c) == jobs[w].c = c /\ jobs[w].pc \in {"miss", "count"}

\* Whose turn has not come has no rows; who has the turn has not missed it.
TurnOK(c) ==
  /\ Turns(c) <= 1 /\ missed[c] <= 1
  /\ c \notin offeredCaptainIds => Turns(c) = 0 /\ missed[c] = 0
  /\ offeredCaptainId = c => missed[c] = 0
  /\ \A w \in Workers :
       /\ Pending(w, c) => c \in offeredCaptainIds /\ Turns(c) = 0
       /\ Missing(w, c) => c \in offeredCaptainIds /\ offeredCaptainId # c /\ missed[c] = 0
  /\ \A v, w \in Workers : Pending(v, c) /\ Pending(w, c) => v = w
  /\ \A v, w \in Workers : Missing(v, c) /\ Missing(w, c) => v = w

TurnInv == \A c \in Captains : TurnOK(c)

\* Rows only change their status.
LEMMA TurnsMoved ==
  ASSUME TypeInv, NEW c \in Captains, NEW s \in {"MISSED", "WITHDRAWN"},
         offers'[c] = offers[c] \/ offers'[c] = MoveOffers(c, "OFFERED", s)
  PROVE  Turns(c)' = Turns(c)
BY MoveKeepsRows DEF Turns, RowsOf, TypeInv, RoutingTypeOK

\* A step that makes and takes back no offer, and adds no row.
LEMMA TurnsStand ==
  ASSUME TypeInv, TurnInv, \A c \in Captains : Turns(c)' = Turns(c),
         UNCHANGED <<offeredCaptainId, offeredCaptainIds, missed>>,
         \A w \in Workers :
           \/ jobs'[w] = jobs[w]
           \/ jobs'[w].pc \notin {"unstall", "row", "miss", "count"}
           \/ jobs[w].pc = "miss" /\ jobs'[w].pc = "count" /\ jobs'[w].c = jobs[w].c
  PROVE  TurnInv'
<1>1. \A w \in Workers, c \in Captains :
        (Pending(w, c)' => Pending(w, c)) /\ (Missing(w, c)' => Missing(w, c))
  BY DEF Pending, Missing
<1> QED
  BY <1>1 DEF TurnInv, TurnOK

LEMMA TurnStep ==
  ASSUME TypeInv, OfferInv, PassInv, TurnInv, [Next]_vars
  PROVE  TurnInv'
<1>1. ASSUME NEW w \in Workers, OfferRead(w)
      PROVE  TurnInv'
  <2>1. \A c \in Captains : Turns(c)' = Turns(c)
    BY <1>1 DEF OfferRead, Turns, offerVars
  <2> QED
    BY <1>1, <2>1, ReadEffect, TurnsStand DEF OfferRead, taskVars, offerVars
<1>2. ASSUME NEW w \in Workers, Rank(w)
      PROVE  TurnInv'
  <2>1. \A c \in Captains : Turns(c)' = Turns(c)
    BY <1>2 DEF Rank, Turns, offerVars
  <2> QED
    BY <1>2, <2>1, RankEffect, TurnsStand DEF Rank, taskVars, offerVars
<1>3. ASSUME NEW w \in Workers, MarkRoutingStalled(w)
      PROVE  TurnInv'
  BY <1>3
  DEF MarkRoutingStalled, SetStalled, At, EndJob, Idle, taskVars, offerVars,
      TurnInv, TurnOK, Pending, Missing, TypeInv, RoutingTypeOK,
      OFFER_STATUSES, Turns, JobOK, NamingPcs, RoutingPcs, SweepPcs, Workers
<1>4. ASSUME NEW w \in Workers, ClearStalledInDrought(w)
      PROVE  TurnInv'
  BY <1>4
  DEF ClearStalledInDrought, SetStalled, At, EndJob, Idle, taskVars,
      offerVars, TurnInv, TurnOK, Pending, Missing, TypeInv, RoutingTypeOK,
      OFFER_STATUSES, Turns, JobOK, NamingPcs, RoutingPcs, SweepPcs, Workers
<1>5. ASSUME NEW w \in Workers, ClearStalledOnceOffered(w)
      PROVE  TurnInv'
  BY <1>5
  DEF ClearStalledOnceOffered, SetStalled, At, GoTo, Idle, taskVars,
      offerVars, TurnInv, TurnOK, Pending, Missing, TypeInv, RoutingTypeOK,
      OFFER_STATUSES, Turns, JobOK, NamingPcs, RoutingPcs, SweepPcs, Workers
<1>6. ASSUME NEW w \in Workers, OpenToPool(w)
      PROVE  TurnInv'
  BY <1>6
  DEF OpenToPool, At, EndJob, Claimable, Idle, taskVars, offerVars, TurnInv,
      TurnOK, Pending, Missing, TypeInv, RoutingTypeOK, OFFER_STATUSES, Turns,
      JobOK, NamingPcs, RoutingPcs, SweepPcs, Workers
<1>7. ASSUME NEW w \in Workers, OfferWrite(w)
      PROVE  TurnInv'
  <2>1. jobs[w].c \in Captains \ offeredCaptainIds
    BY <1>7
    DEF OfferWrite, At, PassInv, StaleLoses, Stale, TypeInv, JobOK, NamingPcs
  <2>2. \A c \in Captains : Turns(c)' = Turns(c)
    BY <1>7 DEF OfferWrite, Turns, offerVars
  <2>3. /\ \A v \in Workers \ {w} : jobs'[v] = jobs[v]
        /\ jobs'[w].c = jobs[w].c /\ jobs'[w].pc = "unstall"
    BY <1>7 DEF OfferWrite, GoTo, Idle, TypeInv, RoutingTypeOK
  <2>4. /\ offeredCaptainId' = jobs[w].c /\ missed' = missed
        /\ offeredCaptainIds' = offeredCaptainIds \cup {jobs[w].c}
    BY <1>7 DEF OfferWrite, offerVars
  <2> QED
    BY <2>1, <2>2, <2>3, <2>4 DEF TurnInv, TurnOK, Pending, Missing
<1>8. ASSUME NEW w \in Workers, OfferLost(w)
      PROVE  TurnInv'
  BY <1>8
  DEF OfferLost, At, EndJob, Claimable, Idle, taskVars, offerVars, TurnInv,
      TurnOK, Pending, Missing, TypeInv, RoutingTypeOK, OFFER_STATUSES, Turns,
      JobOK, NamingPcs, RoutingPcs, SweepPcs, Workers
<1>9. ASSUME NEW w \in Workers, OfferRow(w)
      PROVE  TurnInv'
  <2>1. PICK d \in Captains : d = jobs[w].c /\ Pending(w, d)
    BY <1>9 DEF OfferRow, At, TypeInv, JobOK, NamingPcs, Pending
  <2>2. /\ Turns(d)' = Turns(d) + 1
        /\ \A c \in Captains \ {d} : Turns(c)' = Turns(c)
    <3>1. offers \in [Captains -> [OFFER_STATUSES -> Nat]]
      BY DEF TypeInv, RoutingTypeOK
    <3>2. offers' = [offers EXCEPT ![d]["OFFERED"] = @ + 1]
      BY <1>9, <2>1 DEF OfferRow
    <3>3. offers'[d] = [offers[d] EXCEPT !["OFFERED"] = @ + 1]
      BY <2>1, <3>1, <3>2
    <3>4. \A c \in Captains \ {d} : offers'[c] = offers[c]
      BY <2>1, <3>1, <3>2
    <3>5. offers[d] \in [OFFER_STATUSES -> Nat]
      BY <2>1, <3>1
    <3>6. Turns(d)' = Turns(d) + 1
      <4>1. \A o \in [OFFER_STATUSES -> Nat] :
              RowsOf([o EXCEPT !["OFFERED"] = @ + 1]) = RowsOf(o) + 1
        BY DEF RowsOf, OFFER_STATUSES
      <4> QED
        BY <3>3, <3>5, <4>1 DEF Turns, RowsOf
    <3> QED
      BY <3>4, <3>6 DEF Turns
  <2>3. \A v \in Workers : jobs'[v] = IF v = w THEN Idle ELSE jobs[v]
    BY <1>9 DEF OfferRow, EndJob, TypeInv, RoutingTypeOK
  <2>4. UNCHANGED <<offeredCaptainId, offeredCaptainIds, missed>>
    BY <1>9 DEF OfferRow, taskVars
  <2>5. \A v \in Workers, c \in Captains :
          /\ Pending(v, c)' => v # w /\ Pending(v, c)
          /\ Missing(v, c)' => Missing(v, c)
    BY <2>3 DEF Pending, Missing, Idle
  <2>6. Turns(d) = 0 /\ d \in offeredCaptainIds
    BY <2>1 DEF TurnInv, TurnOK
  <2>7. ASSUME NEW v \in Workers, Pending(v, d)'
        PROVE  FALSE
    <3>1. v # w /\ Pending(v, d)
      BY <2>1, <2>5, <2>7
    <3>2. TurnOK(d)
      BY <2>1 DEF TurnInv
    <3> QED
      BY <2>1, <3>1, <3>2 DEF TurnOK
  <2>8. TurnOK(d)'
        <3>1. d \in Captains /\ TurnOK(d)
      BY <2>1 DEF TurnInv
    <3>2. /\ Turns(d)' = 1 /\ d \in offeredCaptainIds'
          /\ offeredCaptainId' = offeredCaptainId /\ missed'[d] = missed[d]
          /\ \A v \in Workers : ~Pending(v, d)' /\ (Missing(v, d)' => Missing(v, d))
      BY <2>1, <2>2, <2>4, <2>5, <2>6, <2>7
    <3> QED
      BY <3>1, <3>2 DEF TurnOK
  <2>9. ASSUME NEW c \in Captains \ {d}
        PROVE  TurnOK(c)'
    <3>1. TurnOK(c)
      BY DEF TurnInv
    <3>2. /\ Turns(c)' = Turns(c) /\ missed' = missed
          /\ UNCHANGED <<offeredCaptainId, offeredCaptainIds>>
          /\ \A v \in Workers :
               (Pending(v, c)' => Pending(v, c)) /\ (Missing(v, c)' => Missing(v, c))
      BY <2>2, <2>4, <2>5
    <3> QED
      BY <3>1, <3>2 DEF TurnOK
  <2> QED
    BY <2>8, <2>9 DEF TurnInv
<1>10. ASSUME NEW w \in Workers, ReleaseOffer(w)
      PROVE  TurnInv'
  <2>1. \A c \in Captains : Turns(c)' = Turns(c)
    BY <1>10, ReleaseEffect DEF Turns
  <2>2. CASE jobs'[w].pc = "idle" /\ UNCHANGED <<offeredCaptainId, offerLapsed>>
    BY <1>10, <2>1, <2>2, ReleaseEffect, TurnsStand
  <2>3. CASE /\ jobs'[w].pc = "miss" /\ jobs'[w].c = jobs[w].c
             /\ offeredCaptainId = jobs[w].c /\ offeredCaptainId' = None
    <3>1. \A v \in Workers \ {w} : jobs'[v] = jobs[v]
      BY <1>10, ReleaseEffect
    <3>2. offeredCaptainIds' = offeredCaptainIds /\ missed' = missed
      BY <1>10, ReleaseEffect
    <3>3. \A v \in Workers, c \in Captains : Pending(v, c)' => Pending(v, c)
      BY <2>3, <3>1 DEF Pending
    <3>4. \A v \in Workers, c \in Captains :
            Missing(v, c)' => IF v = w THEN offeredCaptainId = c ELSE Missing(v, c)
      BY <2>3, <3>1 DEF Missing
    <3>5. \A c \in Captains : offeredCaptainId = c => c \in offeredCaptainIds
      BY DEF OfferInv
    <3> QED
      BY <2>1, <2>3, <3>2, <3>3, <3>4, <3>5 DEF TurnInv, TurnOK
  <2> QED
    BY <1>10, <2>2, <2>3, ReleaseEffect
<1>11. ASSUME NEW w \in Workers, MarkMissed(w)
      PROVE  TurnInv'
  <2>1. \A c \in Captains : Turns(c)' = Turns(c)
    <3> SUFFICES ASSUME NEW c \in Captains
                 PROVE  Turns(c)' = Turns(c)
      OBVIOUS
    <3>1. offers'[c] = offers[c] \/ offers'[c] = MoveOffers(c, "OFFERED", "MISSED")
      BY <1>11 DEF MarkMissed, TypeInv, RoutingTypeOK
    <3> QED
      BY <3>1, TurnsMoved
  <2>2. jobs[w].pc = "miss" /\ jobs'[w].pc = "count" /\ jobs'[w].c = jobs[w].c
    BY <1>11 DEF MarkMissed, At, GoTo, Idle, TypeInv, RoutingTypeOK
  <2>3. \A v \in Workers \ {w} : jobs'[v] = jobs[v]
    BY <1>11 DEF MarkMissed, GoTo, TypeInv, RoutingTypeOK
  <2> QED
    BY <1>11, <2>1, <2>2, <2>3, TurnsStand DEF MarkMissed, taskVars
<1>12. ASSUME NEW w \in Workers, CountMissed(w)
      PROVE  TurnInv'
  BY <1>12
  DEF CountMissed, At, StartRouting, Idle, taskVars, offerVars, TurnInv,
      TurnOK, Pending, Missing, TypeInv, RoutingTypeOK, OFFER_STATUSES, Turns,
      JobOK, NamingPcs, RoutingPcs, SweepPcs, Workers
<1>13. ASSUME NEW w \in Workers, ClaimWrite(w)
      PROVE  TurnInv'
  BY <1>13
  DEF ClaimWrite, At, GoTo, Claimable, Idle, taskVars, offerVars, TurnInv,
      TurnOK, Pending, Missing, TypeInv, RoutingTypeOK, OFFER_STATUSES, Turns,
      JobOK, NamingPcs, RoutingPcs, SweepPcs, Workers
<1>14. ASSUME NEW w \in Workers, ClaimRefused(w)
      PROVE  TurnInv'
  BY <1>14
  DEF ClaimRefused, At, EndJob, Claimable, Idle, taskVars, offerVars, TurnInv,
      TurnOK, Pending, Missing, TypeInv, RoutingTypeOK, OFFER_STATUSES, Turns,
      JobOK, NamingPcs, RoutingPcs, SweepPcs, Workers
<1>15. ASSUME NEW w \in Workers, MarkOfferAccepted(w)
      PROVE  TurnInv'
  BY <1>15
  DEF MarkOfferAccepted, At, GoTo, Idle, taskVars, offerVars, TurnInv, TurnOK,
      Pending, Missing, TypeInv, RoutingTypeOK, OFFER_STATUSES, Turns, JobOK,
      NamingPcs, RoutingPcs, SweepPcs, Workers
<1>16. ASSUME NEW w \in Workers, WithdrawOthers(w)
      PROVE  TurnInv'
  <2>1. \A c \in Captains : Turns(c)' = Turns(c)
    <3> SUFFICES ASSUME NEW c \in Captains
                 PROVE  Turns(c)' = Turns(c)
      OBVIOUS
    <3>1. offers'[c] = offers[c] \/ offers'[c] = MoveOffers(c, "OFFERED", "WITHDRAWN")
      BY <1>16 DEF WithdrawOthers, WithdrawFrom
    <3> QED
      BY <3>1, TurnsMoved
  <2>2. \A v \in Workers : jobs'[v] = jobs[v] \/ jobs'[v].pc \in {"idle", "read"}
    BY <1>16 DEF WithdrawOthers, EndJob, Idle, TypeInv, RoutingTypeOK
  <2> QED
    BY <1>16, <2>1, <2>2, TurnsStand DEF WithdrawOthers, taskVars
<1>17. ASSUME NEW w \in Workers, ClearOffer(w)
      PROVE  TurnInv'
  BY <1>17
  DEF ClearOffer, At, GoTo, Idle, taskVars, offerVars, TurnInv, TurnOK,
      Pending, Missing, TypeInv, RoutingTypeOK, OFFER_STATUSES, Turns, JobOK,
      NamingPcs, RoutingPcs, SweepPcs, Workers
<1>18. ASSUME NEW w \in Workers, WithdrawAll(w)
      PROVE  TurnInv'
  <2>1. \A c \in Captains : Turns(c)' = Turns(c)
    <3> SUFFICES ASSUME NEW c \in Captains
                 PROVE  Turns(c)' = Turns(c)
      OBVIOUS
    <3>1. offers'[c] = offers[c] \/ offers'[c] = MoveOffers(c, "OFFERED", "WITHDRAWN")
      BY <1>18 DEF WithdrawAll, WithdrawFrom
    <3> QED
      BY <3>1, TurnsMoved
  <2>2. \A v \in Workers : jobs'[v] = jobs[v] \/ jobs'[v].pc \in {"idle", "read"}
    BY <1>18 DEF WithdrawAll, StartRouting, Idle, TypeInv, RoutingTypeOK
  <2> QED
    BY <1>18, <2>1, <2>2, TurnsStand DEF WithdrawAll, taskVars
<1>19. ASSUME NEW w \in Workers, WithdrawClosed(w)
      PROVE  TurnInv'
  <2>1. \A c \in Captains : Turns(c)' = Turns(c)
    <3> SUFFICES ASSUME NEW c \in Captains
                 PROVE  Turns(c)' = Turns(c)
      OBVIOUS
    <3>1. offers'[c] = offers[c] \/ offers'[c] = MoveOffers(c, "OFFERED", "WITHDRAWN")
      BY <1>19 DEF WithdrawClosed, WithdrawFrom
    <3> QED
      BY <3>1, TurnsMoved
  <2>2. \A v \in Workers : jobs'[v] = jobs[v] \/ jobs'[v].pc \in {"idle", "read"}
    BY <1>19 DEF WithdrawClosed, EndJob, Idle, TypeInv, RoutingTypeOK
  <2> QED
    BY <1>19, <2>1, <2>2, TurnsStand DEF WithdrawClosed, taskVars
<1>20. ASSUME NEW w \in Requests, CreateTask(w)
      PROVE  TurnInv'
  BY <1>20
  DEF CreateTask, Begin, Idle, taskVars, offerVars, TurnInv, TurnOK, Pending,
      Missing, TypeInv, RoutingTypeOK, OFFER_STATUSES, Turns, JobOK,
      NamingPcs, RoutingPcs, SweepPcs, Workers
<1>21. ASSUME NEW w \in Requests, Reassign(w)
      PROVE  TurnInv'
  BY <1>21
  DEF Reassign, Begin, Settled, Idle, taskVars, offerVars, TurnInv, TurnOK,
      Pending, Missing, TypeInv, RoutingTypeOK, OFFER_STATUSES, Turns, JobOK,
      NamingPcs, RoutingPcs, SweepPcs, Workers
<1>22. ASSUME NEW w \in Requests, NEW c \in Captains, ClaimRead(w, c)
      PROVE  TurnInv'
  BY <1>22
  DEF ClaimRead, Begin, Claimable, Idle, taskVars, offerVars, TurnInv, TurnOK,
      Pending, Missing, TypeInv, RoutingTypeOK, OFFER_STATUSES, Turns, JobOK,
      NamingPcs, RoutingPcs, SweepPcs, Workers
<1>23. ASSUME NEW w \in Sweepers, SweepLapsed(w)
      PROVE  TurnInv'
  BY <1>23
  DEF SweepLapsed, Begin, Claimable, Idle, taskVars, offerVars, TurnInv,
      TurnOK, Pending, Missing, TypeInv, RoutingTypeOK, OFFER_STATUSES, Turns,
      JobOK, NamingPcs, RoutingPcs, SweepPcs, Workers
<1>24. ASSUME NEW w \in Sweepers, SweepUnrouted(w)
      PROVE  TurnInv'
  BY <1>24
  DEF SweepUnrouted, Begin, Claimable, Idle, taskVars, offerVars, TurnInv,
      TurnOK, Pending, Missing, TypeInv, RoutingTypeOK, OFFER_STATUSES, Turns,
      JobOK, NamingPcs, RoutingPcs, SweepPcs, Workers
<1>25. ASSUME NEW w \in Sweepers, ExpireUnclaimed(w)
      PROVE  TurnInv'
  BY <1>25
  DEF ExpireUnclaimed, Begin, Claimable, Idle, taskVars, offerVars, TurnInv,
      TurnOK, Pending, Missing, TypeInv, RoutingTypeOK, OFFER_STATUSES, Turns,
      JobOK, NamingPcs, RoutingPcs, SweepPcs, Workers
<1>26. ASSUME NEW c \in Captains, CaptainChanges(c)
      PROVE  TurnInv'
  BY <1>26
  DEF CaptainChanges, Idle, taskVars, offerVars, TurnInv, TurnOK, Pending,
      Missing, TypeInv, RoutingTypeOK, OFFER_STATUSES, Turns, JobOK,
      NamingPcs, RoutingPcs, SweepPcs, Workers
<1>27. ASSUME OfferLapses
      PROVE  TurnInv'
  BY <1>27
  DEF OfferLapses, Settled, taskVars, offerVars, TurnInv, TurnOK, Pending,
      Missing, TypeInv, RoutingTypeOK, OFFER_STATUSES, Turns, JobOK,
      NamingPcs, RoutingPcs, SweepPcs, Workers
<1>28. ASSUME CancelUnclaimed
      PROVE  TurnInv'
  BY <1>28
  DEF CancelUnclaimed, Claimable, taskVars, offerVars, TurnInv, TurnOK,
      Pending, Missing, TypeInv, RoutingTypeOK, OFFER_STATUSES, Turns, JobOK,
      NamingPcs, RoutingPcs, SweepPcs, Workers
<1>29. ASSUME CloseHeld
      PROVE  TurnInv'
  BY <1>29
  DEF CloseHeld, taskVars, offerVars, TurnInv, TurnOK, Pending, Missing,
      TypeInv, RoutingTypeOK, OFFER_STATUSES, Turns, JobOK, NamingPcs,
      RoutingPcs, SweepPcs, Workers
<1>30. ASSUME Crash
      PROVE  TurnInv'
  BY <1>30
  DEF Crash, Idle, taskVars, offerVars, TurnInv, TurnOK, Pending, Missing,
      TypeInv, RoutingTypeOK, OFFER_STATUSES, Turns, JobOK, NamingPcs,
      RoutingPcs, SweepPcs, Workers
<1>31. ASSUME UNCHANGED vars
      PROVE  TurnInv'
  BY <1>31
  DEF vars, taskVars, offerVars, TurnInv, TurnOK, Pending, Missing, TypeInv,
      RoutingTypeOK, OFFER_STATUSES, Turns, JobOK, NamingPcs, RoutingPcs,
      SweepPcs, Workers
<1> QED
  BY <1>1, <1>2, <1>3, <1>4, <1>5, <1>6, <1>7, <1>8, <1>9, <1>10, <1>11,
     <1>12, <1>13, <1>14, <1>15, <1>16, <1>17, <1>18, <1>19, <1>20, <1>21,
     <1>22, <1>23, <1>24, <1>25, <1>26, <1>27, <1>28, <1>29, <1>30, <1>31
  DEF Next, JobStep, RoutingStep, Sweep, Workers

\* While what takes minutes does not run out inside a routing pass, and the
\* expiry job makes one pass at a time, a captain has one turn at a task and
\* misses it at most once, however its passes overlap with those of requests.
THEOREM OneTurnForEach == ASSUME OnePassAtATime PROVE Spec => []OneTurnEach
<1>1. Init => TurnInv
  BY DEF Init, TurnInv, TurnOK, Turns, Pending, Missing, Idle, OFFER_STATUSES
<1>2. TypeInv /\ OfferInv /\ PassInv /\ TurnInv /\ [Next]_vars => TurnInv'
  BY TurnStep
<1>3. TurnInv => OneTurnEach
  BY DEF TurnInv, TurnOK, OneTurnEach
<1> QED
  BY <1>1, <1>2, <1>3, TypeInvariant, OfferInvariant, PassInvariant, PTL DEF Spec
=============================================================================
