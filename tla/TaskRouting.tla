---------------------------- MODULE TaskRouting ----------------------------
(***************************************************************************)
(* Who is offered a pay-out nobody holds: taskRouting.service.ts, the      *)
(* claim's side of it in task.service.ts, and the ways a task comes back   *)
(* to routing or leaves it.  One task; the captains it is offered to come  *)
(* and go.                                                                 *)
(*                                                                         *)
(* Handlers are jobs, as in PayoutWorkflow: a copy of what was read, and   *)
(* pc, the next read or write.  The score is left out: any captain not yet *)
(* tried may come first.  Money is left out: it is PayoutWorkflow.         *)
(***************************************************************************)
EXTENDS Integers, FiniteSets

CONSTANTS
  Captains,
  Requests,        \* requests being served at a time
  Sweepers,        \* passes of the expiry job
  None,            \* null
  PromptRouting,   \* timing assumption, see Settled
  MaxReassigned,   \* bound: captains the task is taken from, and stops before
  MaxCrashes       \* bound: how often the process may stop

ASSUME RoutingAssumption ==
  /\ None \notin Captains
  /\ Requests \cap Sweepers = {}
  /\ PromptRouting \in BOOLEAN
  /\ MaxReassigned \in Nat /\ MaxCrashes \in Nat

Workers == Requests \cup Sweepers

VARIABLES
  \* the Task row, as far as routing reads it
  status, captainId, offeredCaptainId, offerLapsed, offeredCaptainIds,
  openPool, routingStalled, previousCaptainIds,
  offers,          \* offers[c][s]: TaskOffer rows of c in status s
  missed,          \* missed[c]: totalOffersMissed, what this task added to it
  standing,        \* SUSPENDED; AWAY: offline or short of room; READY
  jobs, crashes

taskVars == <<status, captainId, offeredCaptainId, offerLapsed, offeredCaptainIds,
              openPool, routingStalled, previousCaptainIds>>
offerVars == <<offers, missed>>
vars == <<taskVars, offerVars, standing, jobs, crashes>>

\* CLAIMABLE is CREATED or REASSIGNED; HELD is every state with a captain.
Statuses == {"ABSENT", "CLAIMABLE", "HELD", "CLOSED"}
OFFER_STATUSES == {"OFFERED", "ACCEPTED", "MISSED", "WITHDRAWN"}

RoutingPcs == {"read", "rank", "stall", "drought", "open", "offer", "unstall", "row"}
SweepPcs == {"release", "miss", "count"}
ClaimPcs == {"claim", "accept", "withdrawOthers"}
ReturnPcs == {"clearOffer", "withdrawAll"}
Pcs == {"idle", "withdrawClosed"} \cup RoutingPcs \cup SweepPcs \cup ClaimPcs \cup ReturnPcs

\* c: the captain claiming, missed, or chosen; offered, tried, barred: the copy
\* of offeredCaptainId, offeredCaptainIds and previousCaptainIds.
Job == [pc : Pcs, c : Captains \cup {None}, offered : Captains \cup {None},
        tried : SUBSET Captains, barred : SUBSET Captains]

Idle == [pc |-> "idle", c |-> None, offered |-> None, tried |-> {}, barred |-> {}]

Claimable == status = "CLAIMABLE" /\ captainId = None

MoveOffers(c, from, to) ==
  [offers[c] EXCEPT ![from] = 0, ![to] = @ + offers[c][from]]

-----------------------------------------------------------------------------
(* Jobs *)

Begin(w, job) == jobs[w].pc = "idle" /\ jobs' = [jobs EXCEPT ![w] = job]
At(w, pc) == jobs[w].pc = pc
GoTo(w, pc) == jobs' = [jobs EXCEPT ![w] = [Idle EXCEPT !.pc = pc, !.c = jobs[w].c]]
EndJob(w) == jobs' = [jobs EXCEPT ![w] = Idle]
StartRouting(w) == jobs' = [jobs EXCEPT ![w] = [Idle EXCEPT !.pc = "read"]]

\* The timing assumption: what takes minutes (a window, a captain's work) does
\* not run out between the reads and writes of one routing pass.
Settled ==
  PromptRouting => \A w \in Workers : jobs[w].pc \notin RoutingPcs \cup SweepPcs \cup ReturnPcs

Init ==
  /\ status = "ABSENT" /\ captainId = None
  /\ offeredCaptainId = None /\ offerLapsed = FALSE /\ offeredCaptainIds = {}
  /\ openPool = FALSE /\ routingStalled = FALSE /\ previousCaptainIds = {}
  /\ offers = [c \in Captains |-> [s \in OFFER_STATUSES |-> 0]]
  /\ missed = [c \in Captains |-> 0]
  /\ standing \in [Captains -> {"AWAY", "READY"}]
  /\ jobs = [w \in Workers |-> Idle]
  /\ crashes = 0

-----------------------------------------------------------------------------
(* The captains *)

Standings == {"SUSPENDED", "AWAY", "READY"}

\* A captain goes online or offline, gains or loses room for the amount, is
\* suspended or reinstated by admin.
CaptainChanges(c) ==
  /\ \E s \in Standings \ {standing[c]} : standing' = [standing EXCEPT ![c] = s]
  /\ UNCHANGED <<taskVars, offerVars, jobs, crashes>>

\* offerExpiresAt passes.
OfferLapses ==
  /\ offeredCaptainId # None /\ ~offerLapsed
  /\ Settled
  /\ offerLapsed' = TRUE
  /\ UNCHANGED <<status, captainId, offeredCaptainId, offeredCaptainIds, openPool,
                 routingStalled, previousCaptainIds, offerVars, standing, jobs, crashes>>

-----------------------------------------------------------------------------
(* offerToNextCaptain *)

\* createTask: the row, then the first routing pass in the same request.
CreateTask(w) ==
  /\ status = "ABSENT"
  /\ Begin(w, [Idle EXCEPT !.pc = "read"])
  /\ status' = "CLAIMABLE"
  /\ UNCHANGED <<captainId, offeredCaptainId, offerLapsed, offeredCaptainIds, openPool,
                 routingStalled, previousCaptainIds, offerVars, standing, crashes>>

\* The task is read; a task that is held, closed or open to all is left alone.
OfferRead(w) ==
  /\ At(w, "read")
  /\ IF Claimable /\ ~openPool
     THEN jobs' = [jobs EXCEPT ![w] = [@ EXCEPT !.pc = "rank", !.offered = offeredCaptainId,
                                                !.tried = offeredCaptainIds,
                                                !.barred = previousCaptainIds]]
     ELSE EndJob(w)
  /\ UNCHANGED <<taskVars, offerVars, standing, crashes>>

Placeable(barred) == {c \in Captains \ barred : standing[c] # "SUSPENDED"}
Eligible(barred) == {c \in Captains \ barred : standing[c] = "READY"}

\* rankEligibleCaptains, and the four ways on from what it finds.
Rank(w) ==
  LET eligible == Eligible(jobs[w].barred)
      untried == eligible \ jobs[w].tried IN
  /\ At(w, "rank")
  /\ \/ \E best \in untried :
          jobs' = [jobs EXCEPT ![w] = [Idle EXCEPT !.pc = "offer", !.c = best,
                                                   !.offered = jobs[w].offered]]
     \/ untried = {} /\ eligible # {} /\ GoTo(w, "open")
     \/ eligible = {} /\ Placeable(jobs[w].barred) # {} /\ GoTo(w, "drought")
     \/ Placeable(jobs[w].barred) = {} /\ GoTo(w, "stall")
  /\ UNCHANGED <<taskVars, offerVars, standing, crashes>>

SetStalled(w, pc, value) ==
  /\ At(w, pc)
  /\ routingStalled' = value
  /\ UNCHANGED <<status, captainId, offeredCaptainId, offerLapsed, offeredCaptainIds,
                 openPool, previousCaptainIds, offerVars, standing, crashes>>

MarkRoutingStalled(w) == SetStalled(w, "stall", TRUE) /\ EndJob(w)
ClearStalledInDrought(w) == SetStalled(w, "drought", FALSE) /\ EndJob(w)
ClearStalledOnceOffered(w) == SetStalled(w, "unstall", FALSE) /\ GoTo(w, "row")

\* Everyone who could take it has had a turn: the exclusive offer is dropped.
OpenToPool(w) ==
  /\ At(w, "open")
  /\ IF Claimable /\ ~openPool
     THEN /\ openPool' = TRUE /\ offeredCaptainId' = None /\ offerLapsed' = FALSE
     ELSE UNCHANGED <<openPool, offeredCaptainId, offerLapsed>>
  /\ EndJob(w)
  /\ UNCHANGED <<status, captainId, offeredCaptainIds, routingStalled, previousCaptainIds,
                 offerVars, standing, crashes>>

OfferHeldToo(w) ==
  /\ At(w, "offer")
  /\ offeredCaptainId = jobs[w].offered
  /\ offeredCaptainId' = jobs[w].c /\ offerLapsed' = FALSE
  /\ offeredCaptainIds' = offeredCaptainIds \cup {jobs[w].c}
  /\ GoTo(w, "unstall")
  /\ UNCHANGED <<status, captainId, openPool, routingStalled, previousCaptainIds,
                 offerVars, standing, crashes>>

OfferUnrecorded(w) ==
  /\ At(w, "offer")
  /\ Claimable /\ offeredCaptainId = jobs[w].offered
  /\ offeredCaptainId' = jobs[w].c /\ offerLapsed' = FALSE
  /\ GoTo(w, "unstall")
  /\ UNCHANGED <<status, captainId, offeredCaptainIds, openPool, routingStalled,
                 previousCaptainIds, offerVars, standing, crashes>>

\* The offer pins who was last seen to hold one.
OfferWrite(w) ==
  /\ At(w, "offer")
  /\ Claimable /\ offeredCaptainId = jobs[w].offered
  /\ offeredCaptainId' = jobs[w].c /\ offerLapsed' = FALSE
  /\ offeredCaptainIds' = offeredCaptainIds \cup {jobs[w].c}
  /\ GoTo(w, "unstall")
  /\ UNCHANGED <<status, captainId, openPool, routingStalled, previousCaptainIds,
                 offerVars, standing, crashes>>

OfferLost(w) ==
  /\ At(w, "offer")
  /\ ~(Claimable /\ offeredCaptainId = jobs[w].offered)
  /\ EndJob(w)
  /\ UNCHANGED <<taskVars, offerVars, standing, crashes>>

\* TaskOffer.create
OfferRow(w) ==
  /\ At(w, "row")
  /\ offers' = [offers EXCEPT ![jobs[w].c]["OFFERED"] = @ + 1]
  /\ EndJob(w)
  /\ UNCHANGED <<taskVars, missed, standing, crashes>>

-----------------------------------------------------------------------------
(* sweepOffers *)

\* Phase one lists the tasks whose offer has lapsed, with the captain named.
SweepLapsed(w) ==
  /\ Claimable /\ offeredCaptainId # None /\ offerLapsed
  /\ Begin(w, [Idle EXCEPT !.pc = "release", !.c = offeredCaptainId])
  /\ UNCHANGED <<taskVars, offerVars, standing, crashes>>

\* The offer is taken back from the captain the list named.
ReleaseOffer(w) ==
  /\ At(w, "release")
  /\ IF offeredCaptainId = jobs[w].c /\ captainId = None
     THEN offeredCaptainId' = None /\ offerLapsed' = FALSE /\ GoTo(w, "miss")
     ELSE UNCHANGED <<offeredCaptainId, offerLapsed>> /\ EndJob(w)
  /\ UNCHANGED <<status, captainId, offeredCaptainIds, openPool, routingStalled,
                 previousCaptainIds, offerVars, standing, crashes>>

MarkMissed(w) ==
  /\ At(w, "miss")
  /\ offers' = [offers EXCEPT ![jobs[w].c] = MoveOffers(jobs[w].c, "OFFERED", "MISSED")]
  /\ GoTo(w, "count")
  /\ UNCHANGED <<taskVars, missed, standing, crashes>>

\* recordOutcome(totalOffersMissed), then the task is offered on.
CountMissed(w) ==
  /\ At(w, "count")
  /\ missed' = [missed EXCEPT ![jobs[w].c] = @ + 1]
  /\ StartRouting(w)
  /\ UNCHANGED <<taskVars, offers, standing, crashes>>

SweepNeverOffered(w) ==
  /\ Claimable /\ offeredCaptainId = None /\ offeredCaptainIds = {}
  /\ Begin(w, [Idle EXCEPT !.pc = "read"])
  /\ UNCHANGED <<taskVars, offerVars, standing, crashes>>

\* Phase two lists unclaimed tasks without an offer.
SweepUnrouted(w) ==
  /\ Claimable /\ offeredCaptainId = None
  /\ Begin(w, [Idle EXCEPT !.pc = "read"])
  /\ UNCHANGED <<taskVars, offerVars, standing, crashes>>

-----------------------------------------------------------------------------
(* claimTask *)

\* The checks on the copy: open to all, or offered to this captain in time.
ClaimRead(w, c) ==
  /\ Claimable
  /\ c \notin previousCaptainIds
  /\ openPool \/ (offeredCaptainId = c /\ ~offerLapsed)
  /\ standing[c] = "READY"
  /\ Begin(w, [Idle EXCEPT !.pc = "claim", !.c = c])
  /\ UNCHANGED <<taskVars, offerVars, standing, crashes>>

\* The hold tests the captain again (holdForPayout); compareAndSwapClaim tests
\* that nobody holds the task, not who it is offered to.
ClaimWrite(w) ==
  /\ At(w, "claim")
  /\ Claimable /\ standing[jobs[w].c] # "SUSPENDED"
  /\ status' = "HELD" /\ captainId' = jobs[w].c
  /\ offeredCaptainId' = None /\ offerLapsed' = FALSE
  /\ GoTo(w, "accept")
  /\ UNCHANGED <<offeredCaptainIds, openPool, routingStalled, previousCaptainIds,
                 offerVars, standing, crashes>>

ClaimRefused(w) ==
  /\ At(w, "claim")
  /\ ~Claimable \/ standing[jobs[w].c] # "READY"
  /\ EndJob(w)
  /\ UNCHANGED <<taskVars, offerVars, standing, crashes>>

\* markOfferAccepted: one row of this captain that is still OFFERED.
MarkOfferAccepted(w) ==
  /\ At(w, "accept")
  /\ IF offers[jobs[w].c]["OFFERED"] > 0
     THEN offers' = [offers EXCEPT ![jobs[w].c]["OFFERED"] = @ - 1,
                                   ![jobs[w].c]["ACCEPTED"] = @ + 1]
     ELSE UNCHANGED offers
  /\ GoTo(w, "withdrawOthers")
  /\ UNCHANGED <<taskVars, missed, standing, crashes>>

WithdrawFrom(S) ==
  offers' = [c \in Captains |-> IF c \in S THEN MoveOffers(c, "OFFERED", "WITHDRAWN")
                                           ELSE offers[c]]

\* withdrawOpenOffers(task, except the claimer)
WithdrawOthers(w) ==
  /\ At(w, "withdrawOthers")
  /\ WithdrawFrom(Captains \ {jobs[w].c})
  /\ EndJob(w)
  /\ UNCHANGED <<taskVars, missed, standing, crashes>>

-----------------------------------------------------------------------------
(* The task comes back, or ends *)

ReassignCleared(w) ==
  /\ status = "HELD" /\ Settled
  /\ Cardinality(previousCaptainIds) + crashes < MaxReassigned
  /\ Begin(w, [Idle EXCEPT !.pc = "clearOffer"])
  /\ status' = "CLAIMABLE" /\ captainId' = None
  /\ previousCaptainIds' = previousCaptainIds \cup {captainId'}
  /\ UNCHANGED <<offeredCaptainId, offerLapsed, offeredCaptainIds, openPool, routingStalled,
                 offerVars, standing, crashes>>

\* A rejection, a disputed cancellation or an expiry takes the task from its
\* captain for good; resetRoutingForReassignment follows in the same request.
Reassign(w) ==
  /\ status = "HELD" /\ Settled
  /\ Cardinality(previousCaptainIds) + crashes < MaxReassigned
  /\ Begin(w, [Idle EXCEPT !.pc = "clearOffer"])
  /\ status' = "CLAIMABLE" /\ captainId' = None
  /\ previousCaptainIds' = previousCaptainIds \cup {captainId}
  /\ UNCHANGED <<offeredCaptainId, offerLapsed, offeredCaptainIds, openPool, routingStalled,
                 offerVars, standing, crashes>>

ClearOffer(w) ==
  /\ At(w, "clearOffer")
  /\ offeredCaptainId' = None /\ offerLapsed' = FALSE
  /\ GoTo(w, "withdrawAll")
  /\ UNCHANGED <<status, captainId, offeredCaptainIds, openPool, routingStalled,
                 previousCaptainIds, offerVars, standing, crashes>>

WithdrawAll(w) ==
  /\ At(w, "withdrawAll")
  /\ WithdrawFrom(Captains)
  /\ StartRouting(w)
  /\ UNCHANGED <<taskVars, missed, standing, crashes>>

\* requestCancellation of a task nobody holds: no routing field is touched.
CancelUnclaimed ==
  /\ Claimable
  /\ status' = "CLOSED"
  /\ UNCHANGED <<captainId, offeredCaptainId, offerLapsed, offeredCaptainIds, openPool,
                 routingStalled, previousCaptainIds, offerVars, standing, jobs, crashes>>

\* expireStaleUnclaimedTasks, which withdraws the offer.
ExpireUnclaimed(w) ==
  /\ Claimable
  /\ Begin(w, [Idle EXCEPT !.pc = "withdrawClosed"])
  /\ status' = "CLOSED"
  /\ offeredCaptainId' = None /\ offerLapsed' = FALSE
  /\ UNCHANGED <<captainId, offeredCaptainIds, openPool, routingStalled,
                 previousCaptainIds, offerVars, standing, crashes>>

WithdrawClosed(w) ==
  /\ At(w, "withdrawClosed")
  /\ WithdrawFrom(Captains)
  /\ EndJob(w)
  /\ UNCHANGED <<taskVars, missed, standing, crashes>>

\* The holder completes it, or a cancellation is agreed: routing plays no part.
CloseHeld ==
  /\ status = "HELD"
  /\ status' = "CLOSED"
  /\ UNCHANGED <<captainId, offeredCaptainId, offerLapsed, offeredCaptainIds, openPool,
                 routingStalled, previousCaptainIds, offerVars, standing, jobs, crashes>>

\* The process stops; every job is lost and the rows stay.
Crash ==
  /\ crashes < MaxCrashes
  /\ \E w \in Workers : jobs[w].pc # "idle"
  /\ crashes' = crashes + 1
  /\ jobs' = [w \in Workers |-> Idle]
  /\ UNCHANGED <<taskVars, offerVars, standing>>

-----------------------------------------------------------------------------
RoutingStep(w) ==
  \/ OfferRead(w) \/ Rank(w) \/ MarkRoutingStalled(w) \/ ClearStalledInDrought(w)
  \/ ClearStalledOnceOffered(w) \/ OpenToPool(w) \/ OfferWrite(w) \/ OfferLost(w)
  \/ OfferRow(w)

JobStep(w) ==
  /\ jobs[w].pc # "idle"
  /\ \/ RoutingStep(w)
     \/ ReleaseOffer(w) \/ MarkMissed(w) \/ CountMissed(w)
     \/ ClaimWrite(w) \/ ClaimRefused(w) \/ MarkOfferAccepted(w) \/ WithdrawOthers(w)
     \/ ClearOffer(w) \/ WithdrawAll(w) \/ WithdrawClosed(w)

Sweep(w) == SweepLapsed(w) \/ SweepUnrouted(w)

Next ==
  \/ \E w \in Workers : JobStep(w)
  \/ \E w \in Requests : CreateTask(w) \/ Reassign(w) \/ \E c \in Captains : ClaimRead(w, c)
  \/ \E w \in Sweepers : Sweep(w) \/ ExpireUnclaimed(w)
  \/ \E c \in Captains : CaptainChanges(c)
  \/ OfferLapses \/ CancelUnclaimed \/ CloseHeld \/ Crash

Spec == Init /\ [][Next]_vars

\* Jobs run on, each sweep lists what it selects, windows run out.
Fairness ==
  /\ \A w \in Workers : WF_vars(JobStep(w))
  /\ \A w \in Sweepers : WF_vars(Sweep(w))
  /\ SF_vars(OfferLapses)

FairSpec == Spec /\ Fairness

-----------------------------------------------------------------------------
(* Properties *)

\* Every variable has its type.
RoutingTypeOK ==
  /\ status \in Statuses
  /\ captainId \in Captains \cup {None} /\ offeredCaptainId \in Captains \cup {None}
  /\ offerLapsed \in BOOLEAN /\ openPool \in BOOLEAN /\ routingStalled \in BOOLEAN
  /\ offeredCaptainIds \subseteq Captains /\ previousCaptainIds \subseteq Captains
  /\ offers \in [Captains -> [OFFER_STATUSES -> Nat]]
  /\ missed \in [Captains -> Nat]
  /\ standing \in [Captains -> Standings]
  /\ jobs \in [Workers -> Job] /\ crashes \in 0..MaxCrashes

Turns(c) ==
  offers[c]["OFFERED"] + offers[c]["ACCEPTED"] + offers[c]["MISSED"] + offers[c]["WITHDRAWN"]

\* However requests and one pass of the expiry job overlap, a captain has one
\* turn at a task, and is charged with missing it at most once.  It takes
\* PromptRouting; and the job does start a second pass while one is running,
\* which together with a request can give a captain two turns.
OneTurnEach == \A c \in Captains : Turns(c) <= 1 /\ missed[c] <= 1

\* A pass that began before the claim does not offer the task to anyone after it.
HeldIsNotOffered == status = "HELD" => offeredCaptainId = None

\* A task does not sit with one captain, or with none, for ever: it is taken, it
\* is opened to all, it ends, or there is a moment when nobody could take it.
\* A restart between any two writes does not strand it.
RoutingMovesOn ==
  status = "CLAIMABLE" ~>
    (status # "CLAIMABLE" \/ openPool \/ Eligible(previousCaptainIds) = {})

\* What the comment above offerToNextCaptain and Task.ts:158 promise: while its
\* window is open, only the captain the task is offered to can claim it.  It is
\* not so: a pass that listed the task as unrouted and reads it after another
\* pass offered it drops the offer and opens the task to all, if it finds nobody
\* untried, or offers it on.
OfferStands ==
  [][offeredCaptainId # None /\ ~offerLapsed /\ status' = "CLAIMABLE"
       => offeredCaptainId' = offeredCaptainId]_vars
=============================================================================
