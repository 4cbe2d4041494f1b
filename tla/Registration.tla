---------------------------- MODULE Registration ----------------------------
(***************************************************************************)
(* Captains who apply: captainRegistration.service.ts, for one address.    *)
(* Applications for it, the code that proves it, the decision, and the     *)
(* account and captain an approval makes.  Handlers are jobs, one read or  *)
(* write at a time.  What the rows only show (the captain's code and id,   *)
(* who decided, why) is left out, and so is sending a code again.          *)
(***************************************************************************)
EXTENDS Integers, FiniteSets

CONSTANTS
  Applications,   \* rows that may be inserted
  Handlers,       \* requests being served at a time
  Nobody,         \* no account has the address
  Admin,          \* the account admin made with it
  MaxCrashes      \* bound: how often the process may stop

RegistrationAssumption ==
  {Nobody, Admin} \cap Applications = {} /\ Nobody # Admin /\ MaxCrashes \in Nat

VARIABLES
  useTransactions,  \* what supportsTransactions found
  registration,     \* registration[a]: the status, or ABSENT
  code,             \* NONE: not issued; LIVE; CONSUMED
  account,          \* User with the address: the index on email allows one
  captains,         \* captains[a]: Captain rows made by approving a
  undoRefused,      \* history: whose return to PENDING_APPROVAL the index refused
  jobs, crashes

accountVars == <<account, captains>>
vars == <<useTransactions, registration, code, accountVars, undoRefused, jobs, crashes>>

Statuses == {"ABSENT", "PENDING_EMAIL", "PENDING_APPROVAL", "APPROVED", "REJECTED"}

Live(a) == registration[a] \in {"PENDING_EMAIL", "PENDING_APPROVAL"}

\* The partial unique index: one live application per address.
IndexAllows(a) == \A b \in Applications \ {a} : ~Live(b)

Pcs == {"idle", "insert", "issue", "consume", "move",
        "clash", "claim", "create", "profile", "remove", "undo"}
Job == [pc : Pcs, a : Applications \cup {Nobody}]
Idle == [pc |-> "idle", a |-> Nobody]

At(w, pc) == jobs[w].pc = pc
App(w) == jobs[w].a
Begin(w, pc, a) == At(w, "idle") /\ jobs' = [jobs EXCEPT ![w] = [pc |-> pc, a |-> a]]
GoTo(w, pc) == jobs' = [jobs EXCEPT ![w].pc = pc]
EndJob(w) == jobs' = [jobs EXCEPT ![w] = Idle]
SetStatus(a, s) == registration' = [registration EXCEPT ![a] = s]

Init ==
  /\ useTransactions \in BOOLEAN
  /\ registration = [a \in Applications |-> "ABSENT"]
  /\ code = [a \in Applications |-> "NONE"]
  /\ account = Nobody
  /\ captains = [a \in Applications |-> 0]
  /\ undoRefused = {}
  /\ jobs = [w \in Handlers |-> Idle]
  /\ crashes = 0

-----------------------------------------------------------------------------
(* Applying *)

\* registerCaptain finds no account and no live application.
Register(w, a) ==
  /\ registration[a] = "ABSENT" /\ account = Nobody
  /\ \A b \in Applications : ~Live(b)
  /\ \A v \in Handlers : App(v) # a
  /\ Begin(w, "insert", a)
  /\ UNCHANGED <<useTransactions, registration, code, accountVars, undoRefused, crashes>>

InsertApplication(w) ==
  /\ At(w, "insert")
  /\ IF IndexAllows(App(w))
     THEN SetStatus(App(w), "PENDING_EMAIL") /\ GoTo(w, "issue")
     ELSE EndJob(w) /\ UNCHANGED registration
  /\ UNCHANGED <<useTransactions, code, accountVars, undoRefused, crashes>>

\* The code is issued and mailed, and its challenge saved on the application;
\* or the mail fails, and the application is left without one.
IssueCode(w) ==
  /\ At(w, "issue")
  /\ code' \in {code, [code EXCEPT ![App(w)] = "LIVE"]}
  /\ EndJob(w)
  /\ UNCHANGED <<useTransactions, registration, accountVars, undoRefused, crashes>>

\* verifyRegistrationEmail: the row, the code, the row.
VerifyRead(w, a) ==
  /\ registration[a] = "PENDING_EMAIL" /\ code[a] = "LIVE"
  /\ Begin(w, "consume", a)
  /\ UNCHANGED <<useTransactions, registration, code, accountVars, undoRefused, crashes>>

ConsumeCode(w) ==
  /\ At(w, "consume")
  /\ IF code[App(w)] = "LIVE"
     THEN code' = [code EXCEPT ![App(w)] = "CONSUMED"] /\ GoTo(w, "move")
     ELSE EndJob(w) /\ UNCHANGED code
  /\ UNCHANGED <<useTransactions, registration, accountVars, undoRefused, crashes>>

MoveToApproval(w) ==
  /\ At(w, "move")
  /\ IF registration[App(w)] = "PENDING_EMAIL"
     THEN SetStatus(App(w), "PENDING_APPROVAL")
     ELSE UNCHANGED registration
  /\ EndJob(w)
  /\ UNCHANGED <<useTransactions, code, accountVars, undoRefused, crashes>>

-----------------------------------------------------------------------------
(* Deciding *)

RejectRegistration(a) ==
  /\ Live(a)
  /\ SetStatus(a, "REJECTED")
  /\ UNCHANGED <<useTransactions, code, accountVars, undoRefused, jobs, crashes>>

\* createParty of the admin screens: any free address.
AdminCreatesAccount ==
  /\ account = Nobody
  /\ account' = Admin
  /\ UNCHANGED <<useTransactions, registration, code, captains, undoRefused, jobs, crashes>>

\* approveRegistration reads the application ...
ApproveRead(w, a) ==
  /\ registration[a] = "PENDING_APPROVAL"
  /\ Begin(w, "clash", a)
  /\ UNCHANGED <<useTransactions, registration, code, accountVars, undoRefused, crashes>>

\* ... looks for an account ...
LookForClash(w) ==
  /\ At(w, "clash")
  /\ IF account = Nobody THEN GoTo(w, "claim") ELSE EndJob(w)
  /\ UNCHANGED <<useTransactions, registration, code, accountVars, undoRefused, crashes>>

ClaimUnread(w) ==
  /\ At(w, "claim")
  /\ SetStatus(App(w), "APPROVED") /\ GoTo(w, "create")
  /\ UNCHANGED <<useTransactions, code, accountVars, undoRefused, crashes>>

\* ... claims the decision ...
ClaimDecision(w) ==
  /\ At(w, "claim")
  /\ IF registration[App(w)] = "PENDING_APPROVAL"
     THEN SetStatus(App(w), "APPROVED") /\ GoTo(w, "create")
     ELSE EndJob(w) /\ UNCHANGED registration
  /\ UNCHANGED <<useTransactions, code, accountVars, undoRefused, crashes>>

CaptainOf(a) == captains' = [captains EXCEPT ![a] = @ + 1]

\* ... and creates the account and the captain in one transaction, unless the
\* address is taken or a write fails (allocateCaptainCode is one that may) ...
CreateInTransaction(w) ==
  /\ At(w, "create") /\ useTransactions
  /\ \/ account = Nobody /\ account' = App(w) /\ CaptainOf(App(w)) /\ EndJob(w)
     \/ GoTo(w, "undo") /\ UNCHANGED <<account, captains>>
  /\ UNCHANGED <<useTransactions, registration, code, undoRefused, crashes>>

\* ... or one after the other, the account removed again if the captain fails.
CreateAccount(w) ==
  /\ At(w, "create") /\ ~useTransactions
  /\ \/ account = Nobody /\ account' = App(w) /\ GoTo(w, "profile")
     \/ GoTo(w, "undo") /\ UNCHANGED account
  /\ UNCHANGED <<useTransactions, registration, code, captains, undoRefused, crashes>>

CreateCaptain(w) ==
  /\ At(w, "profile")
  /\ \/ CaptainOf(App(w)) /\ EndJob(w)
     \/ GoTo(w, "remove") /\ UNCHANGED captains
  /\ UNCHANGED <<useTransactions, registration, code, account, undoRefused, crashes>>

RemoveAccount(w) ==
  /\ At(w, "remove")
  /\ account' = Nobody
  /\ GoTo(w, "undo")
  /\ UNCHANGED <<useTransactions, registration, code, captains, undoRefused, crashes>>

KeepDecision(w) ==
  /\ At(w, "undo")
  /\ EndJob(w)
  /\ UNCHANGED <<useTransactions, registration, code, accountVars, undoRefused, crashes>>

\* Whatever failed, the application is handed back, if it still is APPROVED.
\* The applicant may have applied again meanwhile: the index then refuses.
HandBack(w) ==
  /\ At(w, "undo")
  /\ CASE registration[App(w)] # "APPROVED" -> UNCHANGED <<registration, undoRefused>>
       [] registration[App(w)] = "APPROVED" /\ IndexAllows(App(w)) ->
            SetStatus(App(w), "PENDING_APPROVAL") /\ UNCHANGED undoRefused
       [] registration[App(w)] = "APPROVED" /\ ~IndexAllows(App(w)) ->
            undoRefused' = undoRefused \cup {App(w)} /\ UNCHANGED registration
  /\ EndJob(w)
  /\ UNCHANGED <<useTransactions, code, accountVars, crashes>>

\* The process stops.
Crash ==
  /\ crashes < MaxCrashes
  /\ \E w \in Handlers : ~At(w, "idle")
  /\ crashes' = crashes + 1
  /\ jobs' = [w \in Handlers |-> Idle]
  /\ UNCHANGED <<useTransactions, registration, code, accountVars, undoRefused>>

-----------------------------------------------------------------------------
JobStep(w) ==
  \/ InsertApplication(w) \/ IssueCode(w) \/ ConsumeCode(w) \/ MoveToApproval(w)
  \/ LookForClash(w) \/ ClaimDecision(w) \/ CreateInTransaction(w) \/ CreateAccount(w)
  \/ CreateCaptain(w) \/ RemoveAccount(w) \/ HandBack(w)

Next ==
  \/ \E w \in Handlers : JobStep(w)
  \/ \E w \in Handlers, a \in Applications : Register(w, a) \/ VerifyRead(w, a) \/ ApproveRead(w, a)
  \/ \E a \in Applications : RejectRegistration(a)
  \/ AdminCreatesAccount \/ Crash

Spec == Init /\ [][Next]_vars

-----------------------------------------------------------------------------
(* Properties *)

\* Every variable has its type.
TypeOK ==
  /\ useTransactions \in BOOLEAN
  /\ registration \in [Applications -> Statuses]
  /\ code \in [Applications -> {"NONE", "LIVE", "CONSUMED"}]
  /\ account \in Applications \cup {Nobody, Admin}
  /\ captains \in [Applications -> 0..1]
  /\ undoRefused \subseteq Applications
  /\ jobs \in [Handlers -> Job]
  /\ crashes \in 0..MaxCrashes

Approving(a) ==
  \E w \in Handlers : App(w) = a /\ jobs[w].pc \in {"create", "profile", "remove", "undo"}

\* Whatever two administrators, the applicant and a failing write do at once,
\* nobody can sign in as a captain who does not exist: an applicant's account
\* comes with the captain of that application, and the application is APPROVED.
\* A process that stops between two writes is safe with transactions only.
AccountsAreWhole ==
  \A a \in Applications :
    /\ account = a /\ ~Approving(a) /\ (useTransactions \/ crashes = 0) => captains[a] = 1
    /\ captains[a] = 1 => account = a /\ registration[a] = "APPROVED"

\* An approval that came to nothing is handed back, unless the applicant has
\* applied again or the process stopped in between.
ApprovalIsBacked ==
  \A a \in Applications :
    registration[a] = "APPROVED" /\ ~Approving(a) /\ crashes = 0 /\ a \notin undoRefused
      => captains[a] = 1
=============================================================================
