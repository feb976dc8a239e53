----------------------------- MODULE Acceptance -----------------------------
(***************************************************************************)
(* How a task is accepted: an independent reviewer approves a verified     *)
(* revision (native_review.go), a policy decision is made, approved and    *)
(* consumed (native_policy.go), the task is retired in the authority and   *)
(* then closed in its Markdown file (native_acceptance.go of the sessions, *)
(* the application and the store).  The authority and the file are two     *)
(* stores: a process may die between any two writes, and a person may edit *)
(* the file at any time.                                                   *)
(*                                                                         *)
(* One task, one attempt.  Verification shows what evidence means; here it *)
(* is the set of revisions that have it.                                   *)
(***************************************************************************)
EXTENDS Naturals, FiniteSets

CONSTANTS
    Owners,                 \* processes that run Apply
    Reviewers,              \* review-only root sessions outside the worker's family
    Keys, Decisions,        \* operation keys of acceptances and of evaluations
    Policies,               \* of each policy revision: [allow, approval]
    None,
    MaxRevision, MaxVersion, MaxCrashes \* bounds: revisions, edits, deaths

Revisions == 1 .. MaxRevision
Versions  == 0 .. MaxVersion

\* The rows of the authority.
ReviewRows   == [reviewer : Reviewers, rev : Revisions, seen : Versions, outcome : {"approve", "request-changes"}]
InputRows    == [key : Keys, review : ReviewRows]
Outcomes     == [version : Versions, marker : Decisions]
DecisionRows == [input : InputRows, policy : DOMAIN Policies, outcome : Outcomes]
Calls        == [input : InputRows, decision : Decisions]
Terminals    == [input : InputRows, decision : Decisions, outcome : Outcomes, state : {"closing", "closed"}]

\* What instances have to provide.
Bounds == /\ MaxRevision \in Nat \ {0} /\ MaxVersion \in Nat /\ MaxCrashes \in Nat
          /\ None \notin DOMAIN Policies /\ None \notin Decisions /\ None \notin DecisionRows /\ None \notin Terminals

VARIABLES
    worker,     \* the worker's session, lease and task binding are current
    rev, clean, \* the current revision; the checkout is at it
    evidence,   \* revisions with passing evidence of every required check
    landed,     \* revisions contained in the landing branch
    grants,     \* ReviewGrants: what the observer saw when it was granted
    reviews,    \* Reviews: [reviewer, rev, seen, outcome]
    policy, used, \* NativePolicies and NativePolicyHistory
    decisions,  \* NativePolicyDecisions: [input, policy, outcome]
    approvals,  \* NativePolicyApprovals
    lapsed,     \* decisions that, or whose approvals, have expired
    consumed,   \* NativePolicyConsumptions: decision to operation key
    terminal,   \* TaskTerminals of the task: [input, decision, outcome, state]
    file,       \* the canonical task: [version, marker, done]
    pc, args,   \* of each owner: its step and [input, decision]
    crashes

verified == <<worker, rev, clean, evidence, landed>>
reviewed == <<grants, reviews>>
decided  == <<policy, used, decisions, approvals, lapsed>>
vars     == <<verified, reviewed, decided, consumed, terminal, file, pc, args, crashes>>

-----------------------------------------------------------------------------
(* Locks.  Apply holds the lock of the task; ContinueNativeAcceptance      *)
(* closes the file inside one transaction of the authority.                *)

TaskFree      == \A o \in Owners : pc[o] = "idle"
\* Mutant: the authority is unlocked while the file is written.
AuthorityFreeEarly == TRUE

AuthorityFree == \A o \in Owners : pc[o] \notin {"permitted", "saved", "moved"}

-----------------------------------------------------------------------------
(* The surroundings.                                                       *)

\* A new revision is published: nothing verified or reviewed is about it.
Publish == /\ AuthorityFree /\ worker /\ terminal = None /\ rev < MaxRevision
           /\ rev' = rev + 1 /\ clean' = TRUE
           /\ UNCHANGED <<worker, evidence, landed, reviewed, decided, consumed, terminal, file, pc, args, crashes>>

Verify == /\ AuthorityFree /\ worker /\ terminal = None /\ clean /\ rev \notin evidence
          /\ evidence' = evidence \cup {rev}
          /\ UNCHANGED <<worker, rev, clean, landed, reviewed, decided, consumed, terminal, file, pc, args, crashes>>

Land == /\ rev \notin landed /\ landed' = landed \cup {rev}
        /\ UNCHANGED <<worker, rev, clean, evidence, reviewed, decided, consumed, terminal, file, pc, args, crashes>>

\* The lease or a session of the worker's lineage lapses or is revoked.
LoseWorker == /\ worker /\ worker' = FALSE
              /\ UNCHANGED <<rev, clean, evidence, landed, reviewed, decided, consumed, terminal, file, pc, args, crashes>>

Dirties == /\ clean /\ clean' = FALSE
           /\ UNCHANGED <<worker, rev, evidence, landed, reviewed, decided, consumed, terminal, file, pc, args, crashes>>

\* A person edits the task, checklist included, without taking any lock.
EditTask == /\ file.version < MaxVersion /\ file' = [file EXCEPT !.version = @ + 1]
            /\ UNCHANGED <<verified, reviewed, decided, consumed, terminal, pc, args, crashes>>

\* Another command, which holds the task's lock, moves the file to or from done.
MoveElsewhere == /\ TaskFree /\ file' = [file EXCEPT !.done = ~ @]
                 /\ UNCHANGED <<verified, reviewed, decided, consumed, terminal, pc, args, crashes>>

-----------------------------------------------------------------------------
(* Reviews.                                                                *)

\* GrantReview binds the checklist and the policy the observer sees.
GrantReview(r) == /\ AuthorityFree /\ grants[r] = None
                  /\ grants' = [grants EXCEPT ![r] = file.version]
                  /\ UNCHANGED <<verified, reviews, decided, consumed, terminal, file, pc, args, crashes>>

\* Revoked by the owner, or expired.
RevokeReview(r) == /\ grants[r] # None /\ grants' = [grants EXCEPT ![r] = None]
                   /\ UNCHANGED <<verified, reviews, decided, consumed, terminal, file, pc, args, crashes>>

\* The checklist under review: a file with the marker of an acceptance still
\* shows the checklist it was prepared from, a changed one is refused.
Observed == file.version

\* reviewCurrentExcept: grant, worker, current revision, observation, clean
\* checkout and evidence; the task may be retired by this operation only.
ReviewCurrent(p, closing) ==
    /\ grants[p.reviewer] = p.seen
    /\ worker /\ (terminal = None \/ (closing # None /\ terminal.input.key = closing))
    /\ p.rev = rev /\ Observed = p.seen /\ clean
    /\ rev \in evidence

ProposeReview(r, outcome) ==
    LET p == [reviewer |-> r, rev |-> rev, seen |-> Observed, outcome |-> outcome] IN
    /\ AuthorityFree /\ ReviewCurrent(p, None)
    /\ reviews' = reviews \cup {p}
    /\ UNCHANGED <<verified, grants, decided, consumed, terminal, file, pc, args, crashes>>

Inputs == [key : Keys, review : reviews]

AcceptanceCurrent(in, closing) == in.review.outcome = "approve" /\ ReviewCurrent(in.review, closing)

-----------------------------------------------------------------------------
(* Policy decisions.                                                       *)

ConfigureNativePolicy(p) ==
    /\ AuthorityFree /\ p \notin used /\ used' = used \cup {p} /\ policy' = p
    /\ UNCHANGED <<verified, reviewed, decisions, approvals, lapsed, consumed, terminal, file, pc, args, crashes>>

\* Prepare: the exact file the acceptance would write, bound to its receipt.
Outcome(d) == [version |-> file.version, marker |-> d]
Preparable == ~ file.done /\ file.marker = None

\* ValidateNativeAcceptanceClose: the reviewed commit is in the landing branch.
Landed(in) == in.review.rev \in landed

EvaluateNativePolicy(d, in) ==
    /\ AuthorityFree /\ TaskFree /\ decisions[d] = None /\ terminal = None /\ policy # None
    /\ AcceptanceCurrent(in, None) /\ Preparable /\ Landed(in)
    /\ decisions' = [decisions EXCEPT ![d] = [input |-> in, policy |-> policy, outcome |-> Outcome(d)]]
    /\ UNCHANGED <<verified, reviewed, policy, used, approvals, lapsed, consumed, terminal, file, pc, args, crashes>>

ApproveNativePolicy(d) ==
    /\ AuthorityFree /\ decisions[d] # None /\ d \notin approvals /\ d \notin lapsed /\ consumed[d] = None
    /\ decisions[d].policy = policy /\ Policies[policy].allow /\ Policies[policy].approval
    /\ approvals' = approvals \cup {d}
    /\ UNCHANGED <<verified, reviewed, policy, used, decisions, lapsed, consumed, terminal, file, pc, args, crashes>>

Lapse(d) == /\ decisions[d] # None /\ d \notin lapsed /\ lapsed' = lapsed \cup {d}
            /\ UNCHANGED <<verified, reviewed, policy, used, decisions, approvals, consumed, terminal, file, pc, args, crashes>>

\* nativePolicyCurrent: the policy decided under is the one in force, allows,
\* has not expired and has been approved where it asks for that.
PolicyCurrent(d) ==
    /\ decisions[d].policy = policy /\ Policies[policy].allow /\ d \notin lapsed
    /\ Policies[policy].approval => d \in approvals

-----------------------------------------------------------------------------
(* Apply: lock, retire, close, record.                                     *)

Step(o, s) == pc' = [pc EXCEPT ![o] = s]
Return(o)  == Step(o, "idle") /\ args' = [args EXCEPT ![o] = None]

\* WithNativeAcceptanceTask; nothing is retired when the close is not valid.
Apply(o, in, d) ==
    /\ pc[o] = "idle" /\ TaskFree
    /\ decisions[d] # None /\ decisions[d].input = in /\ (file.done \/ Landed(in))
    /\ Step(o, "locked") /\ args' = [args EXCEPT ![o] = [input |-> in, decision |-> d]]
    /\ UNCHANGED <<verified, reviewed, decided, consumed, terminal, file, crashes>>

Retirable(in, d) ==
    /\ terminal = None /\ AcceptanceCurrent(in, None) /\ PolicyCurrent(d) /\ consumed[d] = None
    /\ Preparable /\ Outcome(d) = decisions[d].outcome

\* The same operation finds its record again; before it has written, the file
\* must still be what the outcome was prepared from.
Resumable(in, d) ==
    /\ terminal # None /\ terminal.input = in /\ terminal.decision = d
    /\ file.marker = None => Preparable /\ Outcome(d) = terminal.outcome

\* Retirement, consumption and an outcome that is still unknown are saved
\* before the file is touched.
BeginNativeAcceptance(o) ==
    LET in == args[o].input
        d  == args[o].decision
    IN
    /\ pc[o] = "locked" /\ AuthorityFree
    /\ \/ Resumable(in, d) /\ UNCHANGED <<consumed, terminal>>
       \/ /\ Retirable(in, d)
          /\ consumed' = [consumed EXCEPT ![d] = in.key]
          /\ terminal' = [input |-> in, decision |-> d, outcome |-> decisions[d].outcome, state |-> "closing"]
    /\ Step(o, "begun") /\ UNCHANGED <<verified, reviewed, decided, file, args, crashes>>

\* What inspect finds: the file is the prepared outcome, in its place.
Exact  == file.version = terminal.outcome.version /\ file.marker = terminal.outcome.marker
Closed == file.done /\ Exact

Finish(o) == /\ terminal' = [terminal EXCEPT !.state = "closed"]
             /\ Return(o) /\ UNCHANGED <<verified, reviewed, decided, consumed, file, crashes>>

\* Mutant: the repair asks for what the closing asked for.
RepairIfCurrent(o) == /\ pc[o] = "begun" /\ AuthorityFree /\ Closed
                      /\ AcceptanceCurrent(terminal.input, terminal.input.key) /\ Finish(o)

\* An exactly closed file repairs a record whose last save was lost.
Repair(o) == /\ pc[o] = "begun" /\ AuthorityFree /\ Closed /\ Finish(o)

\* Otherwise every check is made again, in the transaction that closes.
Permitted(o) ==
    /\ ~ file.done /\ (file.marker = None \/ Exact) /\ file.version = terminal.outcome.version
    /\ AcceptanceCurrent(terminal.input, terminal.input.key) /\ Landed(terminal.input)
    /\ PolicyCurrent(terminal.decision)

ContinueNativeAcceptance(o) ==
    /\ pc[o] = "begun" /\ AuthorityFree /\ terminal.state = "closing" /\ Permitted(o)
    /\ Step(o, "permitted") /\ UNCHANGED <<verified, reviewed, decided, consumed, terminal, file, args, crashes>>

\* CloseTaskWithNativeAcceptance writes the prepared body, or finds its own.
SaveTask(o) ==
    /\ pc[o] = "permitted" /\ (file.marker = None \/ Exact)
    /\ file' = [file EXCEPT !.version = terminal.outcome.version, !.marker = terminal.outcome.marker]
    /\ Step(o, "saved") /\ UNCHANGED <<verified, reviewed, decided, consumed, terminal, args, crashes>>

MoveTask(o) ==
    /\ pc[o] = "saved" /\ file' = [file EXCEPT !.done = TRUE]
    /\ Step(o, "moved") /\ UNCHANGED <<verified, reviewed, decided, consumed, terminal, args, crashes>>

Recordable == Closed

Record(o) == pc[o] = "moved" /\ Recordable /\ Finish(o)

\* A refusal anywhere releases both locks and changes nothing.
Refuse(o) ==
    /\ \/ pc[o] = "locked" /\ AuthorityFree /\ ~ Resumable(args[o].input, args[o].decision)
          /\ ~ Retirable(args[o].input, args[o].decision)
       \/ pc[o] = "begun" /\ AuthorityFree /\ ~ Closed /\ ~ (terminal.state = "closing" /\ Permitted(o))
       \/ pc[o] = "permitted" /\ ~ (file.marker = None \/ Exact)
       \/ pc[o] = "moved" /\ ~ Recordable
    /\ Return(o) /\ UNCHANGED <<verified, reviewed, decided, consumed, terminal, file, crashes>>

\* The process dies; what it wrote stays, what it decided is forgotten.
Crash(o) == /\ pc[o] # "idle" /\ crashes < MaxCrashes /\ crashes' = crashes + 1 /\ Return(o)
            /\ UNCHANGED <<verified, reviewed, decided, consumed, terminal, file>>

-----------------------------------------------------------------------------
Init == /\ worker = TRUE /\ rev = 1 /\ clean = TRUE /\ evidence = {} /\ landed = {}
        /\ grants = [r \in Reviewers |-> None] /\ reviews = {}
        /\ policy = None /\ used = {} /\ decisions = [d \in Decisions |-> None]
        /\ approvals = {} /\ lapsed = {} /\ consumed = [d \in Decisions |-> None]
        /\ terminal = None /\ file = [version |-> 0, marker |-> None, done |-> FALSE]
        /\ pc = [o \in Owners |-> "idle"] /\ args = [o \in Owners |-> None] /\ crashes = 0

Surroundings == Publish \/ Verify \/ Land \/ LoseWorker \/ Dirties \/ EditTask \/ MoveElsewhere

Authorise == \/ \E r \in Reviewers : \/ GrantReview(r) \/ RevokeReview(r)
                                     \/ \E outcome \in {"approve", "request-changes"} : ProposeReview(r, outcome)
             \/ \E p \in DOMAIN Policies : ConfigureNativePolicy(p)
             \/ \E d \in Decisions : ApproveNativePolicy(d) \/ Lapse(d)
             \/ \E d \in Decisions, in \in Inputs : EvaluateNativePolicy(d, in)

Advance(o) == \/ BeginNativeAcceptance(o) \/ Repair(o) \/ ContinueNativeAcceptance(o)
              \/ SaveTask(o) \/ MoveTask(o) \/ Record(o) \/ Refuse(o)

Next == \/ Surroundings \/ Authorise
        \/ \E o \in Owners : \/ Advance(o) \/ Crash(o)
                             \/ \E in \in Inputs, d \in Decisions : Apply(o, in, d)

Spec == Init /\ [][Next]_vars

\* The owner applies an acceptance that is under way again, and what runs is
\* scheduled; processes die only finitely often.
Retry == \E o \in Owners : terminal # None /\ Apply(o, terminal.input, terminal.decision)
FairSpec == Spec /\ SF_vars(Retry) /\ \A o \in Owners : WF_vars(Advance(o))

-----------------------------------------------------------------------------
(* Properties.                                                             *)

TypeOK ==
    /\ worker \in BOOLEAN /\ rev \in Revisions /\ clean \in BOOLEAN
    /\ evidence \subseteq Revisions /\ landed \subseteq Revisions
    /\ grants \in [Reviewers -> Versions \cup {None}] /\ reviews \subseteq ReviewRows
    /\ policy \in used \cup {None} /\ used \subseteq DOMAIN Policies
    /\ decisions \in [Decisions -> DecisionRows \cup {None}]
    /\ approvals \cup lapsed \subseteq {d \in Decisions : decisions[d] # None}
    /\ consumed \in [Decisions -> Keys \cup {None}]
    /\ terminal \in Terminals \cup {None}
    /\ file \in [version : Versions, marker : Decisions \cup {None}, done : BOOLEAN]
    /\ pc \in [Owners -> {"idle", "locked", "begun", "permitted", "saved", "moved"}]
    /\ args \in [Owners -> Calls \cup {None}]

\* The file never shows an acceptance the authority has not recorded first:
\* a marker is that of the one operation that retired the task.
MarkerIsRecorded == file.marker # None => terminal # None /\ file.marker = terminal.decision

\* A task is retired once and for good, by one operation that consumed one
\* decision: whatever dies or is tried again, neither is replaced.
RetiredForGood == [][terminal # None =>
    /\ terminal' \in {terminal, [terminal EXCEPT !.state = "closed"]}
    /\ consumed' = consumed]_vars

\* When the acceptance is written into the file, the revision it is about is
\* still the current one, verified, landed and approved by a reviewer whose
\* grant saw this very checklist, and the policy decided under is in force:
\* the checks and the write are one transaction.
WrittenAsReviewed == [][(file.marker = None /\ file'.marker # None) =>
    LET p == terminal.input.review IN
    /\ p.outcome = "approve" /\ p.rev = rev /\ rev \in evidence \cap landed
    /\ file'.version = p.seen
    /\ policy = decisions[terminal.decision].policy /\ Policies[policy].allow
    /\ Policies[policy].approval => terminal.decision \in approvals]_vars

\* The record says closed only when the file was seen to be exactly the
\* prepared outcome in its final place.
ClosedIsSeen == [][(terminal # None /\ terminal.state = "closing" /\ terminal'.state = "closed") =>
    file = [version |-> terminal.outcome.version, marker |-> terminal.decision, done |-> TRUE]]_vars

\* A file that was closed exactly, while the process died before the record
\* was saved, is recorded as closed when the owner applies again, whatever has
\* expired or been revoked meanwhile.
RecordCatchesUp == <>[](terminal # None /\ Closed) => <>(terminal # None /\ terminal.state = "closed")

=============================================================================
