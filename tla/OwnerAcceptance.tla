-------------------------- MODULE OwnerAcceptance --------------------------
(***************************************************************************)
(* Closing a task on the owner's word: `accept` with its verification and  *)
(* landing gates, `accept --all`, and the handoff in which an independent  *)
(* read-only reviewer proposes and the owner applies.  The verification    *)
(* runs for minutes without any lock; meanwhile the worker pushes, pull    *)
(* requests merge, others edit, reassign or close the task, and agents     *)
(* file close requests.  One task; an artifact is a version of its branch  *)
(* or of the trunk.                                                        *)
(***************************************************************************)
EXTENDS Naturals, FiniteSets, SequencesExt

CONSTANTS
    Owners,         \* read-write identities, "root" among them
    Claimant,       \* the one that claimed the task
    Reviewers,      \* read-only identities
    Calls,          \* how accept may be called: [all, verify, independent, unverified, unlanded, defer, final, force, unchecked]
    Remote,         \* whether the project has a GitHub repository
    Requests,       \* close requests that may be filed, 1 .. n
    MaxCommits, MaxEdits, MaxHandoffs, MaxCloses, MaxStops, MaxTrunk,
    None

Bounds == "root" \in Owners /\ Requests = 1 .. Cardinality(Requests)

VARIABLES
    task,       \* [status, owner, list, boxes]: list is the version of the checklist, 0 without any criterion
    log,        \* the closes in the task's log: [by, before, evidence, bound, handoff, forced]
    branch, trunk, pr, green,   \* git and GitHub: branch version, [has, version], [head, state], artifacts whose checks pass
    requests, handoffs,         \* close requests; the reviewers' proposals
    proc, lock, canon,          \* the processes, the task's lock, artifacts that were canonical since it was taken
    stops

vars == <<task, log, branch, trunk, pr, green, requests, handoffs, proc, lock, canon, stops>>
world == <<branch, trunk, pr, green>>

Idle == [pc |-> "idle"]
Nothing == <<"none", 0>>
To(p, r) == proc' = [proc EXCEPT ![p] = r]
At(p, pc) == To(p, [proc[p] EXCEPT !.pc = pc])
Refuse(p) == To(p, Idle)
CanMutate(p) == p \in Owners /\ task.owner \in {None, p}

-----------------------------------------------------------------------------
(* What is canonical, and what has landed.                                 *)

localAcceptanceArtifact == <<"branch", branch>>
acceptanceAPIArtifact == <<"trunk", trunk.version>>

\* The reviewed head: the open or merged pull request's, if it is the branch's
\* too; a project without repository has its branch, or no contract at all.
canonicalAcceptanceArtifact(final) ==
    IF final THEN acceptanceAPIArtifact
    ELSE IF ~Remote THEN (IF branch = 0 THEN Nothing ELSE localAcceptanceArtifact)
    ELSE IF pr.state \in {"open", "merged"} /\ pr.head = branch THEN localAcceptanceArtifact
    ELSE None

localUnlandedAcceptance(c) == c.unlanded /\ ~Remote
bindCanonical(c) == c.final \/ (~c.defer /\ ~localUnlandedAcceptance(c))

prLandingState == IF pr.state = "merged" THEN "landed" ELSE "unlanded"
checkLanded == IF Remote /\ pr.state # "none" THEN prLandingState
               ELSE IF branch = 0 THEN "no branch" ELSE IF branch <= trunk.has THEN "landed" ELSE "unlanded"
LandingDecided(unlanded, defer) == defer \/ checkLanded # "unlanded" \/ unlanded

\* Checks of exactly this head.
ValidateExternalVerification(c, evidence) == Remote /\ ~c.unchecked => evidence \in green
ValidateFinalTreeVerification(evidence, expected) == evidence = expected

-----------------------------------------------------------------------------
(* accept                                                                  *)

independenceCheck(p, c) == c.independent => p # Claimant
taskRequiresCommandVerification(c) == task.list = 2 => c.verify
MayStart(p, c) == /\ task.list = 0 => c.unverified
                  /\ taskRequiresCommandVerification(c) /\ independenceCheck(p, c)

\* The grant decides the path: without it the close is only asked for.
propose(p) ==
    \E r \in Requests :
        /\ requests[r] = None /\ \A q \in Requests : q < r => requests[q] # None
        /\ requests' = [requests EXCEPT ![r] = [state |-> "pending", at |-> Len(log)]]
Propose(p) == /\ ~CanMutate(p) /\ propose(p) /\ UNCHANGED <<task, log, world, handoffs, proc, lock, stops>>

Pending == {r \in Requests : requests[r] # None /\ requests[r].state = "pending"}
pendingProposals == Pending

\* The task is read without the lock; only an explicit force adopts another's.
Accept(p, c) ==
    /\ proc[p] = Idle /\ Len(log) < MaxCloses /\ (c.all => Pending # {})
    /\ CanMutate(p) \/ (p = "root" /\ c.force)
    /\ MayStart(p, c)
    /\ To(p, [pc |-> IF c.verify THEN "pin" ELSE "gates", call |-> c, owner |-> IF CanMutate(p) THEN task.owner ELSE p,
              expected |-> Nothing, evidence |-> Nothing, read |-> {}])
    /\ UNCHANGED <<task, log, world, requests, handoffs, lock, stops>>

pinAcceptanceArtifact(p) ==
    LET c == proc[p].call
        a == canonicalAcceptanceArtifact(c.final)
    IN  /\ proc[p].pc = "pin"
        /\ IF ~bindCanonical(c) THEN At(p, "verify")
           ELSE IF a = None THEN Refuse(p)
           ELSE To(p, [proc[p] EXCEPT !.pc = "verify", !.expected = a])
        /\ UNCHANGED <<task, log, world, requests, handoffs, lock, stops>>

\* The command passes, in whatever the checkout then holds, or it does not.
Artifacts == {<<"branch", n>> : n \in 0 .. branch} \cup {acceptanceAPIArtifact}
recheckAcceptanceArtifact(p) ==
    /\ canonicalAcceptanceArtifact(proc[p].call.final) = proc[p].expected
    /\ proc[p].expected # Nothing => ValidateFinalTreeVerification(proc[p].evidence, proc[p].expected)
Certified(p) == proc[p].call.verify /\ bindCanonical(proc[p].call) => recheckAcceptanceArtifact(p)

runVerify(p) ==
    /\ proc[p].pc = "verify"
    /\ \/ Refuse(p)
       \/ \E a \in Artifacts : To(p, [proc[p] EXCEPT !.pc = "recheck", !.evidence = a])
    /\ UNCHANGED <<task, log, world, requests, handoffs, lock, stops>>

\* One at a time: landing is decided before the lock, with --all under it.
Gates(p) == /\ ~proc[p].call.all => LandingDecided(proc[p].call.unlanded, proc[p].call.defer)
            /\ proc[p].call.verify => ValidateExternalVerification(proc[p].call,
                   IF proc[p].expected = Nothing THEN proc[p].evidence ELSE proc[p].expected)
Recheck(p) == /\ proc[p].pc = "recheck" /\ (IF Certified(p) THEN At(p, "gates") ELSE Refuse(p))
              /\ UNCHANGED <<task, log, world, requests, handoffs, lock, stops>>
PassGates(p) == /\ proc[p].pc = "gates" /\ (IF Gates(p) THEN At(p, "wait") ELSE Refuse(p))
                /\ UNCHANGED <<task, log, world, requests, handoffs, lock, stops>>

WithTask(p) == /\ proc[p].pc \in {"wait", "apply-wait"} /\ lock = None /\ lock' = p
               /\ At(p, IF proc[p].pc = "wait" THEN "locked" ELSE "apply-locked")
               /\ UNCHANGED <<task, log, world, requests, handoffs, stops>>
RecheckLocked(p) == /\ proc[p].pc = "locked"
                    /\ IF Certified(p) THEN At(p, "close") /\ UNCHANGED lock ELSE Refuse(p) /\ lock' = None
                    /\ UNCHANGED <<task, log, world, requests, handoffs, stops>>

\* A close checks every box; whoever held the snapshot as the owner adopts the task.
Closed(owner, entry) == /\ task' = [task EXCEPT !.status = "done", !.owner = owner, !.boxes = TRUE]
                        /\ log' = Append(log, entry) /\ lock' = None
Close(p) ==
    LET c == proc[p].call IN
    /\ proc[p].pc = "close"
    /\ IF c.all /\ ~LandingDecided(c.unlanded, c.defer) THEN Refuse(p) /\ lock' = None /\ UNCHANGED <<task, log>>
       ELSE /\ Closed(IF proc[p].owner = p THEN p ELSE task.owner,
                      [by |-> p, before |-> task.owner, evidence |-> proc[p].evidence, handoff |-> 0,
                       bound |-> c.verify /\ bindCanonical(c) /\ proc[p].expected # Nothing, forced |-> c.force])
            /\ To(p, [proc[p] EXCEPT !.pc = "mark", !.read = pendingProposals])
    /\ UNCHANGED <<world, requests, handoffs, stops>>

\* Only what the close had read is marked, and only after it.
markProposalsApplied(read) == [r \in Requests |-> IF r \in read THEN [requests[r] EXCEPT !.state = "applied"] ELSE requests[r]]
Mark(p) == /\ proc[p].pc = "mark" /\ requests' = markProposalsApplied(proc[p].read) /\ Refuse(p)
           /\ UNCHANGED <<task, log, world, handoffs, lock, stops>>

-----------------------------------------------------------------------------
(* accept propose, accept apply                                            *)

AcceptanceChecklistDigest == <<task.list, task.boxes>>
NewAcceptanceProposal(r) ==
    /\ r \in Reviewers /\ r \notin {task.owner, Claimant} /\ task.list # 0 /\ Len(handoffs) < MaxHandoffs
    /\ \E a \in Artifacts : handoffs' = Append(handoffs, [by |-> r, artifact |-> a, digest |-> AcceptanceChecklistDigest,
                                                          state |-> "pending"])
    /\ UNCHANGED <<task, log, world, requests, proc, lock, stops>>

Marked(h) == \E i \in DOMAIN log : log[i].handoff = h
MarkAcceptanceProposalApplied(h) == handoffs' = [handoffs EXCEPT ![h].state = "applied"]
RepairReceipt(p, h) == /\ proc[p] = Idle /\ CanMutate(p) /\ Marked(h) /\ handoffs[h].state = "pending"
                       /\ MarkAcceptanceProposalApplied(h) /\ UNCHANGED <<task, log, world, requests, proc, lock, stops>>

\* The caller stands on the reviewed tree; everything is judged before the lock ...
applyAcceptanceProposal(p, h, unlanded) ==
    /\ proc[p] = Idle /\ CanMutate(p) /\ ~Marked(h) /\ handoffs[h].state = "pending" /\ Len(log) < MaxCloses
    /\ handoffs[h].by \notin {p, Claimant, task.owner} /\ handoffs[h].digest = AcceptanceChecklistDigest
    /\ LandingDecided(unlanded, FALSE)
    /\ To(p, [pc |-> "apply-wait", handoff |-> h]) /\ UNCHANGED <<task, log, world, requests, handoffs, lock, stops>>

\* ... and only the checklist again under it.
ApplyClose(p) ==
    LET h == proc[p].handoff IN
    /\ proc[p].pc = "apply-locked"
    /\ IF handoffs[h].digest # AcceptanceChecklistDigest THEN Refuse(p) /\ lock' = None /\ UNCHANGED <<task, log>>
       ELSE /\ Closed(task.owner, [by |-> p, before |-> task.owner, evidence |-> handoffs[h].artifact, bound |-> FALSE,
                                   handoff |-> h, forced |-> FALSE])
            /\ At(p, "receipt")
    /\ UNCHANGED <<world, requests, handoffs, stops>>
Receipt(p) == /\ proc[p].pc = "receipt" /\ MarkAcceptanceProposalApplied(proc[p].handoff) /\ Refuse(p)
              /\ UNCHANGED <<task, log, world, requests, lock, stops>>

\* A process dies; its lock is broken.
Stops(p) == /\ proc[p] # Idle /\ stops < MaxStops /\ stops' = stops + 1 /\ Refuse(p)
            /\ lock' = (IF lock = p THEN None ELSE lock) /\ UNCHANGED <<task, log, world, requests, handoffs>>

-----------------------------------------------------------------------------
(* The worker, GitHub and other commands on the task.                      *)

Commits == branch < MaxCommits /\ branch' = branch + 1 /\ UNCHANGED <<trunk, pr, green>>
Pushes == Remote /\ branch > 0 /\ pr # [head |-> branch, state |-> "open"] /\ pr' = [head |-> branch, state |-> "open"] /\ UNCHANGED <<branch, trunk, green>>
Merges == /\ trunk.version < MaxTrunk
          /\ \/ Remote /\ pr.state = "open" /\ pr' = [pr EXCEPT !.state = "merged"] /\ trunk' = [has |-> pr.head, version |-> trunk.version + 1]
             \/ ~Remote /\ branch > trunk.has /\ trunk' = [has |-> branch, version |-> trunk.version + 1] /\ UNCHANGED pr
             \/ trunk' = [trunk EXCEPT !.version = @ + 1] /\ UNCHANGED pr
          /\ UNCHANGED <<branch, green>>
ChecksEnd == Remote /\ \E a \in Artifacts \ {<<"branch", 0>>} : green' = (IF a \in green THEN green \ {a} ELSE green \cup {a})
             /\ UNCHANGED <<branch, trunk, pr>>
World == (Commits \/ Pushes \/ Merges \/ ChecksEnd) /\ UNCHANGED <<task, log, requests, handoffs, proc, lock, stops>>

Edits == task.list < MaxEdits /\ task' = [task EXCEPT !.list = @ + 1, !.boxes = FALSE]
Reassigns == \E p \in Owners \ {task.owner} : task' = [task EXCEPT !.owner = p]
Reopens == task.status = "done" /\ task' = [task EXCEPT !.status = "open", !.boxes = FALSE]
Others == /\ lock = None /\ (Edits \/ Reassigns \/ Reopens)
          /\ UNCHANGED <<log, world, requests, handoffs, proc, lock, stops>>

Init == /\ task = [status |-> "open", owner |-> "root", list |-> 1, boxes |-> FALSE] /\ log = <<>>
        /\ branch = 0 /\ trunk = [has |-> 0, version |-> 0] /\ pr = [head |-> 0, state |-> "none"] /\ green = {}
        /\ requests = [r \in Requests |-> None] /\ handoffs = <<>>
        /\ proc = [p \in Owners |-> Idle] /\ lock = None /\ canon = {} /\ stops = 0

Process(p) == \/ \E c \in Calls : Accept(p, c)
              \/ pinAcceptanceArtifact(p) \/ runVerify(p) \/ Recheck(p) \/ PassGates(p) \/ WithTask(p) \/ RecheckLocked(p)
              \/ Close(p) \/ Mark(p) \/ ApplyClose(p) \/ Receipt(p) \/ Stops(p)
              \/ \E h \in DOMAIN handoffs : RepairReceipt(p, h) \/ \E u \in BOOLEAN : applyAcceptanceProposal(p, h, u)

\* canon is a history: what was canonical while the present holder has the lock.
Canonical == {canonicalAcceptanceArtifact(f) : f \in BOOLEAN} \ {None}
Watched == canon' = IF lock' = None THEN {} ELSE Canonical' \cup (IF lock' = lock THEN canon ELSE {})
Next == /\ \/ \E p \in Owners : Process(p)
           \/ \E p \in Owners \cup Reviewers : Propose(p)
           \/ \E r \in Reviewers : NewAcceptanceProposal(r)
           \/ World \/ Others
        /\ Watched
Spec == Init /\ [][Next]_vars

-----------------------------------------------------------------------------
\* A close that names a verification of the reviewed head names the head that
\* was canonical while the closer held the task's lock, however long the
\* command ran and whatever was pushed, merged or checked out meanwhile.
ClosesCertified == Len(log') > Len(log) => LET e == Last(log') IN e.bound => e.evidence \in canon
CertifiedHead == [][ClosesCertified]_vars

\* A close request counts as answered only when a close followed it.
RequestsAnswered == \A r \in Requests :
    requests[r] # None /\ requests[r].state = "applied" => Len(log) > requests[r].at

\* "Without it the close stays a proposal for a live owner to apply": nobody
\* closes another's task without force.
OwnerCloses == \A i \in DOMAIN log : log[i].forced \/ log[i].before \in {None, log[i].by}

\* A reviewer's proposal closes the task once.
HandoffOnce == \A h \in DOMAIN handoffs : Cardinality({i \in DOMAIN log : log[i].handoff = h}) <= 1

=============================================================================
