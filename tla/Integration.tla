---------------------------- MODULE Integration ----------------------------
(***************************************************************************)
(* Owner-authorised effects outside the authority: the local fast-forward  *)
(* of a reviewed commit, and the push and the pull request of an external  *)
(* delivery.  Each operation is two transactions: the first records a      *)
(* pending intent, the second inspects the target, launches the effect if  *)
(* this very call recorded the intent, and records what it observed.  Git, *)
(* the remote and people act in between, and a process may stop anywhere.  *)
(* A commit is the sequence of changes it contains.                        *)
(***************************************************************************)
EXTENDS Naturals, FiniteSets, SequencesExt

CONSTANTS
    Keys,               \* operation keys
    TaskOf, KindOf,     \* the task and the kind of each key: "local", "push" or "create_pr"
    Procs,              \* owner processes
    MaxPolicy, MaxForeign, MaxStops,    \* bounds: policy revisions, foreign changes, stopped processes
    None

Tasks == {TaskOf[k] : k \in Keys}
Class(k) == IF KindOf[k] = "local" THEN "local" ELSE "external"
Classes == {Class(k) : k \in Keys}
Dirty == <<"dirty">>    \* the content of no commit

\* The values of the records below.
Changes == Tasks \cup {"x", "m"}
Commits == Seq(Changes)
PullRequests == [commit : Commits, merged : Commits \cup {None}]
Policies == [rev : Nat, commit : Commits, head : Commits, expected : Commits]
LocalOutcomes == [commit : Commits, clean : BOOLEAN]
ExternalOutcomes == [trunk : Commits, head : Commits, pr : PullRequests \cup {None}, checks : BOOLEAN,
                     complete : BOOLEAN, fresh : BOOLEAN]
Operations == [key : Keys, state : {"pending", "done"}, commit : Commits, policy : Policies,
               outcome : LocalOutcomes \cup ExternalOutcomes \cup {None}]

\* What instances have to provide.
Bounds == /\ \A k \in Keys : KindOf[k] \in {"local", "push", "create_pr"}
          /\ None \notin Operations \cup Procs

VARIABLES
    trunk, worktree,    \* the target ref and the content of its checkout, or Dirty
    remote,             \* [head, trunk, pr, checks]: source branch, target branch, pull request, CI
    policy,             \* the latest policy of each class and task, or None
    candidate, review,  \* the worker's commit; the approval of it, with the policies it came after
    live,               \* tasks whose lease, sessions and grants are current
    ops,                \* the recorded operations
    proc, transaction,  \* where each process is; who holds the authority's lock
    foreign, stops, launched    \* bounds, and how often each key's effect ran

vars == <<trunk, worktree, remote, policy, candidate, review, live, ops, proc, transaction, foreign, stops, launched>>
git == <<trunk, worktree, remote>>
authority == <<policy, candidate, review, live>>

Idle == [pc |-> "idle", key |-> None, fresh |-> FALSE]
Rev(c, t) == IF policy[c][t] = None THEN 0 ELSE policy[c][t].rev

-----------------------------------------------------------------------------
(* Authority: policies, and what makes an operation current.               *)

\* The owner pins what the target is now; earlier approvals do not count.
Configure(c, t) ==
    /\ transaction = None /\ Rev(c, t) < MaxPolicy
    /\ policy' = [policy EXCEPT ![c][t] = [rev |-> Rev(c, t) + 1, commit |-> candidate[t], head |-> remote.head,
                                           expected |-> IF c = "local" THEN trunk ELSE remote.trunk]]
    /\ UNCHANGED <<git, candidate, review, live, ops, proc, transaction, foreign, stops, launched>>
ConfigureNativeIntegration(t) == Configure("local", t)
ConfigureNativeExternal(t) == Configure("external", t)

\* The worker rebases its change on the trunk; a reviewer approves it.
PublishRevision(t) ==
    /\ transaction = None /\ t \in live /\ candidate[t] # Append(trunk, t) /\ ~Contains(trunk, t)
    /\ candidate' = [candidate EXCEPT ![t] = Append(trunk, t)] /\ review' = [review EXCEPT ![t] = None]
    /\ UNCHANGED <<git, policy, live, ops, proc, transaction, foreign, stops, launched>>
Approve(t) ==
    /\ transaction = None /\ t \in live
    /\ review' = [review EXCEPT ![t] = [commit |-> candidate[t], after |-> [c \in Classes |-> Rev(c, t)]]]
    /\ review' # review
    /\ UNCHANGED <<git, policy, candidate, live, ops, proc, transaction, foreign, stops, launched>>
\* Time is not stopped by a transaction.
Lapses(t) == t \in live /\ live' = live \ {t}
             /\ UNCHANGED <<git, policy, candidate, review, ops, proc, transaction, foreign, stops, launched>>

policyCurrent(r) == LET p == policy[Class(r.key)][TaskOf[r.key]] IN p # None /\ p.rev = r.policy.rev
integrationFinalCurrent(r) ==
    /\ policyCurrent(r) /\ TaskOf[r.key] \in live
    /\ LET v == review[TaskOf[r.key]] IN v # None /\ v.commit = r.commit /\ v.after[Class(r.key)] = r.policy.rev

-----------------------------------------------------------------------------
(* Observations of the targets.                                            *)

ObserveNativeIntegrationTarget == [commit |-> trunk, clean |-> worktree = trunk]
integrationDone(r, o) == o.clean /\ o.commit = r.commit

\* Without the pull requests and checks the observation is incomplete.
ObserveNativeExternal(complete) ==
    [trunk |-> remote.trunk, head |-> remote.head, pr |-> IF complete THEN remote.pr ELSE None,
     checks |-> complete /\ remote.checks, complete |-> complete, fresh |-> TRUE]
externalBound(r) == candidate[TaskOf[r.key]] = r.policy.commit
externalEffectDone(r, o) ==
    /\ externalBound(r) /\ o.complete /\ o.head = r.policy.commit
    /\ KindOf[r.key] = "create_pr" => o.pr # None /\ o.pr.commit = r.policy.commit

\* Required delivery: merged as exactly the pinned commit, freshly observed.
nativeExternalLatest(t) ==
    {k \in Keys : ops[k] # None /\ Class(k) = "external" /\ TaskOf[k] = t /\ ops[k].outcome # None
                  /\ ops[k].policy.rev = Rev("external", t)}
nativeExternalGateAny(k) ==
    LET o == ops[k].outcome IN externalBound(ops[k]) /\ o.fresh /\ o.complete /\ o.checks /\ o.pr # None /\ o.pr.merged # None
nativeExternalGate(k) ==
    LET o == ops[k].outcome
        merged == o.pr # None /\ o.pr.merged = ops[k].policy.commit /\ o.trunk = ops[k].policy.commit
    IN  externalBound(ops[k]) /\ o.fresh /\ o.complete /\ o.checks /\ merged

\* The state a target must be in before the effect, and again when it starts.
Premise(r) ==
    CASE KindOf[r.key] = "local"     -> ObserveNativeIntegrationTarget = [commit |-> r.policy.expected, clean |-> TRUE]
      [] KindOf[r.key] = "push"      -> externalBound(r) /\ remote.trunk = r.policy.expected /\ remote.head = r.policy.head
      [] KindOf[r.key] = "create_pr" -> externalBound(r) /\ remote.trunk = r.policy.expected /\ remote.head = r.policy.commit
                                        /\ (remote.pr # None => remote.pr.commit # r.policy.commit)
FastForward(r) == KindOf[r.key] = "create_pr"
                  \/ IsPrefix(IF KindOf[r.key] = "local" THEN r.policy.expected ELSE r.policy.head, r.commit)

-----------------------------------------------------------------------------
(* The two transactions of an operation, under the target's lock.          *)

To(p, pc) == proc' = [proc EXCEPT ![p].pc = pc]
TargetLocked(c) == \E p \in Procs : proc[p].pc # "idle" /\ Class(proc[p].key) = c
SameTarget(k, j) == Class(k) = Class(j) /\ (Class(k) = "local" \/ TaskOf[k] = TaskOf[j])

\* One operation per policy revision, and none while another is unresolved.
Conflicts(k, rev) == \E j \in Keys : ops[j] # None /\
    \/ TaskOf[j] = TaskOf[k] /\ KindOf[j] = KindOf[k] /\ ops[j].policy.rev = rev
    \/ ops[j].state = "pending" /\ SameTarget(j, k)

Intent(k) == [key |-> k, state |-> "pending", commit |-> candidate[TaskOf[k]], policy |-> policy[Class(k)][TaskOf[k]],
              outcome |-> None]
beginFresh(k) ==
    /\ ops[k] = None /\ policy[Class(k)][TaskOf[k]] # None /\ ~Conflicts(k, Rev(Class(k), TaskOf[k]))
    /\ Class(k) = "external" => policy["external"][TaskOf[k]].commit = candidate[TaskOf[k]]
    /\ integrationFinalCurrent(Intent(k)) /\ Premise(Intent(k)) /\ candidate[TaskOf[k]] # trunk
    /\ ops' = [ops EXCEPT ![k] = Intent(k)]

beginNativeIntegration(p, k) ==
    /\ proc[p].pc = "idle" /\ transaction = None /\ ~TargetLocked(Class(k))
    /\ \/ beginFresh(k) /\ proc' = [proc EXCEPT ![p] = [pc |-> "begun", key |-> k, fresh |-> TRUE]]
       \/ ops[k] # None /\ proc' = [proc EXCEPT ![p] = [pc |-> "begun", key |-> k, fresh |-> FALSE]] /\ UNCHANGED ops
    /\ UNCHANGED <<git, authority, transaction, foreign, stops, launched>>

\* Mutant: whoever repeats the call may launch the effect.
mayLaunchAgain(p) == TRUE

\* Settled by what is observed; else only the call that began may go on.
mayLaunch(p) == proc[p].fresh

Return(p) == proc' = [proc EXCEPT ![p] = Idle]
Settled(r, o) == [r EXCEPT !.outcome = o,
    !.state = IF (IF Class(r.key) = "local" THEN integrationDone(r, o) ELSE externalEffectDone(r, o)) THEN "done" ELSE @]

continueNativeIntegration(p) ==
    LET r == ops[proc[p].key] IN
    /\ proc[p].pc = "begun" /\ Class(proc[p].key) = "local" /\ transaction = None
    /\ IF r.state = "done" THEN Return(p) /\ UNCHANGED <<ops, transaction>>
       ELSE IF integrationDone(r, ObserveNativeIntegrationTarget)
       THEN Return(p) /\ ops' = [ops EXCEPT ![r.key] = Settled(r, ObserveNativeIntegrationTarget)] /\ UNCHANGED transaction
       ELSE IF mayLaunch(p) /\ Premise(r) /\ integrationFinalCurrent(r)
       THEN To(p, "effect") /\ transaction' = p /\ UNCHANGED ops
       ELSE Return(p) /\ UNCHANGED <<ops, transaction>>
    /\ UNCHANGED <<git, authority, foreign, stops, launched>>

continueNativeExternal(p) ==
    LET r == ops[proc[p].key] IN
    /\ proc[p].pc = "begun" /\ Class(proc[p].key) = "external" /\ transaction = None
    /\ \E complete \in BOOLEAN :
        LET o == ObserveNativeExternal(complete)
        IN  IF ~externalBound(r) THEN Return(p) /\ UNCHANGED <<ops, transaction>>
            ELSE IF r.state = "done" \/ externalEffectDone(r, o) \/ ~mayLaunch(p)
            THEN Return(p) /\ ops' = [ops EXCEPT ![r.key] = Settled(r, o)] /\ UNCHANGED transaction
            ELSE IF complete /\ Premise(r) /\ integrationFinalCurrent(r)
            THEN To(p, "effect") /\ transaction' = p /\ UNCHANGED ops
            ELSE Return(p) /\ UNCHANGED <<ops, transaction>>
    /\ UNCHANGED <<git, authority, foreign, stops, launched>>

\* The last observation and the pure predicates before the effect.
ApplyEffect(p) ==
    LET r == ops[proc[p].key] IN
    /\ proc[p].pc = "effect"
    /\ IF Premise(r) /\ FastForward(r) /\ integrationFinalCurrent(r)
       THEN To(p, IF KindOf[r.key] = "local" THEN "update-ref" ELSE KindOf[r.key]) /\ UNCHANGED transaction
       ELSE Return(p) /\ transaction' = None
    /\ UNCHANGED <<git, authority, ops, foreign, stops, launched>>

\* The ref moves by compare-and-swap, the checkout after it.
UpdateRef(p) ==
    LET r == ops[proc[p].key] IN
    /\ proc[p].pc = "update-ref" /\ trunk = r.policy.expected /\ trunk' = r.commit
    /\ launched' = [launched EXCEPT ![r.key] = @ + 1] /\ To(p, "read-tree")
    /\ UNCHANGED <<worktree, remote, authority, ops, transaction, foreign, stops>>
ReadTree(p) ==
    LET r == ops[proc[p].key] IN
    /\ proc[p].pc = "read-tree"
    /\ IF worktree = r.policy.expected THEN worktree' = r.commit /\ To(p, "observe") /\ UNCHANGED transaction
       ELSE Return(p) /\ transaction' = None /\ UNCHANGED worktree
    /\ UNCHANGED <<trunk, remote, authority, ops, foreign, stops, launched>>

\* The push holds the branch to its pinned head; either answer may be lost.
Push(p) ==
    LET r == ops[proc[p].key] IN
    /\ proc[p].pc = "push" /\ remote.head = r.policy.head /\ remote' = [remote EXCEPT !.head = r.commit]
    /\ launched' = [launched EXCEPT ![r.key] = @ + 1] /\ To(p, "observe")
    /\ UNCHANGED <<trunk, worktree, authority, ops, transaction, foreign, stops>>
CreatePR(p) ==
    LET r == ops[proc[p].key] IN
    /\ proc[p].pc = "create_pr" /\ remote' = [remote EXCEPT !.pr = [commit |-> remote.head, merged |-> None]]
    /\ launched' = [launched EXCEPT ![r.key] = @ + 1] /\ To(p, "observe")
    /\ UNCHANGED <<trunk, worktree, authority, ops, transaction, foreign, stops>>

\* The command was started and failed, was refused or timed out: nothing moved,
\* and nothing is recorded but the intent.
CommandFails(p) ==
    /\ proc[p].pc \in {"update-ref", "push", "create_pr"}
    /\ launched' = [launched EXCEPT ![proc[p].key] = @ + 1] /\ Return(p) /\ transaction' = None
    /\ UNCHANGED <<git, authority, ops, foreign, stops>>

\* Only an observed outcome is recorded.
RecordOutcome(p) ==
    LET r == ops[proc[p].key] IN
    /\ proc[p].pc = "observe"
    /\ \E o \in IF Class(r.key) = "local" THEN {ObserveNativeIntegrationTarget} ELSE {ObserveNativeExternal(c) : c \in BOOLEAN} :
           LET s == Settled(r, o)
           IN  ops' = IF s.state = "done" \/ (Class(r.key) = "external" /\ externalBound(r)) THEN [ops EXCEPT ![r.key] = s] ELSE ops
    /\ Return(p) /\ transaction' = None /\ UNCHANGED <<git, authority, foreign, stops, launched>>

\* A crash, a timeout or a lost answer: locks are released, nothing is saved.
Stops(p) ==
    /\ proc[p].pc # "idle" /\ stops < MaxStops /\ stops' = stops + 1 /\ Return(p)
    /\ transaction' = IF transaction = p THEN None ELSE transaction
    /\ UNCHANGED <<git, authority, ops, foreign, launched>>

-----------------------------------------------------------------------------
(* People, other tools and time.                                           *)

SomeoneCommits == trunk' = Append(trunk, "x") /\ worktree' = (IF worktree = trunk THEN trunk' ELSE worktree) /\ UNCHANGED remote
SomeoneEdits == worktree' = Dirty /\ worktree # Dirty /\ UNCHANGED <<trunk, remote>>
SomeoneCheckouts == worktree # trunk /\ worktree' = trunk /\ UNCHANGED <<trunk, remote>>
SomeonePushes == \/ remote' = [remote EXCEPT !.head = Append(@, "x")] /\ UNCHANGED <<trunk, worktree>>
                 \/ remote' = [remote EXCEPT !.trunk = Append(@, "x")] /\ UNCHANGED <<trunk, worktree>>
\* A merge takes the head the pull request has then, or squashes it.
Merges == /\ remote.pr # None /\ remote.pr.merged = None
          /\ \E m \in {remote.head, Append(remote.trunk, "m")} :
                /\ IsStrictPrefix(remote.trunk, m)
                /\ remote' = [remote EXCEPT !.trunk = m, !.pr = [commit |-> remote.head, merged |-> m]]
          /\ UNCHANGED <<trunk, worktree>>
ChecksEnd == /\ \E c \in BOOLEAN : c # remote.checks /\ remote' = [remote EXCEPT !.checks = c]
             /\ UNCHANGED <<trunk, worktree>>

Foreign == /\ \/ foreign < MaxForeign /\ foreign' = foreign + 1
                 /\ \/ "local" \in Classes /\ (SomeoneCommits \/ SomeoneEdits \/ SomeoneCheckouts)
                    \/ "external" \in Classes /\ (SomeonePushes \/ ChecksEnd)
              \/ "external" \in Classes /\ Merges /\ UNCHANGED foreign
           /\ UNCHANGED <<authority, ops, proc, transaction, stops, launched>>
ObservationAges(k) ==
    /\ Class(k) = "external" /\ ops[k] # None /\ ops[k].outcome # None /\ ops[k].outcome.fresh
    /\ ops' = [ops EXCEPT ![k].outcome.fresh = FALSE]
    /\ UNCHANGED <<git, authority, proc, transaction, foreign, stops, launched>>

Init == /\ trunk = <<>> /\ worktree = <<>> /\ remote = [head |-> <<>>, trunk |-> <<>>, pr |-> None, checks |-> FALSE]
        /\ policy = [c \in Classes |-> [t \in Tasks |-> None]] /\ candidate = [t \in Tasks |-> <<t>>]
        /\ review = [t \in Tasks |-> None] /\ live = Tasks /\ ops = [k \in Keys |-> None]
        /\ proc = [p \in Procs |-> Idle] /\ transaction = None /\ foreign = 0 /\ stops = 0 /\ launched = [k \in Keys |-> 0]

Process(p) == \/ \E k \in Keys : beginNativeIntegration(p, k)
              \/ continueNativeIntegration(p) \/ continueNativeExternal(p) \/ ApplyEffect(p)
              \/ UpdateRef(p) \/ ReadTree(p) \/ Push(p) \/ CreatePR(p) \/ CommandFails(p) \/ RecordOutcome(p) \/ Stops(p)
Next == \/ \E t \in Tasks : \/ "local" \in Classes /\ ConfigureNativeIntegration(t)
                            \/ "external" \in Classes /\ ConfigureNativeExternal(t)
                            \/ PublishRevision(t) \/ Approve(t) \/ Lapses(t)
        \/ \E p \in Procs : Process(p)
        \/ Foreign \/ \E k \in Keys : ObservationAges(k)
Spec == Init /\ [][Next]_vars

-----------------------------------------------------------------------------
\* An operation's effect is launched at most once, whoever repeats the call,
\* reconciles it or stops half way.
EffectOnce == \A k \in Keys : launched[k] <= 1

\* What is recorded as integrated is on the trunk, and a delivery that passes
\* the gate is on the remote trunk, as exactly the commit of the record.
IntegratedIsReal ==
    /\ \A k \in Keys : ops[k] # None /\ ops[k].state = "done" /\ Class(k) = "local" => IsPrefix(ops[k].commit, trunk)
    /\ \A t \in Tasks : \A k \in nativeExternalLatest(t) : nativeExternalGate(k) => IsPrefix(ops[k].policy.commit, remote.trunk)

\* The controller's own hand moves the trunk only to a commit that was approved
\* after the target was pinned, and only from where it was pinned.
TrunkMovesReviewed == (trunk' # trunk /\ launched' # launched) =>
    \E k \in Keys : /\ launched'[k] # launched[k] /\ trunk = ops[k].policy.expected /\ trunk' = ops[k].commit
                    /\ review[TaskOf[k]] # None /\ review[TaskOf[k]].commit = trunk'
                    /\ review[TaskOf[k]].after["local"] = ops[k].policy.rev
TrunkIsReviewed == [][TrunkMovesReviewed]_vars

=============================================================================
