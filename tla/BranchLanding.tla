--------------------------- MODULE BranchLanding ---------------------------
(***************************************************************************)
(* One task's branch on its way to the trunk (features/vcs/lifecycle.go,   *)
(* features/ship/ship.go, gitx, store/landing.go, store/worktrees.go): a   *)
(* worker commits in an isolated worktree and pushes; an integrator merges *)
(* locally or through a pull request, records the landing, tears worktree  *)
(* and branch down and accepts the task; GitHub runs checks and merges on  *)
(* its own clock; a pruner reclaims worktrees.  The integrator may die     *)
(* between any two of its calls.  A branch is the set of its own commits:  *)
(* containment is ancestry.  A squash carries patches, not commits.        *)
(***************************************************************************)
EXTENDS Naturals, FiniteSets

CONSTANTS
    Commits,      \* bound: the commits the worker can make, 1 .. n
    Modes,        \* how the integrator is called: <<command, landing, squash>>
    MaxGen,       \* bound: how often the task may be reopened
    Concurrent,   \* whether the worker goes on while the integrator runs
    None

\* What instances have to provide: commits are numbered.
Bounds == Commits = 1 .. Cardinality(Commits) /\ MaxGen \in Nat

VARIABLES
    task,     \* [status, gen, verdict]: the task file; verdict: the last deliverable line of its log
    local,    \* refs/heads/<branch>: [own, bare] or None; bare: the tip is on the trunk's mainline
    tree,     \* the worktree: "absent", "clean" or "dirty"
    remote,   \* origin's branch: a set of commits or None
    trunk,    \* origin's trunk: [commits, patches]
    main,     \* the local trunk
    seen,     \* refs/remotes/origin/<trunk>: commits as of the last fetch
    pr,       \* the branch's latest pull request: [state, gen, auto]
    ci,       \* the checks of origin's branch head: "none", "pass" or "fail"
    events,   \* generations whose "Integrated via PR" is recorded
    run,      \* the integrator: [pc, mode, refs]
    made      \* how many commits were made

vars == <<task, local, tree, remote, trunk, main, seen, pr, ci, events, run, made>>

Idle == [pc |-> "idle", mode |-> <<"none", "none", FALSE>>, refs |-> {}]
Own == IF local = None THEN {} ELSE local.own
Head == IF remote = None THEN {} ELSE remote
NoPR == [state |-> "none", auto |-> FALSE]

\* The worker works while the integrator does not, unless they run concurrently.
WorkerRuns == Concurrent \/ run.pc = "idle"

-----------------------------------------------------------------------------
(* The worker: worktree add, edit, dacli commit, dacli push, dacli pr.     *)

\* ResolveTaskWorktreeBase observes origin's trunk afresh.
ObserveBase == seen' = trunk.commits

\* An existing branch is fast-forwarded when nothing is dirty and the base
\* already contains it.
Freshened == [local EXCEPT !.bare = @ \/ (tree # "dirty" /\ local.own \subseteq trunk.commits)]

\* AddWorktreeFrom: a new branch is cut at the base.
AddWorktree == /\ tree' = IF tree = "absent" THEN "clean" ELSE tree
               /\ local' = IF local = None THEN [own |-> {}, bare |-> TRUE] ELSE Freshened

WorktreeAdd ==
    /\ WorkerRuns /\ task.status \in {"open", "active"}
    /\ task' = [task EXCEPT !.status = "active"] /\ ObserveBase /\ AddWorktree
    /\ UNCHANGED <<remote, trunk, main, pr, ci, events, run, made>>

Edit == /\ WorkerRuns /\ task.status = "active" /\ tree = "clean" /\ tree' = "dirty"
        /\ UNCHANGED <<task, local, remote, trunk, main, seen, pr, ci, events, run, made>>

Commit ==
    /\ WorkerRuns /\ task.status = "active" /\ tree = "dirty" /\ local # None
    /\ made' = made + 1 /\ made + 1 \in Commits
    /\ local' = [own |-> local.own \cup {made + 1}, bare |-> FALSE] /\ tree' = "clean"
    /\ UNCHANGED <<task, remote, trunk, main, seen, pr, ci, events, run>>

\* Plain push refuses anything but a fast-forward; PushSync replaces a stale
\* remote head under a lease once all its patches are on the trunk.
FastForward == Head \subseteq Own
Replaceable == Head \subseteq Own \cup trunk.patches

Published == remote' = Own /\ ci' = IF remote = Own THEN ci ELSE "none"

Push == /\ WorkerRuns /\ task.status = "active" /\ local # None /\ remote # Own /\ Replaceable /\ Published
        /\ UNCHANGED <<task, local, tree, trunk, main, seen, pr, events, run, made>>

\* openPR reuses an open pull request and queueAutoMerge queues its merge.
\* publishCanonicalTaskBranch refuses a remote head other than the local one;
\* requireTaskCommits refuses a branch with nothing beyond the base.
OpenedPR(auto) == pr' = IF pr.state = "open" THEN [pr EXCEPT !.auto = @ \/ auto] ELSE [state |-> "open", auto |-> auto]

OpenPR(auto) ==
    /\ WorkerRuns /\ task.status = "active" /\ local # None /\ ~ Own \subseteq main.commits
    /\ (pr.state = "open" \/ ~ Own \subseteq trunk.commits)
    /\ remote \in {None, Own} /\ Published /\ OpenedPR(auto) /\ (pr' # pr \/ remote' # remote)
    /\ UNCHANGED <<task, local, tree, trunk, main, seen, events, run, made>>

\* The owner closes the task, or reopens it: a new generation on the same branch.
OnTrunk(refs) == refs \subseteq seen \/ refs \subseteq main.commits
Verdict(refs) == IF refs = {} THEN "nobranch" ELSE IF OnTrunk(refs) THEN "landed" ELSE "unlanded"

Accept ==
    /\ WorkerRuns /\ task.status = "active" /\ tree # "dirty" /\ run.pc = "idle"
    /\ task' = [task EXCEPT !.status = "done", !.verdict = Verdict(Own)]
    /\ UNCHANGED <<local, tree, remote, trunk, main, seen, pr, ci, events, run, made>>

Reopen ==
    /\ run.pc = "idle" /\ task.status \in {"done", "blocked"} /\ task.gen < MaxGen
    /\ task' = [status |-> "open", gen |-> task.gen + 1, verdict |-> "none"]
    /\ UNCHANGED <<local, tree, remote, trunk, main, seen, pr, ci, events, run, made>>

-----------------------------------------------------------------------------
(* GitHub.                                                                 *)

Checks == /\ remote # None /\ pr.state = "open" /\ ci = "none" /\ ci' \in {"pass", "fail"}
          /\ UNCHANGED <<task, local, tree, remote, trunk, main, seen, pr, events, run, made>>

\* A merge carries commits and patches, a squash patches only; the head goes.
Merged(squash) ==
    /\ trunk' = [commits |-> IF squash THEN trunk.commits ELSE trunk.commits \cup Head, patches |-> trunk.patches \cup Head]
    /\ pr' = [pr EXCEPT !.state = "merged", !.auto = FALSE] /\ remote' = None /\ ci' = "none"

AutoMerge ==
    /\ pr.state = "open" /\ pr.auto /\ ci = "pass" /\ remote # None /\ Merged(FALSE)
    /\ UNCHANGED <<task, local, tree, main, seen, events, run, made>>

CloseUnmerged == /\ pr.state = "open" /\ pr' = [pr EXCEPT !.state = "closed", !.auto = FALSE]
                 /\ UNCHANGED <<task, local, tree, remote, trunk, main, seen, ci, events, run, made>>

-----------------------------------------------------------------------------
(* The integrator: dacli integrate, and ship around it.                    *)

At(pc) == run.pc = pc
Command == run.mode[1]
Landing == run.mode[2]
Squash == run.mode[3]
Goto(pc) == run' = [run EXCEPT !.pc = pc]
Stop == run' = Idle

\* integrate takes done tasks; ship accepts first, with the landing deferred;
\* its transaction takes live work whose boxes are checked and accepts it last.
IntegrationTasks == task.status = "done" /\ UNCHANGED task
AcceptWave == task.status = "active" /\ task' = [task EXCEPT !.status = "done"]
PrepareLandThenAccept == task.status = "active" /\ UNCHANGED task

\* recordedRemoteIntegration answers a pull request landing that is on record,
\* unless an open pull request of a live or reopened task is newer.
Recorded == /\ task.gen \in events
            /\ ~ (pr.state = "open" /\ (task.gen > 0 \/ task.status = "active"))

\* ship looks the branch up before integrate can delete it.
CaptureWaveRefs == Own

Start(mode) ==
    /\ At("idle") /\ tree # "dirty"
    /\ CASE mode[1] = "integrate" -> IntegrationTasks
         [] mode[1] = "ship" -> AcceptWave
         [] mode[1] = "transaction" -> PrepareLandThenAccept
    /\ run' = [pc |-> CASE mode[2] # "local" /\ Recorded -> "clean"
                        [] local = None -> "settle"
                        [] mode[2] = "local" -> "merge"
                        [] OTHER -> "probe",
               mode |-> mode, refs |-> CaptureWaveRefs]
    /\ UNCHANGED <<local, tree, remote, trunk, main, seen, pr, ci, events, made>>

\* gitx.Merge makes a merge commit.
MergeNoFF == main' = [commits |-> main.commits \cup Own, patches |-> main.patches \cup Own]

\* mergeTask: a conflict aborts the merge and blocks the task.
MergeLocally ==
    /\ At("merge") /\ local # None
    /\ MergeNoFF /\ Goto("teardown")
    /\ UNCHANGED <<task, local, tree, remote, trunk, seen, pr, ci, events, made>>

Conflict ==
    /\ At("merge") /\ local # None /\ ~ local.bare
    /\ task' = [task EXCEPT !.status = "blocked"] /\ Stop
    /\ UNCHANGED <<local, tree, remote, trunk, main, seen, pr, ci, events, made>>

Teardown ==
    /\ At("teardown") /\ tree' = "absent" /\ local' = None /\ Goto("settle")
    /\ UNCHANGED <<task, remote, trunk, main, seen, pr, ci, events, made>>

\* prIntegrateTask: a pull request GitHub already merged needs only the record.
MergedPR == pr.state = "merged"

Probe ==
    /\ At("probe") /\ Goto(IF MergedPR THEN "record" ELSE "push")
    /\ UNCHANGED <<task, local, tree, remote, trunk, main, seen, pr, ci, events, made>>

PushBranch ==
    /\ At("push") /\ local # None
    /\ IF FastForward THEN Published /\ Goto("open") ELSE Stop /\ UNCHANGED <<remote, ci>>
    /\ UNCHANGED <<task, local, tree, trunk, main, seen, pr, events, made>>

\* openPR reuses an open pull request; GitHub refuses one without commits.
Propose ==
    /\ At("open")
    /\ IF remote # None /\ (pr.state = "open" \/ ~ Head \subseteq trunk.commits)
       THEN /\ OpenedPR(Landing = "auto")
            /\ Goto(IF Landing = "gated" THEN "checks" ELSE "left")
       ELSE Stop /\ UNCHANGED pr
    /\ UNCHANGED <<task, local, tree, remote, trunk, main, seen, ci, events, made>>

\* A red, pending or absent check leaves the pull request open.
ChecksPass == ci = "pass"

Await ==
    /\ At("checks") /\ Goto(IF ChecksPass THEN "land" ELSE "left")
    /\ UNCHANGED <<task, local, tree, remote, trunk, main, seen, pr, ci, events, made>>

\* gh pr merge: GitHub refuses what is not open; if it was merged meanwhile the
\* landing is finished all the same.
Land ==
    /\ At("land")
    /\ IF pr.state = "open" /\ remote # None THEN Merged(Squash) /\ Goto("record")
       ELSE Goto(IF MergedPR THEN "record" ELSE "left") /\ UNCHANGED <<trunk, pr, remote, ci>>
    /\ UNCHANGED <<task, local, tree, main, seen, events, made>>

\* finishRemoteIntegration records before it cleans up.
RecordEvent ==
    /\ At("record") /\ events' = events \cup {task.gen} /\ Goto("clean")
    /\ UNCHANGED <<task, local, tree, remote, trunk, main, seen, pr, ci, made>>

\* cleanupRemoteIntegration: only a clean worktree is removed, and with it the
\* branch; then the local trunk is fast-forwarded.
Clean ==
    /\ At("clean")
    /\ IF tree # "dirty" THEN tree' = "absent" /\ local' = None ELSE UNCHANGED <<tree, local>>
    /\ Goto("pull")
    /\ UNCHANGED <<task, remote, trunk, main, seen, pr, ci, events, made>>

Pull ==
    /\ At("pull") /\ Goto("settle") /\ seen' = trunk.commits
    /\ main' = IF main.commits \subseteq trunk.commits THEN trunk ELSE main
    /\ UNCHANGED <<task, local, tree, remote, trunk, pr, ci, events, made>>

\* What is left open ends the transaction; the others go on to the record.
Left ==
    /\ At("left")
    /\ IF Command = "transaction" THEN Stop ELSE Goto("settle")
    /\ UNCHANGED <<task, local, tree, remote, trunk, main, seen, pr, ci, events, made>>

\* requireFreshLanding, freshLandingArtifact and the acceptance that compares
\* with it; recordWaveLanding; integrate alone writes no verdict.
\* Mutant: the landing is read off the local refs, without a fetch.
SettleStale ==
    /\ At("settle")
    /\ CASE Command = "integrate" -> Stop /\ UNCHANGED <<task, seen>>
         [] Command = "ship" -> task' = [task EXCEPT !.verdict = Verdict(run.refs)] /\ Goto("publish") /\ UNCHANGED seen
         [] Command = "transaction" ->
              /\ task' = [task EXCEPT !.status = "done", !.verdict = "landed"] /\ Goto("publish") /\ UNCHANGED seen
    /\ UNCHANGED <<local, tree, remote, trunk, main, pr, ci, events, made>>

FreshLanding == run.refs # {} /\ (run.refs \subseteq trunk.commits \/ run.refs \subseteq main.commits)

RecordWaveLanding == task' = [task EXCEPT !.verdict = Verdict(run.refs)]

Settle ==
    /\ At("settle")
    /\ CASE Command = "integrate" -> Stop /\ UNCHANGED <<task, seen>>
         [] Command = "ship" -> RecordWaveLanding /\ Goto("publish") /\ UNCHANGED seen
         [] Command = "transaction" ->
              /\ seen' = trunk.commits
              /\ IF FreshLanding
                 THEN task' = [task EXCEPT !.status = "done", !.verdict = "landed"] /\ Goto("publish")
                 ELSE Stop /\ UNCHANGED task
    /\ UNCHANGED <<local, tree, remote, trunk, main, pr, ci, events, made>>

\* The record commit goes to its own ref or on top of the trunk, and with --push
\* the trunk follows: fast-forward, or rebased onto what origin has.
PushTrunk == /\ trunk' = [commits |-> trunk.commits \cup main.commits, patches |-> trunk.patches \cup main.patches]
             /\ seen' = trunk'.commits

Publish ==
    /\ At("publish") /\ Stop /\ (PushTrunk \/ UNCHANGED <<trunk, seen>>)
    /\ UNCHANGED <<task, local, tree, remote, main, pr, ci, events, made>>

Die == /\ ~ At("idle") /\ Stop
       /\ UNCHANGED <<task, local, tree, remote, trunk, main, seen, pr, ci, events, made>>

-----------------------------------------------------------------------------
(* worktree remove and worktree prune.                                     *)

RemoveWorktree ==
    /\ At("idle") /\ tree = "clean" /\ task.status # "active" /\ tree' = "absent"
    /\ UNCHANGED <<task, local, remote, trunk, main, seen, pr, ci, events, run, made>>

\* ReclaimableWorktrees: the branch is gone, or it is merged and clean (a bare
\* tip is a live spawn, a reopened task reuses its branch), or the task is done.
MergedBranch == local # None /\ ~ local.bare /\ Own \subseteq main.commits
                /\ tree = "clean" /\ ~ (task.gen > 0 /\ task.status \in {"open", "active"})

Reclaimable == tree # "absent" /\ (local = None \/ MergedBranch \/ task.status = "done")

\* Mutant: the branch of every reclaimed worktree goes with it.
PruneBranches ==
    /\ At("idle") /\ Reclaimable /\ tree' = "absent" /\ local' = None
    /\ UNCHANGED <<task, remote, trunk, main, seen, pr, ci, events, run, made>>

Prune ==
    /\ At("idle") /\ Reclaimable
    /\ tree' = "absent" /\ local' = IF MergedBranch THEN None ELSE local
    /\ UNCHANGED <<task, remote, trunk, main, seen, pr, ci, events, run, made>>

-----------------------------------------------------------------------------
(* pr status: the pull request's state first, then a fresh trunk.          *)

\* A tip on the mainline carries no work of its own.
TrunkStatus == IF local # None /\ ~ local.bare /\ Own \subseteq trunk.commits THEN "merged" ELSE "orphaned"

LandStatus == CASE pr.state = "merged" -> "merged"
                [] pr.state = "open" -> "landing"
                [] pr.state = "closed" -> "orphaned"
                [] OTHER -> TrunkStatus

-----------------------------------------------------------------------------
Init ==
    /\ task = [status |-> "open", gen |-> 0, verdict |-> "none"]
    /\ local = None /\ tree = "absent" /\ remote = None
    /\ trunk = [commits |-> {}, patches |-> {}] /\ main = trunk /\ seen = {}
    /\ pr = NoPR /\ ci = "none" /\ events = {} /\ run = Idle /\ made = 0

Worker == WorktreeAdd \/ Edit \/ Commit \/ Push \/ (\E auto \in BOOLEAN : OpenPR(auto)) \/ Accept \/ Reopen
GitHub == Checks \/ AutoMerge \/ CloseUnmerged
Integrator == \/ (\E mode \in Modes : Start(mode)) \/ MergeLocally \/ Conflict \/ Teardown \/ Probe \/ PushBranch
              \/ Propose \/ Await \/ Land \/ RecordEvent \/ Clean \/ Pull \/ Left \/ Settle \/ Publish \/ Die

Next == Worker \/ GitHub \/ Integrator \/ RemoveWorktree \/ Prune

Spec == Init /\ [][Next]_vars

-----------------------------------------------------------------------------
Trunks == [commits : SUBSET Commits, patches : SUBSET Commits]

TypeOK ==
    /\ task \in [status : {"open", "active", "done", "blocked"}, gen : 0 .. MaxGen,
                 verdict : {"none", "landed", "unlanded", "nobranch"}]
    /\ local \in [own : SUBSET Commits, bare : BOOLEAN] \cup {None}
    /\ tree \in {"absent", "clean", "dirty"} /\ remote \in SUBSET Commits \cup {None}
    /\ trunk \in Trunks /\ main \in Trunks /\ seen \subseteq trunk.commits
    /\ pr \in [state : {"none", "open", "merged", "closed"}, auto : BOOLEAN]
    /\ ci \in {"none", "pass", "fail"} /\ events \subseteq 0 .. MaxGen /\ made \in 0 .. Cardinality(Commits)

\* Every commit a worker made is still on some branch or its patch on a trunk:
\* teardown and pruning delete only what has landed.
NothingIsLost ==
    1 .. made \subseteq Own \cup Head \cup trunk.patches \cup main.patches

\* The gated integrator merges only a head whose checks passed: "integrate --pr
\* never merges over a failing gate".
GateHolds == [][At("land") /\ pr.state = "open" /\ pr'.state = "merged" => ci = "pass"]_vars

\* What the log says of the deliverable is true: a branch recorded as merged
\* is on a trunk, whichever refs were read and however stale they were.
Judged == IF At("settle") THEN run.refs ELSE Own
RecordsTruth == task'.verdict = "landed" /\ task.verdict # "landed" => Judged \subseteq main.commits \cup trunk.commits
LandedIsTrue == [][RecordsTruth]_vars

\* And a branch whose landing is on record is not written down as "exists but
\* is NOT in <trunk> - closed anyway".
ShippedIsNotDenied == [][At("settle") /\ task'.verdict = "unlanded" => task.gen \notin events]_vars

\* "merged - the branch's work is on trunk now."
MergedMeansOnTrunk == LandStatus = "merged" => Own \subseteq trunk.patches

\* Uncommitted work of a task that is not closed stays in its worktree until
\* the worker commits it.
DirtyIsKept == [][tree = "dirty" /\ task.status # "done" /\ made' = made => tree' = "dirty"]_vars

\* The worktree of a live run that has not committed anything is not pruned.
LiveSpawnIsKept == [][task.status = "active" /\ tree # "absent" /\ local # None /\ local.bare /\ At("idle")
                        => tree' # "absent"]_vars

=============================================================================
