------------------------------ MODULE Cleanup ------------------------------
(***************************************************************************)
(* The end of one worker run: how its uncommitted work becomes a commit    *)
(* and how the repository is cleaned up after it                           *)
(* (internal/store/root_handoff.go, parent_commit.go, cleanup.go,          *)
(* cleanup_sandbox.go, features/cleanup, features/history/handoff.go).     *)
(*                                                                         *)
(* Contents are numbers and every edit makes a new one (bytes never come   *)
(* back by accident).  The commits of the task form one line: pool[i] is   *)
(* the i-th commit after the landing base, a branch or a checkout is the   *)
(* number of the commit it stands on, and the base contains all commits up *)
(* to `base`.  A plan's identity is its content: the plan itself.          *)
(*                                                                         *)
(* The worker's sandbox, its process and the projection of the sandbox     *)
(* into the task's worktree are external.  They are cooperative, as        *)
(* docs/CLAIM_SANDBOX_RETENTION.md asks: nobody writes a sandbox between   *)
(* the last observation and its removal, and nobody commits on a detached  *)
(* HEAD of a managed worktree while a plan is being applied.               *)
(***************************************************************************)
EXTENDS Integers, Sequences, FiniteSets, SequencesExt

CONSTANTS Uses,        \* subset of {"handoff", "edits", "artifact", "sandbox", "worktree"}
          MaxContent,  \* bound on the contents ever written
          MaxCommits,  \* bound on the task's commits
          MaxPRs,      \* bound on the pull requests of the branch
          MaxAudits    \* bound on the cleanups applied

VARIABLES
    fresh,     \* the newest content written
    pool,      \* the task's commits: [tree, made], made = its request's time or 0
    tip,       \* the commit the task branch names, or Gone
    base,      \* the landing base contains pool[1..base]
    remote,    \* the remote-tracking ref of the branch, or Gone
    prs,       \* the branch's pull requests, oldest first: [state, head]
    wt,        \* the managed worktree: [at, head, work, stray, locked]
    task,      \* "open", "done", or "again": reopened after it was done
    run,       \* the run's proc record: [outcome, claims, alive, ok]
    other,     \* is another run of the same task live?
    papers,    \* the run directory: [asked, handoff, request, receipt, consumed]
    file,      \* content of the run's generated *.tmp artifact, 0 if absent
    vault,     \* quarantined artifacts: [plan, content]
    sand,      \* the claim sandbox: [state, content, git]
    archives,  \* recovery archives: [plan, content]
    audits,    \* cleanup audits: [plan, quarantined, restored, sandbox, removed]
    reviewed,  \* the plan the operator's dry run showed, or None
    op         \* the store call in progress, or Idle

repo == <<pool, tip, base, remote, prs, wt>>
work == <<task, run, other>>
disk == <<file, vault, sand, archives, audits>>
vars == <<fresh, repo, work, papers, disk, reviewed, op>>

None == [none |-> TRUE]
Gone == -1
Idle == [phase |-> "idle"]

Bounds ==
    /\ Uses \subseteq {"handoff", "edits", "artifact", "sandbox", "worktree"}
    /\ {MaxContent, MaxCommits, MaxPRs, MaxAudits} \subseteq Nat

TreeOf(n) == IF n = 0 THEN 0 ELSE pool[n].tree
Clean == wt.work = TreeOf(wt.head) /\ ~wt.stray
Attached == wt.at = "branch"

(* Is a call that holds .cleanup.lock, or .parent-commit.lock, in progress? *)
Cleaning == op.phase \notin {"idle", "observed", "requested", "advanced", "receipted"}
Committing == op.phase \in {"observed", "requested", "advanced", "receipted"}

(* Scenes without a cleanup leave the run and the task alone. *)
Cleans == {"artifact", "sandbox", "worktree"} \cap Uses # {}

Init ==
    /\ fresh = 0
    /\ pool = <<>> /\ tip = 0 /\ base = 0 /\ remote = Gone /\ prs = <<>>
    /\ wt = [at |-> "branch", head |-> 0, work |-> 0, stray |-> FALSE, locked |-> FALSE]
    /\ task = "open"
    /\ run = [outcome |-> FALSE, claims |-> TRUE, alive |-> TRUE, ok |-> FALSE]
    /\ other = FALSE
    /\ papers = [asked |-> FALSE, handoff |-> None, request |-> None,
                 receipt |-> None, consumed |-> None]
    /\ file = 0
    /\ vault = {}
    /\ sand = [state |-> IF "sandbox" \in Uses THEN "whole" ELSE "gone",
               content |-> 0, git |-> TRUE]
    /\ archives = {}
    /\ audits = {}
    /\ reviewed = None
    /\ op = Idle

----------------------------------------------------------------------------
(* The worker, its host and the operator (external). *)

RunWrites ==
    /\ run.alive /\ fresh < MaxContent
    /\ fresh' = fresh + 1
    /\ \/ /\ "artifact" \in Uses
          /\ file' = fresh' /\ UNCHANGED sand
       \/ /\ sand.state = "whole"
          /\ sand' = [sand EXCEPT !.content = fresh'] /\ UNCHANGED file
    /\ UNCHANGED <<repo, work, papers, vault, archives, audits, reviewed, op>>

(* Somebody edits a sandbox or the artifact by hand, outside a removal. *)
Tamper ==
    /\ ~run.alive /\ fresh < MaxContent /\ op.phase # "removing"
    /\ fresh' = fresh + 1
    /\ \/ /\ "artifact" \in Uses /\ file = 0
          /\ file' = fresh' /\ UNCHANGED sand
       \/ /\ sand.state = "whole"
          /\ sand' = [sand EXCEPT !.content = fresh'] /\ UNCHANGED file
    /\ UNCHANGED <<repo, work, papers, vault, archives, audits, reviewed, op>>

(* The sandbox's claimed paths are copied into the task's worktree. *)
Project ==
    /\ "handoff" \in Uses
    /\ sand.state = "whole" /\ Attached /\ wt.work # sand.content
    /\ wt' = [wt EXCEPT !.work = sand.content]
    /\ UNCHANGED <<fresh, pool, tip, base, remote, prs, work, papers, disk, reviewed, op>>

Edit ==
    /\ "edits" \in Uses
    /\ wt.at # "gone" /\ fresh < MaxContent
    /\ fresh' = fresh + 1
    /\ \/ wt' = [wt EXCEPT !.work = fresh']
       \/ ~wt.stray /\ wt' = [wt EXCEPT !.work = fresh', !.stray = TRUE]
    /\ UNCHANGED <<pool, tip, base, remote, prs, work, papers, disk, reviewed, op>>

(* A commit of everything in the worktree, on the branch or detached. *)
Commit ==
    /\ "edits" \in Uses
    /\ wt.at # "gone" /\ ~Clean /\ Len(pool) < MaxCommits /\ wt.head = Len(pool)
    /\ wt.at = "detached" => ~Cleaning
    /\ pool' = Append(pool, [tree |-> wt.work, made |-> 0])
    /\ tip' = IF Attached THEN Len(pool') ELSE tip
    /\ wt' = [wt EXCEPT !.head = Len(pool'), !.stray = FALSE]
    /\ UNCHANGED <<fresh, base, remote, prs, work, papers, disk, reviewed, op>>

Push ==
    /\ "worktree" \in Uses
    /\ tip # Gone /\ remote # tip
    /\ remote' = tip
    /\ UNCHANGED <<fresh, pool, tip, base, prs, wt, work, papers, disk, reviewed, op>>

OpenPR ==
    /\ "worktree" \in Uses
    /\ remote # Gone /\ Len(prs) < MaxPRs
    /\ prs # <<>> => Last(prs).state # "open"
    /\ prs' = Append(prs, [state |-> "open", head |-> remote])
    /\ UNCHANGED <<fresh, pool, tip, base, remote, wt, work, papers, disk, reviewed, op>>

(* GitHub merges the pull request, or closes it; the base is fetched. *)
EndPR ==
    /\ prs # <<>> /\ Last(prs).state = "open"
    /\ \E state \in {"merged", "closed"} :
          /\ prs' = [prs EXCEPT ![Len(prs)].state = state]
          /\ base' = IF state = "merged" /\ Last(prs).head > base THEN Last(prs).head ELSE base
    /\ UNCHANGED <<fresh, pool, tip, remote, wt, work, papers, disk, reviewed, op>>

(* The branch lands without a pull request (a local merge). *)
Land ==
    /\ "worktree" \notin Uses
    /\ tip # Gone /\ base < tip
    /\ base' = tip
    /\ UNCHANGED <<fresh, pool, tip, remote, prs, wt, work, papers, disk, reviewed, op>>

(* The operator locks, unlocks or detaches the worktree. *)
HandleWorktree ==
    /\ "worktree" \in Uses /\ wt.at # "gone"
    /\ \/ wt' = [wt EXCEPT !.locked = ~@]
       \/ Attached /\ ~Cleaning /\ wt' = [wt EXCEPT !.at = "detached"]
    /\ UNCHANGED <<fresh, pool, tip, base, remote, prs, work, papers, disk, reviewed, op>>

EndRun ==
    /\ Cleans
    /\ \/ /\ run.alive
          /\ \E ok \in BOOLEAN : run' = [run EXCEPT !.alive = FALSE, !.ok = ok]
       \/ ~run.alive /\ ~run.outcome /\ run' = [run EXCEPT !.outcome = TRUE]
       \/ run.outcome /\ run.claims /\ run' = [run EXCEPT !.claims = FALSE]
    /\ UNCHANGED <<fresh, repo, task, other, papers, disk, reviewed, op>>

(* The owner closes or reopens the task; another run of it starts or ends. *)
MoveTask ==
    /\ Cleans
    /\ \/ task # "done" /\ ~run.alive /\ task' = "done" /\ UNCHANGED other
       \/ task = "done" /\ task' = "again" /\ UNCHANGED other
       \/ (task = "again" \/ other) /\ other' = ~other /\ UNCHANGED task
    /\ UNCHANGED <<fresh, repo, run, papers, disk, reviewed, op>>

----------------------------------------------------------------------------
(* The handoff: the worktree's evidence, and the parent's commit of it. *)

(* Dirty paths with their digests, and the diff against HEAD. *)
observeRootHandoff ==
    IF Clean THEN [content |-> 0, stray |-> FALSE, from |-> 0]
    ELSE [content |-> wt.work, stray |-> wt.stray, from |-> TreeOf(wt.head)]

NoChange(h) == h.content = h.from /\ ~h.stray
(* Mutant of ReobserveRootHandoff: the capture is believed. *)
ReobserveRootHandoffOnce(h) == wt.at # "gone" /\ h = papers.handoff

ReobserveRootHandoff(h) == wt.at # "gone" /\ observeRootHandoff = h

WriteRootHandoffRequest ==
    /\ "handoff" \in Uses
    /\ ~papers.asked
    /\ papers' = [papers EXCEPT !.asked = TRUE]
    /\ UNCHANGED <<fresh, repo, work, disk, reviewed, op>>

CaptureRootHandoff ==
    /\ "handoff" \in Uses
    /\ wt.at # "gone"
    /\ ~NoChange(observeRootHandoff) \/ papers.asked
    /\ papers.handoff # observeRootHandoff
    /\ papers' = [papers EXCEPT !.handoff = observeRootHandoff]
    /\ UNCHANGED <<fresh, repo, work, disk, reviewed, op>>

LoadRootHandoff == papers.handoff

(* A record without a parent commit, written over whatever was there. *)
MarkRootHandoffConsumed(h) ==
    [papers EXCEPT !.consumed = [tree |-> h, request |-> None]]

(* dacli handoff consume. *)
cmdHandoffConsume ==
    /\ LoadRootHandoff # None /\ ReobserveRootHandoff(LoadRootHandoff)
    /\ papers' = MarkRootHandoffConsumed(LoadRootHandoff)
    /\ UNCHANGED <<fresh, repo, work, disk, reviewed, op>>

parentCommitRequestMatchesHandoff(req, h) == req.handoff = h

(* The commit object is a function of the request, its time included. *)
expectedParentCommit(req) == [tree |-> req.tree, made |-> req.at]
At(commit) == {i \in 1..Len(pool) : pool[i] = commit}

(* An existing record of another parent commit, or of none, is an error. *)
writeParentCommitConsumption(h, request) ==
    IF papers.consumed # None THEN papers
    ELSE [papers EXCEPT !.consumed = [tree |-> h, request |-> request]]

(* Is every changed path inside the run's claims? *)
inParentCommitClaim(h) == ~h.stray

(* The first half of BuildParentCommitRequest: the handoff still holds, it  *)
(* belongs to the task's worktree and branch, and lies inside the claims.   *)
BuildParentCommitRequest(h) ==
    /\ ReobserveRootHandoff(h)
    /\ Attached
    /\ inParentCommitClaim(h)

(* Written once; a different request is never written over it. *)
persistParentCommitRequest(req) ==
    IF papers.request = None THEN [papers EXCEPT !.request = req] ELSE papers

(* Under the run's lock: a receipt that still stands only completes the     *)
(* consumption, a durable request is resumed, otherwise one is built.       *)
ApplyParentCommit ==
    /\ op = Idle /\ papers.handoff # None
    /\ LET h == papers.handoff
       IN \/ /\ papers.receipt # None
             /\ parentCommitRequestMatchesHandoff(papers.request, h)
             /\ tip = papers.receipt.commit
             /\ papers' = writeParentCommitConsumption(h, papers.request)
             /\ UNCHANGED op
          \/ /\ papers.receipt = None /\ papers.request # None
             /\ parentCommitRequestMatchesHandoff(papers.request, h)
             /\ op' = [phase |-> "requested", h |-> h]
             /\ UNCHANGED papers
          \/ /\ papers.receipt = None /\ papers.request = None
             /\ BuildParentCommitRequest(h)
             /\ op' = [phase |-> "observed", h |-> h]
             /\ UNCHANGED papers
    /\ UNCHANGED <<fresh, repo, work, disk, reviewed>>

(* A private index over HEAD, everything added: the tree of the worktree as *)
(* it is now.  The request is durable before any ref moves.                 *)
parentCommitTree ==
    /\ op.phase = "observed"
    /\ wt.at # "gone"
    /\ IF wt.stray \/ wt.work = TreeOf(wt.head)
       THEN op' = Idle /\ UNCHANGED papers
       ELSE /\ papers' = persistParentCommitRequest(
                  [handoff |-> op.h, parent |-> wt.head, tree |-> wt.work, at |-> fresh + 1])
            /\ op' = [op EXCEPT !.phase = "requested"]
    /\ UNCHANGED <<fresh, repo, work, disk, reviewed>>

(* The compare-and-swap of the branch, or the recovery of one that a crash  *)
(* separated from its receipt.                                              *)
AdvanceBranch ==
    /\ op.phase = "requested"
    /\ LET req == papers.request
           commit == expectedParentCommit(req)
       IN IF tip # Gone /\ tip \in At(commit)
          THEN op' = [op EXCEPT !.phase = "advanced"] /\ UNCHANGED <<pool, tip, wt>>
          ELSE IF tip = req.parent /\ ReobserveRootHandoff(op.h)
          THEN /\ tip = Len(pool) /\ Len(pool) < MaxCommits
               /\ pool' = Append(pool, commit)
               /\ tip' = Len(pool')
               /\ wt' = [wt EXCEPT !.head = IF Attached THEN Len(pool') ELSE @]
               /\ op' = [op EXCEPT !.phase = "advanced"]
          ELSE op' = Idle /\ UNCHANGED <<pool, tip, wt>>
    /\ UNCHANGED <<fresh, base, remote, prs, work, papers, disk, reviewed>>

(* reset --mixed, the dirty check, the receipt. *)
WriteReceipt ==
    /\ op.phase = "advanced"
    /\ LET commit == CHOOSE i \in At(expectedParentCommit(papers.request)) : TRUE
       IN IF wt.at = "gone" THEN op' = Idle /\ UNCHANGED <<papers, wt>>
          ELSE /\ wt' = [wt EXCEPT !.head = commit]
               /\ IF wt.work = TreeOf(commit) /\ ~wt.stray
                  THEN /\ papers' = [papers EXCEPT !.receipt =
                              [request |-> papers.request, commit |-> commit]]
                       /\ op' = [op EXCEPT !.phase = "receipted"]
                  ELSE op' = Idle /\ UNCHANGED papers
    /\ UNCHANGED <<fresh, pool, tip, base, remote, prs, work, disk, reviewed>>

ConsumeHandoff ==
    /\ op.phase = "receipted"
    /\ papers' = writeParentCommitConsumption(op.h, papers.request)
    /\ op' = Idle
    /\ UNCHANGED <<fresh, repo, work, disk, reviewed>>

----------------------------------------------------------------------------
(* The plan: what is observed of each object, and what may go.              *)
(* seen: which of GitHub and the run records could be read; cwd: where the  *)
(* operator stands, which is protected.                                     *)

cleanupPRState(pr) == pr.state
Terminal == run.outcome /\ ~run.claims
RunState ==
    IF Terminal THEN "terminal" ELSE IF run.alive \/ run.claims THEN "live" ELSE "unknown"

observeCleanupRuns(seen) ==
    [read |-> "runs" \in seen,
     terminal |-> RunState = "terminal" /\ ~other,
     unknown |-> RunState = "unknown"]

isGeneratedCleanupArtifact == file # 0

(* A generated file of a terminal run of a done task; anything else, and    *)
(* everything when a run record is unreadable, is evidence to keep.         *)
PlanArtifact(seen) ==
    [content |-> file,
     pruneable |-> /\ isGeneratedCleanupArtifact /\ "runs" \in seen
                   /\ RunState = "terminal" /\ task = "done"]

(* canonical.Merged of ReclaimableWorktrees: landed by a merge, clean, and  *)
(* not the branch of a reopened task.                                       *)
CanonicallyMerged == tip > 0 /\ tip <= base /\ Clean /\ task # "again" /\ ~wt.locked

PlanItem(seen, cwd) ==
    LET det == wt.at = "detached"
        owned == ~det \/ tip = wt.head
        runs == observeCleanupRuns(seen)
        prState == CASE det -> IF wt.head <= base THEN "contained" ELSE "missing"
                     [] ~det /\ "github" \notin seen -> "unknown"
                     [] ~det /\ "github" \in seen /\ prs = <<>> -> "missing"
                     [] OTHER -> cleanupPRState(Last(prs))
        remoteHead == CASE det -> wt.head
                        [] ~det /\ "github" \in seen /\ prs # <<>> -> Last(prs).head
                        [] OTHER -> remote
        protected == wt.locked \/ cwd = "worktree"
        unpushed == (det /\ prState = "missing") \/ (remoteHead # Gone /\ remoteHead # wt.head)
        unknown == \/ ~runs.read
                   \/ ~det /\ (prState = "unknown" \/ remoteHead = Gone)
                   \/ owned /\ runs.unknown
    IN [detached |-> det, head |-> wt.head, dirty |-> ~Clean, pr |-> prState,
        history |-> prs, task |-> IF owned THEN task ELSE "none", runs |-> runs,
        protected |-> protected, unpushed |-> unpushed, unknown |-> unknown,
        eligible |-> /\ ~protected /\ Clean /\ ~unpushed /\ ~unknown
                     /\ owned => runs.terminal
                     /\ IF det THEN prState = "contained" /\ (owned => task = "done")
                               ELSE prState = "merged" /\ task = "done" /\ CanonicallyMerged]

(* The sandbox's Git directory is the clone's own, with no novel object. *)
sandboxSupportedGit == sand.git

(* What a walk of the sandbox finds, and what a commit's tree holds. *)
sandboxSnapshot == [content |-> sand.content]
sandboxTree(commit) == [content |-> TreeOf(commit)]

(* The chain sandbox - request - receipt - handoff - consumption. *)
SameChain ==
    /\ papers.handoff # None /\ papers.request # None
    /\ papers.receipt # None /\ papers.consumed # None
    /\ papers.request.handoff = papers.handoff
    /\ papers.request.parent = 0
    /\ papers.receipt.request = papers.request
    /\ papers.consumed = [tree |-> papers.handoff, request |-> papers.request]
    /\ papers.handoff.content = TreeOf(papers.receipt.commit)

observeCleanupSandbox(seen, cwd) ==
    /\ sand.state = "whole" /\ cwd # "sandbox"
    /\ Terminal /\ ~run.alive /\ run.ok
    /\ task = "done"
    /\ "runs" \in seen /\ ~other
    /\ SameChain
    /\ papers.receipt.commit <= base
    /\ sandboxSupportedGit
    /\ sandboxTree(papers.receipt.commit) = sandboxSnapshot

(* Identity: the source, the evidence and the ownership observed. *)
PlanSandbox(seen, cwd) ==
    [state |-> sand.state, content |-> sand.content, git |-> sand.git,
     evidence |-> papers, run |-> run, task |-> task, other |-> other,
     eligible |-> observeCleanupSandbox(seen, cwd)]

PlanRepositoryCleanup(seen, cwd) ==
    [base |-> base,
     item |-> IF wt.at = "gone" THEN None ELSE PlanItem(seen, cwd),
     artifact |-> PlanArtifact(seen),
     sandbox |-> IF sand.state = "gone" THEN None ELSE PlanSandbox(seen, cwd)]

(* A content hash over everything but the time of the observation. *)
cleanupPlanID(p) == p

EligibleItem(p) == p.item # None /\ p.item.eligible
EligibleSandbox(p) == p.sandbox # None /\ p.sandbox.eligible

Seen == SUBSET {"github", "runs"}
Places == {"root"} \cup (IF "worktree" \in Uses THEN {"worktree"} ELSE {})
                   \cup (IF "sandbox" \in Uses THEN {"sandbox"} ELSE {})

(* dacli cleanup --dry-run: the operator reviews a plan with something to do *)
(* and asks for it.                                                          *)
cmdCleanup ==
    /\ ~Cleaning
    /\ \E seen \in Seen, cwd \in Places :
          LET p == PlanRepositoryCleanup(seen, cwd)
          IN /\ EligibleItem(p) \/ EligibleSandbox(p) \/ p.artifact.pruneable
             /\ p # reviewed
             /\ reviewed' = p
    /\ UNCHANGED <<fresh, repo, work, papers, disk, op>>

----------------------------------------------------------------------------
(* ApplyRepositoryCleanup, step by step; each step may be the last one.      *)

AuditOf(p) == CHOOSE a \in audits : a.plan = p
writeCleanupAudit(p, a) == audits' = {x \in audits : x.plan # p} \cup {a}
Step(phase) == op' = [op EXCEPT !.phase = phase]

(* A fresh plan must be the reviewed one and have no audit; the audit that   *)
(* names everything planned is durable before anything moves.                *)
ApplyRepositoryCleanup ==
    /\ op = Idle /\ reviewed # None
    /\ \E seen \in Seen, cwd \in Places :
          LET p == PlanRepositoryCleanup(seen, cwd)
          IN /\ cleanupPlanID(p) = cleanupPlanID(reviewed)
             /\ \A a \in audits : a.plan # p
             /\ Cardinality(audits) < MaxAudits
             /\ writeCleanupAudit(p, [plan |-> p, quarantined |-> FALSE, restored |-> FALSE,
                                      sandbox |-> "none", removed |-> {}])
             /\ op' = [phase |-> "artifact", plan |-> p, cwd |-> cwd]
    /\ UNCHANGED <<fresh, repo, work, papers, file, vault, sand, archives, reviewed>>

verifyCleanupArtifactSource == file = op.plan.artifact.content

(* The artifact still has the planned digest and its target is free. *)
QuarantineArtifact ==
    /\ op.phase = "artifact"
    /\ IF ~op.plan.artifact.pruneable
       THEN Step("sandbox") /\ UNCHANGED <<file, vault>>
       ELSE IF verifyCleanupArtifactSource /\ \A v \in vault : v.plan # op.plan
       THEN /\ vault' = vault \cup {[plan |-> op.plan, content |-> file]}
            /\ file' = 0
            /\ Step("quarantined")
       ELSE op' = Idle /\ UNCHANGED <<file, vault>>
    /\ UNCHANGED <<fresh, repo, work, papers, sand, archives, audits, reviewed>>

RecordQuarantine ==
    /\ op.phase = "quarantined"
    /\ writeCleanupAudit(op.plan, [AuditOf(op.plan) EXCEPT !.quarantined = TRUE])
    /\ Step("sandbox")
    /\ UNCHANGED <<fresh, repo, work, papers, file, vault, sand, archives, reviewed>>

(* Pins, the durable archive, and its reconstruction compared with the plan. *)
buildSandboxRecovery ==
    /\ op.phase = "sandbox"
    /\ IF ~EligibleSandbox(op.plan)
       THEN Step("worktree") /\ UNCHANGED archives
       ELSE IF sand.state = "whole" /\ sand.content = op.plan.sandbox.content
               /\ \A x \in archives : x.plan # op.plan
       THEN /\ archives' = archives \cup {[plan |-> op.plan, content |-> sand.content]}
            /\ Step("archived")
       ELSE op' = Idle /\ UNCHANGED archives
    /\ UNCHANGED <<fresh, repo, work, papers, file, vault, sand, audits, reviewed>>

RecordArchive ==
    /\ op.phase = "archived"
    /\ writeCleanupAudit(op.plan, [AuditOf(op.plan) EXCEPT !.sandbox = "verified-source-retained"])
    /\ Step("retained")
    /\ UNCHANGED <<fresh, repo, work, papers, file, vault, sand, archives, reviewed>>

(* Mutant of StillTheSame: the archive is taken for up to date. *)
StillTheSameUnchecked(fresher) == fresher.state = op.plan.sandbox.state

(* Everything is observed again: the same sandbox, still eligible. *)
StillTheSame(fresher) == fresher = op.plan.sandbox

applyCleanupSandboxes ==
    /\ op.phase = "retained"
    /\ \E seen \in Seen :
          IF /\ sand.state # "gone"
             /\ StillTheSame(PlanSandbox(seen, op.cwd))
          THEN /\ writeCleanupAudit(op.plan, [AuditOf(op.plan) EXCEPT !.sandbox = "removal-started"])
               /\ Step("removing")
          ELSE op' = Idle /\ UNCHANGED audits
    /\ UNCHANGED <<fresh, repo, work, papers, file, vault, sand, archives, reviewed>>

(* os.RemoveAll: some entries at first, then the directory. *)
RemoveSandbox ==
    /\ op.phase = "removing"
    /\ \/ sand.state = "whole" /\ sand' = [sand EXCEPT !.state = "torn"] /\ UNCHANGED op
       \/ sand.state = "torn" /\ sand' = [sand EXCEPT !.state = "gone"] /\ Step("removed")
    /\ UNCHANGED <<fresh, repo, work, papers, file, vault, archives, audits, reviewed>>

RecordRemoved ==
    /\ op.phase = "removed"
    /\ writeCleanupAudit(op.plan, [AuditOf(op.plan) EXCEPT !.sandbox = "removed"])
    /\ Step("worktree")
    /\ UNCHANGED <<fresh, repo, work, papers, file, vault, sand, archives, reviewed>>

(* git worktree remove, which refuses a dirty or a locked worktree. *)
removeCleanupWorktree ==
    /\ op.phase = "worktree"
    /\ IF ~EligibleItem(op.plan) THEN op' = Idle /\ UNCHANGED wt
       ELSE IF wt.at # "gone" /\ Clean /\ ~wt.locked
       THEN wt' = [wt EXCEPT !.at = "gone"] /\ Step("dropped")
       ELSE op' = Idle /\ UNCHANGED wt
    /\ UNCHANGED <<fresh, pool, tip, base, remote, prs, work, papers, disk, reviewed>>

RecordDropped ==
    /\ op.phase = "dropped"
    /\ writeCleanupAudit(op.plan, [AuditOf(op.plan) EXCEPT !.removed = @ \cup {"worktree"}])
    /\ Step("branch")
    /\ UNCHANGED <<fresh, repo, work, papers, file, vault, sand, archives, reviewed>>

(* git branch -d, which refuses a branch with commits that neither the base  *)
(* nor its upstream has.  A detached item has no branch to delete.           *)
removeCleanupBranch ==
    /\ op.phase = "branch"
    /\ IF op.plan.item.detached
       THEN Step("finished") /\ UNCHANGED tip
       ELSE IF tip <= base \/ tip <= remote
       THEN tip' = Gone /\ Step("finished")
       ELSE op' = Idle /\ UNCHANGED tip
    /\ UNCHANGED <<fresh, pool, base, remote, prs, wt, work, papers, disk, reviewed>>

RecordFinished ==
    /\ op.phase = "finished"
    /\ writeCleanupAudit(op.plan, [AuditOf(op.plan) EXCEPT !.removed = @ \cup {"item"}])
    /\ op' = Idle
    /\ UNCHANGED <<fresh, repo, work, papers, file, vault, sand, archives, reviewed>>

----------------------------------------------------------------------------
(* RestoreRepositoryCleanupArtifact. *)

(* A recorded quarantine, not restored yet, whose source is absent and whose *)
(* bytes still have the recorded digest: link, unlink, record.               *)
RestoreRepositoryCleanupArtifact ==
    /\ op = Idle
    /\ \E a \in audits, v \in vault :
          /\ a.quarantined /\ ~a.restored /\ v.plan = a.plan
          /\ file = 0 /\ v.content = a.plan.artifact.content
          /\ file' = v.content
          /\ op' = [phase |-> "linked", plan |-> a.plan]
    /\ UNCHANGED <<fresh, repo, work, papers, vault, sand, archives, audits, reviewed>>

UnlinkQuarantined ==
    /\ op.phase = "linked"
    /\ vault' = {v \in vault : v.plan # op.plan}
    /\ Step("unlinked")
    /\ UNCHANGED <<fresh, repo, work, papers, file, sand, archives, audits, reviewed>>

RecordRestored ==
    /\ op.phase = "unlinked"
    /\ writeCleanupAudit(op.plan, [AuditOf(op.plan) EXCEPT !.restored = TRUE])
    /\ op' = Idle
    /\ UNCHANGED <<fresh, repo, work, papers, file, vault, sand, archives, reviewed>>

(* The verified archive is rebuilt aside, the destination reserved by mkdir, *)
(* the entries moved in; the clone's Git directory does not come back.       *)
loadSandboxRecovery(p) == {x \in archives : x.plan = p}

restoreCleanupSandbox ==
    /\ op = Idle
    /\ sand.state = "gone"
    /\ \E a \in audits, x \in archives :
          /\ a.sandbox \notin {"none", "restored"}
          /\ x \in loadSandboxRecovery(a.plan)
          /\ sand' = [state |-> "torn", content |-> x.content, git |-> FALSE]
          /\ op' = [phase |-> "reserved", plan |-> a.plan]
    /\ UNCHANGED <<fresh, repo, work, papers, file, vault, archives, audits, reviewed>>

reconstructSandbox ==
    /\ op.phase = "reserved"
    /\ sand' = [sand EXCEPT !.state = "whole"]
    /\ Step("rebuilt")
    /\ UNCHANGED <<fresh, repo, work, papers, file, vault, archives, audits, reviewed>>

RecordRebuilt ==
    /\ op.phase = "rebuilt"
    /\ writeCleanupAudit(op.plan, [AuditOf(op.plan) EXCEPT !.sandbox = "restored"])
    /\ op' = Idle
    /\ UNCHANGED <<fresh, repo, work, papers, file, vault, sand, archives, reviewed>>

(* The process dies, or a write of the step fails: the call ends there. *)
Crash ==
    /\ op # Idle
    /\ op' = Idle
    /\ UNCHANGED <<fresh, repo, work, papers, disk, reviewed>>

Next ==
    \/ RunWrites \/ Tamper \/ Project \/ Edit \/ Commit \/ Push \/ OpenPR \/ EndPR \/ Land
    \/ HandleWorktree \/ EndRun \/ MoveTask
    \/ WriteRootHandoffRequest \/ CaptureRootHandoff \/ cmdHandoffConsume
    \/ ApplyParentCommit \/ parentCommitTree \/ AdvanceBranch \/ WriteReceipt \/ ConsumeHandoff
    \/ cmdCleanup \/ ApplyRepositoryCleanup \/ QuarantineArtifact \/ RecordQuarantine
    \/ buildSandboxRecovery \/ RecordArchive \/ applyCleanupSandboxes \/ RemoveSandbox \/ RecordRemoved
    \/ removeCleanupWorktree \/ RecordDropped \/ removeCleanupBranch \/ RecordFinished
    \/ RestoreRepositoryCleanupArtifact \/ UnlinkQuarantined \/ RecordRestored
    \/ restoreCleanupSandbox \/ reconstructSandbox \/ RecordRebuilt
    \/ Crash

Spec == Init /\ [][Next]_vars

----------------------------------------------------------------------------
(* Whatever a cleanup takes away can be had again, after a crash too: each   *)
(* commit is still named by something, a removed worktree held no change,    *)
(* an artifact that left its place is where the durable audit of its plan    *)
(* says, and a sandbox that is not whole has a verified archive of its last  *)
(* content under an audit that offers it.                                    *)
CleanupKeepsAll ==
    /\ \A i \in 1..Len(pool) :
          \/ i <= base \/ i <= remote \/ i <= tip
          \/ wt.at # "gone" /\ i <= wt.head
          \/ \E n \in 1..Len(prs) : i <= prs[n].head
    /\ wt.at = "gone" => Clean
    /\ \A v \in vault : \E a \in audits : a.plan = v.plan /\ a.plan.artifact.content = v.content
    /\ "sandbox" \in Uses /\ sand.state # "whole" =>
          \E a \in audits, x \in archives :
             /\ a.plan = x.plan /\ x.content = sand.content
             /\ a.sandbox \notin {"none", "verified-source-retained"}

(* A handoff is committed at most once, however often the parent's call is   *)
(* cut off and repeated, and a receipt vouches for exactly the bytes that    *)
(* were handed off.                                                          *)
OneHandoffCommit ==
    /\ \A i, j \in 1..Len(pool) : pool[i].made # 0 /\ pool[j].made # 0 => i = j
    /\ papers.receipt # None =>
          TreeOf(papers.receipt.commit) = papers.receipt.request.handoff.content
============================================================================
