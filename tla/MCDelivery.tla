----------------------------- MODULE MCDelivery -----------------------------
(***************************************************************************)
(* Delivering work: a branch lands, an owner closes the task, GitHub       *)
(* mirrors it, and what may be disclosed there is decided.  Each is        *)
(* explored with the others at rest: `part` is the one that moves, and an  *)
(* instance of it in which a case of its own happens.  The publication     *)
(* decisions are this module's own: three keys decide and consume under    *)
(* policies two owners choose.                                             *)
(***************************************************************************)
EXTENDS Publication

CONSTANT Parts     \* the parts that are explored

VARIABLES
    part,
    task, local, tree, remote, trunk, main, observed, pr, ci, events, run, made,
    job, log, branch, base, review, green, requests, handoffs, closers, held, canon, died

bVars == <<task, local, tree, remote, trunk, main, observed, pr, ci, events, run, made>>
oVars == <<job, log, branch, base, review, green, requests, handoffs, closers, held, canon, died>>
gVars == <<link, visible, tasks, notes, issues, lock, mirrors, wrote, changes, stops>>

-----------------------------------------------------------------------------
OfferedPolicies == {[visibility |-> v, include |-> TRUE, recorded |-> TRUE] : v \in {"public", "unknown"}}
AskedActions == {[action |-> "issue-update", fields |-> {"title", "findings"}]}

LocalModes == {"integrate", "ship"} \X {"local"} \X {FALSE}
PullModes == {"integrate", "ship"} \X {"gated", "auto", "nomerge"} \X {FALSE}
Transactions == {"transaction"} \X {"gated", "auto"} \X {FALSE}

\* Every way of integrating and shipping one branch.
Landing == INSTANCE BranchLanding WITH
    seen <- observed, Commits <- 1 .. 2, Modes <- LocalModes \cup PullModes \cup Transactions, MaxGen <- 0, Concurrent <- FALSE

\* Local merges of a task that is reopened.
Again == INSTANCE BranchLanding WITH
    seen <- observed, Commits <- 1 .. 2, Modes <- LocalModes, MaxGen <- 1, Concurrent <- FALSE

\* Integration through one pull request.
Through == INSTANCE BranchLanding WITH
    seen <- observed, Commits <- 1 .. 2, Modes <- {<<"integrate", "gated", FALSE>>}, MaxGen <- 0, Concurrent <- FALSE

Call(flags) == [f \in {"all", "verify", "independent", "unverified", "unlanded", "defer", "final", "force", "unchecked"} |-> f \in flags]

\* The owner verifies a reviewed head while the worker pushes and GitHub merges.
Verified == INSTANCE OwnerAcceptance WITH
    task <- job, trunk <- base, pr <- review, proc <- closers, lock <- held, stops <- died,
    Owners <- {"root"}, Claimant <- "a", Reviewers <- {},
    Calls <- {Call({"verify"}), Call({"verify", "final"}), Call({"all", "verify", "unlanded", "unchecked"})},
    Remote <- TRUE, Requests <- {1}, MaxCommits <- 2, MaxEdits <- 1, MaxHandoffs <- 0, MaxCloses <- 1, MaxStops <- 0, MaxTrunk <- 1

\* Two owners, a reviewer who proposes and a checklist that changes.
Handed == INSTANCE OwnerAcceptance WITH
    task <- job, trunk <- base, pr <- review, proc <- closers, lock <- held, stops <- died,
    Owners <- {"root", "a"}, Claimant <- "a", Reviewers <- {"r"},
    Calls <- {Call({"unlanded", "verify"}), Call({"all", "independent", "force", "unlanded"}), Call({"defer", "unverified"})},
    Remote <- FALSE, Requests <- {1}, MaxCommits <- 0, MaxEdits <- 2, MaxHandoffs <- 1, MaxCloses <- 1, MaxStops <- 1, MaxTrunk <- 0

\* Two pushes of one repository while a human files issues.
MayFile == {<<"canonical", 1>>, <<"plain", 1>>, <<"other", 0>>}
Filed(titles) == \A r \in Repositories : \A i \in DOMAIN issues[r] : issues[r][i].marker = None => issues[r][i].title \in titles
Called(modes) == \A p \in Commands : "mode" \in DOMAIN mirrors[p] => mirrors[p].mode \in modes
Rivals == /\ link.repo # "r2" /\ visible["r2"] = "public" /\ issues["r2"] = <<>> /\ tasks[2] = None
          /\ Called({"tasks", "closure"}) /\ Filed({<<"canonical", 1>>, <<"other", 0>>})

\* A project that is linked to one repository and then to another.
Relinked == /\ mirrors["q"] = M!Idle /\ stops = 0 /\ \A r \in Repositories : Len(issues[r]) < MaxIssues
            /\ Called({"tasks", "findings"}) /\ Filed({<<"plain", 1>>, <<"other", 0>>})

ASSUME Bounds /\ Landing!Bounds /\ Again!Bounds /\ Through!Bounds /\ Verified!Bounds /\ Handed!Bounds

-----------------------------------------------------------------------------
AnyInit == /\ part \in Parts
           /\ part \in {"landing", "again", "through", "verified", "handed", "rivals", "relinked", "publication"}
           /\ Landing!Init
           /\ IF part = "handed" THEN Handed!Init ELSE Verified!Init
           /\ M!Init
           /\ Init

AnyNext == \/ /\ \/ part = "landing" /\ Landing!Next
                 \/ part = "again" /\ Again!Next
                 \/ part = "through" /\ Through!Next
              /\ UNCHANGED <<part, oVars, gVars, vars>>
           \/ /\ \/ part = "verified" /\ Verified!Next
                 \/ part = "handed" /\ Handed!Next
              /\ UNCHANGED <<part, bVars, gVars, vars>>
           \/ /\ \/ part = "rivals" /\ M!Next /\ Rivals'
                 \/ part = "relinked" /\ M!Next /\ Relinked'
              /\ UNCHANGED <<part, bVars, oVars, vars>>
           \/ part = "publication" /\ Next /\ UNCHANGED <<part, bVars, oVars, gVars>>

anyVars == <<part, bVars, oVars, gVars, vars>>
AnySpec == AnyInit /\ [][AnyNext]_anyVars

-----------------------------------------------------------------------------
\* What the task's log says of the deliverable is true: a branch recorded as
\* merged is on a trunk, whichever refs were read and however stale they were;
\* and a close that names a verification of the reviewed head names the head
\* that was canonical while the closer held the task's lock.
LandedIsTrue == [][/\ part = "landing" => Landing!RecordsTruth
                   /\ part = "again" => Again!RecordsTruth
                   /\ part = "verified" => Verified!ClosesCertified
                   /\ part = "handed" => Handed!ClosesCertified]_anyVars

\* Every commit a worker made stays on some branch or on a trunk, however often
\* the task is reopened, merged locally, torn down and pruned.
WorkIsKept == part = "again" => Again!NothingIsLost

\* Every commit a worker made stays on some branch, or its patch on a trunk:
\* what `integrate` tears down has landed.
NothingIsLost == part = "through" => Through!NothingIsLost

=============================================================================
