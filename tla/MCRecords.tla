----------------------------- MODULE MCRecords ------------------------------
(***************************************************************************)
(* The records the program keeps and rewrites: the authority's aggregate,  *)
(* the task graph with its slices, the receipts of queues, stages and      *)
(* release trains, and what a cleanup takes away and keeps.  They share no *)
(* variable, so each is explored with the others at rest: `part` is the    *)
(* one that moves, and an instance of it in which a case of its own        *)
(* happens.                                                                *)
(***************************************************************************)
EXTENDS AuthorityStore, Integers, Sequences, TLC

VARIABLES
    part,
    tasks, holder, sliceLock, events, noted, plans, grants, heads, slices, op, told,
    queue, letters, dead, receipts, project, stamps, world, met, source, pushed, target, prs, green, tx, asked, merged, at,
    fresh, pool, tip, base, remote, requests, wt, task, run, other, papers, artifact, vault, sand, archives, audits,
    reviewed, call

pVars == <<tasks, holder, sliceLock, events, noted, plans, grants, heads, slices, op, told>>
tVars == <<queue, letters, dead, receipts, project, stamps, world, met, source, pushed, target, prs, green, tx, asked,
           merged, at>>
cVars == <<fresh, pool, tip, base, remote, requests, wt, task, run, other, papers, artifact, vault, sand, archives, audits,
           reviewed, call>>

-----------------------------------------------------------------------------
\* Edges of both types among three tasks that are worked on and closed.
Edges == INSTANCE Planning WITH
    lock <- holder, prs <- slices, Uses <- {"depend", "life"}, Types <- {"FS", "SS"}, Procs <- {"p"}, Base <- {"a", "b", "c"},
    Large <- {}, Shelved <- {}, Spare <- <<>>, Kids <- <<>>, Titles <- {}, Runs <- {}, Paths <- {},
    MaxEvents <- 1, MaxGen <- 0, MaxHead <- 0, MaxPRs <- 0

\* A large task is decomposed by a process that dies.
Split == INSTANCE Planning WITH
    lock <- holder, prs <- slices, Uses <- {"depend", "split", "life", "crash"}, Types <- {"FS"}, Procs <- {"p"}, Base <- {"a"},
    Large <- {"a"}, Shelved <- {}, Spare <- <<>>, Kids <- << <<"c", "d">> >>, Titles <- {}, Runs <- {}, Paths <- {},
    MaxEvents <- 1, MaxGen <- 0, MaxHead <- 0, MaxPRs <- 0

\* Two processes add slices of two titles.
Slicing == INSTANCE Planning WITH
    lock <- holder, prs <- slices, Uses <- {"slices", "crash"}, Types <- {"FS", "SS"}, Procs <- {"p", "q"}, Base <- {"a"},
    Large <- {}, Shelved <- {}, Spare <- <<"s1", "s2">>, Kids <- <<>>, Titles <- {"x", "y"}, Runs <- {}, Paths <- {},
    MaxEvents <- 0, MaxGen <- 0, MaxHead <- 0, MaxPRs <- 0

\* Two ended runs expand their claims.
Claims == INSTANCE Planning WITH
    lock <- holder, prs <- slices, Uses <- {"claims", "crash"}, Types <- {"FS", "SS"}, Procs <- {"p", "q"}, Base <- {"a"},
    Large <- {}, Shelved <- {}, Spare <- <<>>, Kids <- <<>>, Titles <- {}, Runs <- {"r1", "r2"}, Paths <- {"x", "y"},
    MaxEvents <- 0, MaxGen <- 0, MaxHead <- 0, MaxPRs <- 0

\* Two processes edit the edges of two tasks.
Rivals == INSTANCE Planning WITH
    lock <- holder, prs <- slices, Uses <- {"depend", "crash"}, Types <- {"FS", "SS"}, Procs <- {"p", "q"}, Base <- {"a", "b"},
    Large <- {}, Shelved <- {}, Spare <- <<>>, Kids <- <<>>, Titles <- {}, Runs <- {}, Paths <- {},
    MaxEvents <- 2, MaxGen <- 0, MaxHead <- 0, MaxPRs <- 0

\* A slice is pushed, merged, reopened and pushed again.
Landing == INSTANCE Planning WITH
    lock <- holder, prs <- slices, Uses <- {"slices", "life"}, Types <- {"FS", "SS"}, Procs <- {"p"}, Base <- {"a"},
    Large <- {}, Shelved <- {}, Spare <- <<"s1">>, Kids <- <<>>, Titles <- {"x"}, Runs <- {}, Paths <- {},
    MaxEvents <- 0, MaxGen <- 1, MaxHead <- 2, MaxPRs <- 1

\* Two decomposition plans, and removals.
Twice == INSTANCE Planning WITH
    lock <- holder, prs <- slices, Uses <- {"split", "crash", "rm"}, Types <- {"FS", "SS"}, Procs <- {"p", "q"}, Base <- {"a"},
    Large <- {"a"}, Shelved <- {}, Spare <- <<>>, Kids <- << <<"c", "d">>, <<"e", "f">> >>, Titles <- {}, Runs <- {},
    Paths <- {}, MaxEvents <- 0, MaxGen <- 0, MaxHead <- 0, MaxPRs <- 0

\* A task is filed under another, worked on and forced closed.
Filing == INSTANCE Planning WITH
    lock <- holder, prs <- slices, Uses <- {"split", "life", "add", "work", "force", "depend"}, Types <- {"FS"}, Procs <- {"p"},
    Base <- {"a"}, Large <- {}, Shelved <- {}, Spare <- <<"s1">>, Kids <- <<>>, Titles <- {}, Runs <- {}, Paths <- {},
    MaxEvents <- 1, MaxGen <- 1, MaxHead <- 0, MaxPRs <- 0

\* Edges are removed again, and tasks.
Undone == INSTANCE Planning WITH
    lock <- holder, prs <- slices, Uses <- {"depend", "remove", "life", "rm"}, Types <- {"FS", "SS"}, Procs <- {"p"},
    Base <- {"a", "b"}, Large <- {}, Shelved <- {}, Spare <- <<>>, Kids <- <<>>, Titles <- {}, Runs <- {}, Paths <- {},
    MaxEvents <- 2, MaxGen <- 0, MaxHead <- 0, MaxPRs <- 0

-----------------------------------------------------------------------------
\* A queue whose step succeeds, fails for now or for good.
Queue == INSTANCE Transitions WITH
    audits <- receipts, Uses <- {"queue", "crash"}, Procs <- {"p"}, Names <- {}, Tries <- {"success", "terminal", "retryable"},
    Length <- 1, Gates <- <<"all">>, MaxHead <- 1, MaxTarget <- 0, MaxPRs <- 0

\* Two processes use the same key.
Keyed == INSTANCE Transitions WITH
    audits <- receipts, Uses <- {"queue", "crash"}, Procs <- {"p", "q"}, Names <- {"k"}, Tries <- {"success"},
    Length <- 2, Gates <- <<"all">>, MaxHead <- 1, MaxTarget <- 0, MaxPRs <- 0

\* The queue is removed.
Removed == INSTANCE Transitions WITH
    audits <- receipts, Uses <- {"queue", "crash", "rm"}, Procs <- {"p", "q"}, Names <- {}, Tries <- {"success"},
    Length <- 1, Gates <- <<"all">>, MaxHead <- 1, MaxTarget <- 0, MaxPRs <- 0

\* Two stages, of one process.
Stages == INSTANCE Transitions WITH
    audits <- receipts, Uses <- {"stage", "crash"}, Procs <- {"p"}, Names <- {}, Tries <- {"success"},
    Length <- 1, Gates <- <<"all", "some">>, MaxHead <- 1, MaxTarget <- 0, MaxPRs <- 0

\* One stage, of two.
Raced == INSTANCE Transitions WITH
    audits <- receipts, Uses <- {"stage", "crash"}, Procs <- {"p", "q"}, Names <- {"k"}, Tries <- {"success"},
    Length <- 1, Gates <- <<"command">>, MaxHead <- 1, MaxTarget <- 0, MaxPRs <- 0

\* A project without a template attaches one.
Attached == INSTANCE Transitions WITH
    audits <- receipts, Uses <- {"stage", "solo"}, Procs <- {"p"}, Names <- {"k"}, Tries <- {"success", "terminal", "retryable"},
    Length <- 1, Gates <- <<"command">>, MaxHead <- 1, MaxTarget <- 0, MaxPRs <- 0

\* A release train that is cut off while people push and merge.
Train == INSTANCE Transitions WITH
    audits <- receipts, Uses <- {"train", "crash"}, Procs <- {"p"}, Names <- {}, Tries <- {},
    Length <- 1, Gates <- <<"all">>, MaxHead <- 2, MaxTarget <- 1, MaxPRs <- 1

-----------------------------------------------------------------------------
\* A parent commits the work its child handed off, while files change.
Handoff == INSTANCE Cleanup WITH
    file <- artifact, prs <- requests, op <- call,
    Uses <- {"handoff", "edits"}, MaxContent <- 3, MaxCommits <- 2, MaxPRs <- 0, MaxAudits <- 0

\* A run's temporary artifact is quarantined and restored.
Artifact == INSTANCE Cleanup WITH
    file <- artifact, prs <- requests, op <- call,
    Uses <- {"artifact"}, MaxContent <- 2, MaxCommits <- 0, MaxPRs <- 0, MaxAudits <- 2

\* A claim sandbox is archived, removed and restored.
Sandbox == INSTANCE Cleanup WITH
    file <- artifact, prs <- requests, op <- call,
    Uses <- {"handoff", "sandbox"}, MaxContent <- 2, MaxCommits <- 1, MaxPRs <- 0, MaxAudits <- 2

\* Branches and worktrees are removed while the work goes on.
Worktree == INSTANCE Cleanup WITH
    file <- artifact, prs <- requests, op <- call,
    Uses <- {"worktree", "edits"}, MaxContent <- 2, MaxCommits <- 2, MaxPRs <- 2, MaxAudits <- 1

ASSUME /\ Edges!Bounds /\ Split!Bounds /\ Slicing!Bounds /\ Claims!Bounds /\ Rivals!Bounds /\ Landing!Bounds
       /\ Twice!Bounds /\ Filing!Bounds /\ Undone!Bounds
       /\ Queue!Bounds /\ Keyed!Bounds /\ Removed!Bounds /\ Stages!Bounds /\ Raced!Bounds /\ Attached!Bounds /\ Train!Bounds
       /\ Handoff!Bounds /\ Artifact!Bounds /\ Sandbox!Bounds /\ Worktree!Bounds

-----------------------------------------------------------------------------
AnyInit ==
    /\ Init
    /\ \/ part = "store" /\ Claims!Init /\ Queue!Init /\ Handoff!Init
       \/ part = "edges" /\ Edges!Init /\ Queue!Init /\ Handoff!Init
       \/ part = "split" /\ Split!Init /\ Queue!Init /\ Handoff!Init
       \/ part = "slicing" /\ Slicing!Init /\ Queue!Init /\ Handoff!Init
       \/ part = "claims" /\ Claims!Init /\ Queue!Init /\ Handoff!Init
       \/ part = "rivals" /\ Rivals!Init /\ Queue!Init /\ Handoff!Init
       \/ part = "landing" /\ Landing!Init /\ Queue!Init /\ Handoff!Init
       \/ part = "twice" /\ Twice!Init /\ Queue!Init /\ Handoff!Init
       \/ part = "filing" /\ Filing!Init /\ Queue!Init /\ Handoff!Init
       \/ part = "undone" /\ Undone!Init /\ Queue!Init /\ Handoff!Init
       \/ part = "queue" /\ Claims!Init /\ Queue!Init /\ Handoff!Init
       \/ part = "keyed" /\ Claims!Init /\ Keyed!Init /\ Handoff!Init
       \/ part = "removed" /\ Claims!Init /\ Removed!Init /\ Handoff!Init
       \/ part = "stages" /\ Claims!Init /\ Stages!Init /\ Handoff!Init
       \/ part = "raced" /\ Claims!Init /\ Raced!Init /\ Handoff!Init
       \/ part = "attached" /\ Claims!Init /\ Attached!Init /\ Handoff!Init
       \/ part = "train" /\ Claims!Init /\ Train!Init /\ Handoff!Init
       \/ part = "handoff" /\ Claims!Init /\ Queue!Init /\ Handoff!Init
       \/ part = "artifact" /\ Claims!Init /\ Queue!Init /\ Artifact!Init
       \/ part = "sandbox" /\ Claims!Init /\ Queue!Init /\ Sandbox!Init
       \/ part = "worktree" /\ Claims!Init /\ Queue!Init /\ Worktree!Init

AnyNext ==
    \/ part = "store" /\ Next /\ UNCHANGED <<part, pVars, tVars, cVars>>
    \/ /\ \/ part = "edges" /\ Edges!Next
          \/ part = "split" /\ Split!Next
          \/ part = "slicing" /\ Slicing!Next
          \/ part = "claims" /\ Claims!Next
          \/ part = "rivals" /\ Rivals!Next
          \/ part = "landing" /\ Landing!Next
          \/ part = "twice" /\ Twice!Next
          \/ part = "filing" /\ Filing!Next
          \/ part = "undone" /\ Undone!Next
       /\ UNCHANGED <<part, vars, tVars, cVars>>
    \/ /\ \/ part = "queue" /\ Queue!Next
          \/ part = "keyed" /\ Keyed!Next
          \/ part = "removed" /\ Removed!Next
          \/ part = "stages" /\ Stages!Next
          \/ part = "raced" /\ Raced!Next
          \/ part = "attached" /\ Attached!Next
          \/ part = "train" /\ Train!Next
       /\ UNCHANGED <<part, vars, pVars, cVars>>
    \/ /\ \/ part = "handoff" /\ Handoff!Next
          \/ part = "artifact" /\ Artifact!Next
          \/ part = "sandbox" /\ Sandbox!Next
          \/ part = "worktree" /\ Worktree!Next
       /\ UNCHANGED <<part, vars, pVars, tVars>>

anyVars == <<part, vars, pVars, tVars, cVars>>
AnySpec == AnyInit /\ [][AnyNext]_anyVars

\* What a planning command reported is not undone by one that worked from an
\* older copy, work never waits for itself, and a parent generation has one slice
\* of a title.
PlanHolds ==
    /\ part = "edges" => Edges!ConfirmedEditsStay /\ Edges!NoStall
    /\ part = "split" => Split!ConfirmedEditsStay /\ Split!NoStall
    /\ part = "slicing" => Slicing!OneSlicePerTitle
    /\ part = "claims" => Claims!ConfirmedEditsStay
    /\ part = "rivals" => Rivals!ConfirmedEditsStay
    /\ part = "landing" => Landing!OneSlicePerTitle
    /\ part = "twice" => Twice!ConfirmedEditsStay
    /\ part = "filing" => Filing!ConfirmedEditsStay /\ Filing!NoStall
    /\ part = "undone" => Undone!ConfirmedEditsStay /\ Undone!NoStall

\* Each position a queue or a project has passed was passed through a recorded
\* success, a stage only when its gate held; what is dead-lettered or audited
\* was applied.
EveryMoveReceipted ==
    /\ part = "queue" => Queue!EveryMoveReceipted
    /\ part = "keyed" => Keyed!EveryMoveReceipted
    /\ part = "removed" => Removed!RecordsAreApplied
    /\ part = "stages" => Stages!EveryMoveReceipted
    /\ part = "raced" => Raced!EveryMoveReceipted
    /\ part = "attached" => Attached!EveryMoveReceipted

\* A release train merges a head only under the gates its first durable plan
\* recorded, and deletes the source only when the reviewed head has landed; a
\* parent with slices is closed only over the merged heads of its slices.
PromotionsHold == [][/\ part = "train" => Train!PromotedAsPlanned
                     /\ part = "landing" => Landing!ClosesOverMerged]_anyVars

\* Whatever a cleanup takes away can be had again, and a handoff is committed
\* at most once and exactly as it was handed off.
CleanupKeepsAll ==
    /\ part = "handoff" => Handoff!CleanupKeepsAll /\ Handoff!OneHandoffCommit
    /\ part = "artifact" => Artifact!CleanupKeepsAll
    /\ part = "sandbox" => Sandbox!CleanupKeepsAll /\ Sandbox!OneHandoffCommit
    /\ part = "worktree" => Worktree!CleanupKeepsAll

=============================================================================
