---------------------------- MODULE Transitions ----------------------------
(***************************************************************************)
(* Three durable transitions of the command line: the cursor of a queue    *)
(* (internal/store/queue.go, features/queues), the gated stage of a        *)
(* project (internal/gates, features/stagegate) and the promotion of one   *)
(* branch to another (features/releasetrain, store/release_train.go).      *)
(*                                                                         *)
(* The first two write a pending receipt under the caller's key, make the  *)
(* move, settle the receipt, dead-letter a terminal failure and audit it,  *)
(* all under a file lock that is modelled as exclusion here (FileLock      *)
(* models the lock itself).  The third keeps one transaction file per      *)
(* branch pair and takes no lock.  Every durable write is a step of its    *)
(* own and the process may die between any two.                            *)
(*                                                                         *)
(* Branch heads are numbers, a push makes the next one.  GitHub, the       *)
(* remote, the people who push, review and merge, and what the gates look  *)
(* at are external.                                                        *)
(***************************************************************************)
EXTENDS Integers, Sequences, FiniteSets, SequencesExt

CONSTANTS Uses,      \* subset of {"queue", "rm", "stage", "solo", "train", "crash"}
          Procs,     \* the processes that run commands
          Names,     \* the explicit --key values callers use
          Tries,     \* the outcomes callers report
          Length,    \* the steps of the queue
          Gates,     \* the sequence of the template's stages: each one its predicate kind
          MaxHead,   \* bound on pushes to the source branch
          MaxTarget, \* bound on commits of the target branch
          MaxPRs     \* bound on pull requests

VARIABLES
    queue,     \* the queue file: [cursor, halted], or None
    letters,   \* the queue's receipts: key -> receipt or None
    dead,      \* the keys with a dead letter: <<"queue" or "stage", key>>
    audits,    \* the audit events: [use, key, outcome, at]
    project,   \* the project file: [stage, phase, authority]
    stamps,    \* the stage receipts: key -> receipt or None
    world,     \* what the gates look at: [open, found, exits, readable]
    met,       \* history: the stages whose predicate has held
    source,    \* the head of the source branch, 0 when it is gone
    pushed,    \* the newest head ever pushed
    target,    \* the target branch: [sha, has], has = the source heads it contains
    prs,       \* the pull requests source -> target: [head, state, approved]
    green,     \* the heads whose required checks passed
    tx,        \* the transaction file, or None
    asked,     \* history: head -> the gates its first durable plan recorded
    merged,    \* history: the heads the tool itself merged
    at         \* per process, the command in progress

queueFiles == <<queue, letters>>
stageFiles == <<project, stamps>>
github == <<source, pushed, target, prs, green>>
train == <<tx, asked, merged>>
vars == <<queueFiles, dead, audits, stageFiles, world, met, github, train, at>>

None == [none |-> TRUE]
Idle == [pc |-> "idle"]
Solo == 0
Complete == Len(Gates) + 1
Outcomes == {"success", "terminal", "retryable"}

(* An explicit key, or the default one of a position: queue:slug:<n>:<outcome>. *)
Keys(last) == [pos : {-1}, name : Names] \cup [pos : 0..last, name : Outcomes]

NoGates == [checks |-> FALSE, reviews |-> FALSE]

Bounds ==
    /\ Uses \subseteq {"queue", "rm", "stage", "solo", "train", "crash"}
    /\ Names \cap Outcomes = {} /\ Tries \subseteq Outcomes
    /\ Length \in Nat \ {0}
    /\ \A i \in DOMAIN Gates : Gates[i] \in {"all", "some", "command"}
    /\ {MaxHead, MaxTarget, MaxPRs} \subseteq Nat

(* The phase fields follow the stage they are written with. *)
writePhase(p, s) == [p EXCEPT !.phase = s]

(* Attach binds the template when the project is created: its first stage,  *)
(* or at once complete when the template has none.                         *)
Attach(p) == writePhase([p EXCEPT !.stage = 1], 1)

CreateQueueFile == [cursor |-> 0, halted |-> FALSE]

Init ==
    /\ queue = IF "queue" \in Uses THEN CreateQueueFile ELSE None
    /\ letters = [k \in Keys(Length) |-> None]
    /\ dead = {} /\ audits = {}
    /\ LET bare == [stage |-> Solo, phase |-> Solo, authority |-> FALSE]
       IN  project = IF "stage" \in Uses /\ "solo" \notin Uses THEN Attach(bare) ELSE bare
    /\ stamps = [k \in Keys(Complete) |-> None]
    /\ world = [open |-> TRUE, found |-> FALSE, exits |-> FALSE, readable |-> TRUE]
    /\ met = {}
    /\ source = 1 /\ pushed = 1
    /\ target = [sha |-> 0, has |-> {}]
    /\ prs = <<>> /\ green = {}
    /\ tx = None /\ asked = [h \in 1..MaxHead |-> None] /\ merged = {}
    /\ at = [p \in Procs |-> Idle]

Done(p) == at' = [at EXCEPT ![p] = Idle]
Goto(p, pc) == at' = [at EXCEPT ![p].pc = pc]
Locked(use) == \E p \in Procs : at[p].pc \notin {"idle", "wait"} /\ at[p].use = use

-----------------------------------------------------------------------------
(* Queues. *)

(* CreateQueue refuses a slug whose file exists; RemoveQueue deletes only    *)
(* the file, and takes no lock.                                            *)
CreateQueue ==
    /\ "rm" \in Uses /\ queue = None
    /\ queue' = CreateQueueFile
    /\ UNCHANGED <<letters, dead, audits, stageFiles, world, met, github, train, at>>

RemoveQueue ==
    /\ "rm" \in Uses /\ queue # None
    /\ queue' = None
    /\ UNCHANGED <<letters, dead, audits, stageFiles, world, met, github, train, at>>

(* The operator edits the file of a halted queue to resume it. *)
Resume ==
    /\ queue # None /\ queue.halted
    /\ queue' = [queue EXCEPT !.halted = FALSE]
    /\ UNCHANGED <<letters, dead, audits, stageFiles, world, met, github, train, at>>

(* queue advance: the file is read for the owner and, without --key, for the *)
(* cursor in the default key, before the lock is taken.                    *)
cmdAdvanceQueue(p, outcome, name) ==
    /\ "queue" \in Uses /\ at[p] = Idle /\ queue # None
    /\ LET key == IF name = "" THEN [pos |-> queue.cursor, name |-> outcome]
                               ELSE [pos |-> -1, name |-> name]
       IN  at' = [at EXCEPT ![p] = [pc |-> "wait", use |-> "queue", key |-> key, outcome |-> outcome]]
    /\ UNCHANGED <<queueFiles, dead, audits, stageFiles, world, met, github, train>>

Receipt(before, after, outcome) ==
    [before |-> before, after |-> after, outcome |-> outcome, state |-> "pending"]

(* Where a command whose receipt is r goes on under the lock. *)
AfterReceipt(r) == IF r.state = "pending" THEN "move"
                   ELSE IF r.outcome = "terminal" THEN "letter" ELSE "audit"

(* applyLockedQueueTransition up to its first durable write: a new receipt is *)
(* pending and remembers the cursor; a key in use must have the same          *)
(* attributes.                                                             *)
readQueueReceipt(p) ==
    /\ at[p].pc = "wait" /\ at[p].use = "queue" /\ ~Locked("queue")
    /\ LET key == at[p].key
           known == letters[key]
           r == IF known = None THEN Receipt(queue.cursor, 0, at[p].outcome) ELSE known
       IN  IF queue # None /\ r.outcome = at[p].outcome
           THEN /\ letters' = [letters EXCEPT ![key] = r]
                /\ at' = [at EXCEPT ![p] = [pc |-> AfterReceipt(r), use |-> "queue", key |-> key,
                                            outcome |-> r.outcome, copy |-> queue, r |-> r]]
           ELSE Done(p) /\ UNCHANGED letters
    /\ UNCHANGED <<queue, dead, audits, stageFiles, world, met, github, train>>

(* store.Advance on the loaded copy: a halted or a complete queue refuses.   *)
Advance(q, fails) ==
    IF q.halted \/ (~fails /\ q.cursor >= Length) THEN None
    ELSE IF fails THEN [q EXCEPT !.halted = TRUE] ELSE [q EXCEPT !.cursor = @ + 1]

(* The file a pending transition leaves, None when it is refused: the cursor *)
(* moves from the recorded position, or is found one further: a cut-off      *)
(* attempt moved it.                                                       *)
MoveQueue(q, r) ==
    CASE r.outcome = "retryable" -> q
      [] r.outcome = "success"   -> IF q.cursor = r.before THEN Advance(q, FALSE)
                                    ELSE IF q.cursor = r.before + 1 THEN q ELSE None
      [] r.outcome = "terminal"  -> IF q.halted THEN q ELSE Advance(q, TRUE)

applyLockedQueueTransition(p) ==
    /\ at[p].pc = "move" /\ at[p].use = "queue"
    /\ LET q == MoveQueue(at[p].copy, at[p].r)
       IN  IF q = None
           THEN Done(p) /\ UNCHANGED queue
           ELSE /\ queue' = IF q = at[p].copy THEN queue ELSE q
                /\ at' = [at EXCEPT ![p].pc = "settle", ![p].copy = q]
    /\ UNCHANGED <<letters, dead, audits, stageFiles, world, met, github, train>>

-----------------------------------------------------------------------------
(* Gated stages. *)

(* One predicate of a stage.  "all" ranges over a listed set and an unread    *)
(* set refuses it; "some" counts what it finds; "command" is an exit status. *)
Holds(kind) == CASE kind = "all"     -> ~world.open
                 [] kind = "some"    -> world.found
                 [] kind = "command" -> world.exits

(* MUTANT of evaluate: a set that cannot be read counts as empty. *)
evaluateUnread(kind) == Holds(kind) \/ (kind = "all" /\ ~world.readable)

evaluate(kind) == Holds(kind) /\ (kind \in {"all", "some"} => world.readable)

(* status: solo and complete projects have no checks left. *)
NoChecks(stage) == stage \in {Solo, Complete}
status(stage) == IF NoChecks(stage) THEN TRUE ELSE evaluate(Gates[stage])
NextStage(stage) == IF NoChecks(stage) THEN Complete ELSE stage + 1

(* The tasks, notes, artifacts and builds the predicates look at change at   *)
(* any time, and so does whether they can be read (what no predicate of the  *)
(* template looks at stays as it is).                                      *)
LooksAt(kind) == CASE kind = "all"     -> {"open", "readable"}
                   [] kind = "some"    -> {"found", "readable"}
                   [] kind = "command" -> {"exits"}

WorldChanges ==
    /\ "stage" \in Uses
    /\ \E f \in UNION {LooksAt(Gates[s]) : s \in DOMAIN Gates} : world' = [world EXCEPT ![f] = ~@]
    /\ met' = met \cup {s \in DOMAIN Gates : Holds(Gates[s])'}
    /\ UNCHANGED <<queueFiles, dead, audits, stageFiles, github, train, at>>

cmdAdvanceStage(p, outcome, name) ==
    /\ "stage" \in Uses /\ at[p] = Idle
    /\ LET key == IF name = "" THEN [pos |-> project.stage, name |-> outcome]
                               ELSE [pos |-> -1, name |-> name]
       IN  at' = [at EXCEPT ![p] = [pc |-> "wait", use |-> "stage", key |-> key,
                                    outcome |-> outcome, before |-> project.stage]]
    /\ UNCHANGED <<queueFiles, dead, audits, stageFiles, world, met, github, train>>

(* applyLockedStageTransition up to the receipt: a new success is written     *)
(* only with every check met, and names the stage it will reach.            *)
readStageReceipt(p) ==
    /\ at[p].pc = "wait" /\ at[p].use = "stage" /\ ~Locked("stage")
    /\ LET key == at[p].key
           stage == project.stage
           success == at[p].outcome = "success"
           known == stamps[key]
           r == IF known = None
                THEN Receipt(stage, IF success THEN NextStage(stage) ELSE Solo, at[p].outcome)
                ELSE known
       IN  IF r.outcome = at[p].outcome /\ (known = None /\ success => status(stage))
           THEN /\ stamps' = [stamps EXCEPT ![key] = r]
                /\ at' = [at EXCEPT ![p] = [pc |-> AfterReceipt(r), use |-> "stage", key |-> key,
                                            outcome |-> r.outcome, copy |-> stage,
                                            r |-> r, before |-> at[p].before]]
           ELSE Done(p) /\ UNCHANGED stamps
    /\ UNCHANGED <<queueFiles, dead, audits, project, world, met, github, train>>

(* gates.Advance: evaluates the checks again, then writes the next stage and  *)
(* its phase into the project it loaded before the checks.                 *)
MoveStage(p) ==
    /\ at[p].pc = "move" /\ at[p].use = "stage" /\ at[p].outcome = "success"
    /\ LET stage == at[p].copy
           r == at[p].r
       IN  \/ /\ stage = r.before /\ status(stage)
              /\ project' = IF NoChecks(stage) THEN project
                            ELSE writePhase([project EXCEPT !.stage = NextStage(stage)], NextStage(stage))
              /\ Goto(p, "settle")
           \/ /\ stage = r.before /\ ~status(stage)
              /\ Done(p) /\ UNCHANGED project
           \/ /\ stage # r.before /\ stage = r.after
              /\ Goto(p, "settle") /\ UNCHANGED project
           \/ /\ stage # r.before /\ stage # r.after
              /\ Done(p) /\ UNCHANGED project
    /\ UNCHANGED <<queueFiles, dead, audits, stamps, world, met, github, train>>

(* A failure moves no stage. *)
applyLockedStageTransition(p) ==
    /\ at[p].pc = "move" /\ at[p].use = "stage" /\ at[p].outcome # "success"
    /\ Goto(p, "settle")
    /\ UNCHANGED <<queueFiles, dead, audits, stageFiles, world, met, github, train>>

-----------------------------------------------------------------------------
(* What both receipts have in common: settle, dead-letter, audit. *)

AfterSettled(p) == IF at[p].outcome = "terminal" THEN "letter" ELSE "audit"

writeQueueReceipt(p) ==
    /\ at[p].pc = "settle" /\ at[p].use = "queue"
    /\ letters' = [letters EXCEPT ![at[p].key] = [at[p].r EXCEPT !.state = "applied"]]
    /\ Goto(p, AfterSettled(p))
    /\ UNCHANGED <<queue, dead, audits, stageFiles, world, met, github, train>>

writeStageReceipt(p) ==
    /\ at[p].pc = "settle" /\ at[p].use = "stage"
    /\ stamps' = [stamps EXCEPT ![at[p].key] = [at[p].r EXCEPT !.state = "applied"]]
    /\ Goto(p, AfterSettled(p))
    /\ UNCHANGED <<queueFiles, dead, audits, project, world, met, github, train>>

WriteDeadLetter(p) ==
    /\ at[p].pc = "letter"
    /\ dead' = dead \cup {<<at[p].use, at[p].key>>}
    /\ Goto(p, "audit")
    /\ UNCHANGED <<queueFiles, audits, stageFiles, world, met, github, train>>

(* The audit event is appended unless one with the same actor and body is    *)
(* there; a queue's body holds the cursor, a stage's the stage the command   *)
(* read before the lock.                                                   *)
ensureQueueAudit(p) ==
    /\ at[p].pc = "audit" /\ at[p].use = "queue"
    /\ audits' = audits \cup {[use |-> "queue", key |-> at[p].key, outcome |-> at[p].outcome,
                               pos |-> at[p].copy.cursor]}
    /\ Done(p)
    /\ UNCHANGED <<queueFiles, dead, stageFiles, world, met, github, train>>

ensureStageAudit(p) ==
    /\ at[p].pc = "audit" /\ at[p].use = "stage"
    /\ audits' = audits \cup {[use |-> "stage", key |-> at[p].key, outcome |-> at[p].outcome,
                               pos |-> at[p].before]}
    /\ Done(p)
    /\ UNCHANGED <<queueFiles, dead, stageFiles, world, met, github, train>>

-----------------------------------------------------------------------------
(* The release train. *)

(* GitHub and the people: pushes move the head of an open pull request;      *)
(* checks turn green; reviews come and go; a person merges, squashes or      *)
(* closes the pull request, or commits to the target.                      *)
Push ==
    /\ "train" \in Uses /\ pushed < MaxHead
    /\ pushed' = pushed + 1 /\ source' = pushed + 1
    /\ prs' = [i \in DOMAIN prs |->
                  IF prs[i].state = "OPEN" THEN [prs[i] EXCEPT !.head = pushed + 1] ELSE prs[i]]
    /\ UNCHANGED <<queueFiles, dead, audits, stageFiles, world, met, target, green, train, at>>

ChecksPass ==
    /\ \E h \in {source} \ (green \cup {0}) : green' = green \cup {h}
    /\ "train" \in Uses
    /\ UNCHANGED <<queueFiles, dead, audits, stageFiles, world, met, source, pushed, target, prs, train, at>>

Review ==
    /\ \E i \in DOMAIN prs :
          /\ prs[i].state = "OPEN"
          /\ prs' = [prs EXCEPT ![i].approved = ~@]
    /\ UNCHANGED <<queueFiles, dead, audits, stageFiles, world, met, source, pushed, target, green, train, at>>

Merge(i, has) ==
    /\ prs[i].state = "OPEN" /\ target.sha < MaxTarget
    /\ prs' = [prs EXCEPT ![i].state = "MERGED"]
    /\ target' = [sha |-> target.sha + 1, has |-> target.has \cup has]

PersonEnds ==
    /\ \E i \in DOMAIN prs :
          \/ Merge(i, 1..prs[i].head)
          \/ Merge(i, {})
          \/ /\ prs[i].state = "OPEN"
             /\ prs' = [prs EXCEPT ![i].state = "CLOSED"]
             /\ UNCHANGED target
    /\ UNCHANGED <<queueFiles, dead, audits, stageFiles, world, met, source, pushed, green, train, at>>

(* release train authority: a person with an rw grant allows or revokes. *)
cmdAuthority ==
    /\ "train" \in Uses
    /\ project' = [project EXCEPT !.authority = ~@]
    /\ UNCHANGED <<queueFiles, dead, audits, stamps, world, met, github, train, at>>

Late == {"merge-requested", "target-fetched", "landing-observed"}

(* buildPlan: the exact heads; a source branch that is gone is taken from a   *)
(* transaction that has asked for its merge.                               *)
buildPlan(gates) ==
    IF source # 0 THEN [source |-> source, target |-> target.sha, gates |-> gates]
    ELSE IF tx # None /\ tx.phase \in Late THEN [source |-> tx.source, target |-> target.sha, gates |-> gates]
    ELSE None

(* The command reads the project, the transaction and the branches once; a    *)
(* finished promotion of the current head is only printed.                 *)
cmdReleaseTrain(p, gates, merge) ==
    /\ "train" \in Uses /\ at[p] = Idle
    /\ tx # None => ~(tx.phase = "complete" /\ source \in {0, tx.source})
    /\ buildPlan(gates) # None
    /\ at' = [at EXCEPT ![p] = [pc |-> "apply", use |-> "train", plan |-> buildPlan(gates),
                                merge |-> merge, allowed |-> project.authority, tx |-> None, pr |-> 0]]
    /\ UNCHANGED <<queueFiles, dead, audits, stageFiles, world, met, github, train>>

(* MUTANT of Frozen: the flags of this restart replace the recorded gates. *)
FrozenByFlags(plan, t) == plan

(* A restart with fewer flags keeps the gates the first plan recorded. *)
Frozen(plan, t) == [plan EXCEPT !.gates = t.gates]

NewTrain(plan) == [source |-> plan.source, target |-> plan.target, gates |-> plan.gates,
                   pr |-> 0, phase |-> "planned"]

WriteReleaseTrain(t) == tx' = t /\ UNCHANGED merged

(* apply, the durable plan: a first or a new generation is written; one that  *)
(* is complete is printed; drift of a branch is refused, of the target only   *)
(* until the merge was asked for.                                          *)
apply(p) ==
    /\ at[p].pc = "apply"
    /\ LET plan == at[p].plan
           new == IF tx = None THEN TRUE ELSE tx.phase = "complete" /\ tx.source # plan.source
           t == IF new THEN NewTrain(plan) ELSE tx
       IN  IF t.phase # "complete" /\ t.source = plan.source
              /\ (t.target = plan.target \/ t.phase \in Late)
           THEN /\ WriteReleaseTrain(t)
                /\ asked' = IF asked[t.source] = None THEN [asked EXCEPT ![t.source] = t.gates] ELSE asked
                /\ at' = [at EXCEPT ![p].plan = Frozen(plan, t), ![p].tx = t,
                                    ![p].pc = IF t.pr = 0 THEN "find" ELSE "observe"]
           ELSE Done(p) /\ UNCHANGED train
    /\ UNCHANGED <<queueFiles, dead, audits, stageFiles, world, met, github>>

(* Exactly one pull request of the exact head is adopted; several refuse. *)
findCanonicalPR(p) ==
    /\ at[p].pc = "find"
    /\ LET exact == {i \in DOMAIN prs : prs[i].head = at[p].plan.source}
       IN  CASE exact = {} -> Goto(p, "create")
             [] Cardinality(exact) = 1 ->
                  at' = [at EXCEPT ![p].pc = "persist", ![p].pr = CHOOSE i \in exact : TRUE]
             [] OTHER -> Done(p)
    /\ UNCHANGED <<queueFiles, dead, audits, stageFiles, world, met, github, train>>

(* GitHub opens it at the branch's head of that moment, and refuses a second  *)
(* open one of the pair and a source with nothing new.                     *)
createPR(p) ==
    /\ at[p].pc = "create"
    /\ IF source = 0 \/ source \in target.has \/ \E i \in DOMAIN prs : prs[i].state = "OPEN"
       THEN Done(p) /\ UNCHANGED prs
       ELSE /\ Len(prs) < MaxPRs
            /\ prs' = Append(prs, [head |-> source, state |-> "OPEN", approved |-> FALSE])
            /\ at' = [at EXCEPT ![p].pc = "persist", ![p].pr = Len(prs) + 1]
    /\ UNCHANGED <<queueFiles, dead, audits, stageFiles, world, met, source, pushed, target, green, train>>

(* Every later write is of the copy this process holds. *)
Write(p, t, pc) ==
    /\ WriteReleaseTrain(t)
    /\ at' = IF pc = "idle" THEN [at EXCEPT ![p] = Idle] ELSE [at EXCEPT ![p].pc = pc, ![p].tx = t]
    /\ UNCHANGED <<queueFiles, dead, audits, stageFiles, world, met, asked>>

PersistPR(p) ==
    /\ at[p].pc = "persist"
    /\ Write(p, [at[p].tx EXCEPT !.pr = at[p].pr, !.phase = "pr-persisted"], "observe")
    /\ UNCHANGED github

Ready(plan, pr) == /\ plan.gates.checks => plan.source \in green
                   /\ plan.gates.reviews => pr.approved

(* observeGates and what apply does with it: another head, or a closed pull   *)
(* request, refuses; a merged one is reconciled; open gates wait; --merge      *)
(* needs the authority the project granted.                                *)
observeGates(p) ==
    /\ at[p].pc = "observe"
    /\ LET t == at[p].tx
           pr == prs[t.pr]
           plan == at[p].plan
       IN  IF pr.head # plan.source \/ pr.state = "CLOSED"
           THEN Done(p) /\ UNCHANGED <<queueFiles, dead, audits, stageFiles, world, met, train>>
           ELSE CASE pr.state = "MERGED" -> Write(p, t, "fetch")
                  [] pr.state = "OPEN" /\ ~Ready(plan, pr) ->
                       Write(p, [t EXCEPT !.phase = "pending-gates"], "idle")
                  [] pr.state = "OPEN" /\ Ready(plan, pr) /\ ~at[p].merge ->
                       Write(p, [t EXCEPT !.phase = "ready-awaiting-authority"], "idle")
                  [] pr.state = "OPEN" /\ Ready(plan, pr) /\ at[p].merge ->
                       Write(p, t, IF at[p].allowed THEN "merge" ELSE "idle")
    /\ UNCHANGED github

(* gh pr merge --match-head-commit; then the request is recorded. *)
MergePR(p) ==
    /\ at[p].pc = "merge"
    /\ LET t == at[p].tx
       IN  IF prs[t.pr].state = "OPEN" /\ prs[t.pr].head = at[p].plan.source
           THEN /\ Merge(t.pr, 1..prs[t.pr].head)
                /\ merged' = merged \cup {prs[t.pr].head}
                /\ Goto(p, "requested")
           ELSE Done(p) /\ UNCHANGED <<prs, target, merged>>
    /\ UNCHANGED <<queueFiles, dead, audits, stageFiles, world, met, source, pushed, green, tx, asked>>

RecordRequested(p) ==
    /\ at[p].pc = "requested"
    /\ Write(p, [at[p].tx EXCEPT !.phase = "merge-requested"], "fetch")
    /\ UNCHANGED github

FetchTarget(p) ==
    /\ at[p].pc = "fetch"
    /\ Write(p, [at[p].tx EXCEPT !.phase = "target-fetched"], "landed")
    /\ UNCHANGED github

(* The reviewed head is an ancestor of the fetched target. *)
Landed(t) == t.source \in target.has

reconcileLanding(p) ==
    /\ at[p].pc = "landed"
    /\ IF Landed(at[p].tx)
       THEN Write(p, [at[p].tx EXCEPT !.phase = "landing-observed"], "delete")
       ELSE Done(p) /\ UNCHANGED <<queueFiles, dead, audits, stageFiles, world, met, train>>
    /\ UNCHANGED github

(* The source branch is deleted if it is there; GitHub closes what was open.  *)
DeleteSource(p) ==
    /\ at[p].pc = "delete"
    /\ source' = 0
    /\ prs' = [i \in DOMAIN prs |->
                  IF prs[i].state = "OPEN" THEN [prs[i] EXCEPT !.state = "CLOSED"] ELSE prs[i]]
    /\ Goto(p, "complete")
    /\ UNCHANGED <<queueFiles, dead, audits, stageFiles, world, met, pushed, target, green, train>>

RecordComplete(p) ==
    /\ at[p].pc = "complete"
    /\ Write(p, [at[p].tx EXCEPT !.phase = "complete"], "idle")
    /\ UNCHANGED github

-----------------------------------------------------------------------------
(* The process dies, or a write or a network call fails: the command ends.  *)
Crash(p) ==
    /\ "crash" \in Uses /\ at[p] # Idle
    /\ Done(p)
    /\ UNCHANGED <<queueFiles, dead, audits, stageFiles, world, met, github, train>>

Step(p) ==
    \/ \E o \in Tries, n \in Names \cup {""} : cmdAdvanceQueue(p, o, n) \/ cmdAdvanceStage(p, o, n)
    \/ readQueueReceipt(p) \/ applyLockedQueueTransition(p) \/ writeQueueReceipt(p)
    \/ readStageReceipt(p) \/ MoveStage(p) \/ applyLockedStageTransition(p) \/ writeStageReceipt(p)
    \/ WriteDeadLetter(p) \/ ensureQueueAudit(p) \/ ensureStageAudit(p)
    \/ \E g \in [checks : BOOLEAN, reviews : BOOLEAN], m \in BOOLEAN : cmdReleaseTrain(p, g, m)
    \/ apply(p) \/ findCanonicalPR(p) \/ createPR(p) \/ PersistPR(p) \/ observeGates(p)
    \/ MergePR(p) \/ RecordRequested(p) \/ FetchTarget(p) \/ reconcileLanding(p)
    \/ DeleteSource(p) \/ RecordComplete(p)
    \/ Crash(p)

Next ==
    \/ CreateQueue \/ RemoveQueue \/ Resume
    \/ WorldChanges
    \/ Push \/ ChecksPass \/ Review \/ PersonEnds \/ cmdAuthority
    \/ \E p \in Procs : Step(p)

Spec == Init /\ [][Next]_vars

-----------------------------------------------------------------------------
ReceiptType(last) ==
    [before : 0..last, after : 0..last, outcome : Outcomes, state : {"pending", "applied"}]

TypeOK ==
    /\ queue \in [cursor : 0..Length, halted : BOOLEAN] \cup {None}
    /\ \A k \in Keys(Length) : letters[k] \in ReceiptType(Length) \cup {None}
    /\ \A k \in Keys(Complete) : stamps[k] \in ReceiptType(Complete) \cup {None}
    /\ project \in [stage : 0..Complete, phase : 0..Complete, authority : BOOLEAN]
    /\ source \in 0..MaxHead /\ pushed \in 1..MaxHead
    /\ target.sha \in 0..MaxTarget /\ target.has \subseteq 1..MaxHead
    /\ Len(prs) <= MaxPRs

(* The cursor of a queue counts receipts: each position it has passed was     *)
(* passed by a success recorded under some key at that very position, however *)
(* often commands were cut off, repeated or run at once.                   *)
QueueMovesOnce ==
    queue # None => \A n \in 0..(queue.cursor - 1) : \E k \in Keys(Length) :
        letters[k] # None /\ letters[k].outcome = "success" /\ letters[k].before = n

(* A stage is left only through its gate: its predicate has held, a success   *)
(* receipt names the move, and the phase the spawn gate reads is the stage's.  *)
StagesPassGates ==
    /\ \A s \in 1..(project.stage - 1) :
          /\ s \in met
          /\ \E k \in Keys(Complete) :
                stamps[k] # None /\ stamps[k].outcome = "success" /\ stamps[k].before = s
    /\ project.phase = project.stage

(* What is dead-lettered or audited is in an applied receipt. *)
RecordsAreApplied ==
    LET of(use, key) == IF use = "queue" THEN letters[key] ELSE stamps[key]
    IN  /\ \A d \in dead : of(d[1], d[2]) # None /\ of(d[1], d[2]).state = "applied"
        /\ \A a \in audits : of(a.use, a.key) # None /\ of(a.use, a.key).state = "applied"

EveryMoveReceipted == QueueMovesOnce /\ StagesPassGates /\ RecordsAreApplied

(* The tool merges a head only if the gates its first durable plan recorded   *)
(* were met, whatever flags the restart that merges it was given; and it       *)
(* deletes the source branch only when the reviewed head is in the target.   *)
PromotedAsPlanned ==
    /\ \A h \in merged' \ merged : asked[h] # None /\ (asked[h].checks => h \in green)
    /\ source # 0 /\ source' = 0 => tx # None /\ tx.source \in target.has

PromotionsHold == [][PromotedAsPlanned]_vars
=============================================================================
