------------------------------ MODULE EventLog ------------------------------
(***************************************************************************)
(* The Markdown tasks of a workspace, the commands that change them        *)
(* (store/store.go, store/remove.go, features/planning/planning.go) and    *)
(* the event log beside them (eventlog/*.go, features/collab).             *)
(*                                                                         *)
(* A task is a file in the folder of its status.  A command looks at the   *)
(* task, decides, takes the task's lock, reads the file again, saves it    *)
(* and then renames it into another folder.  Agents that may not change a  *)
(* task append events about it, the owner's Sync materialises them oldest  *)
(* first and marks each applied afterwards; questions block a task until   *)
(* they are answered; events are dismissed and archived by an audited      *)
(* plan.  Processes of several agents, and several of one identity,        *)
(* interleave at these points and die at any of them; the lock of a dead   *)
(* process is broken (module FileLock).                                    *)
(***************************************************************************)
EXTENDS Naturals, Sequences, FiniteSets

CONSTANTS
    Procs, Who,                 \* processes, and the identity each acts as
    Agents, Root, ReadOnly,     \* identities; the read-only ones
    Owners,                     \* who may own a task at first
    Tasks, Criteria,            \* tasks and their acceptance boxes
    Commands,                   \* the commands each process runs
    Landing,                    \* "pr" or "direct": the policy of each task's project
    Mortal,                     \* may processes die?
    MaxLog, None                \* bound on the lines of a log

\* The commands that change a task.
Edits == {"claim", "check", "done", "takeover", "estimate", "reopen", "block", "ask", "answer"}

\* What instances have to provide.
TaskBounds == /\ Root \in Agents /\ Who \in [Procs -> Agents] /\ ReadOnly \subseteq Agents /\ Mortal \in BOOLEAN
              /\ MaxLog \in Nat /\ Landing \in [Tasks -> {"pr", "direct"}] /\ Owners \subseteq Agents \cup {None}
              /\ Commands \in [Procs -> SUBSET (Edits \cup {"sync", "dismiss", "journal"})] /\ None \notin Procs

Statuses == {"open", "active", "blocked", "done"}

VARIABLES
    task,       \* [status, owner, boxes, log, unlanded] of each task
    lock,       \* who holds the lock of each task
    run         \* what each agent's process is doing

taskVars == <<task, lock, run>>

Idle == [pc |-> "idle", cmd |-> None, task |-> None, event |-> None, seen |-> None, to |-> None, todo |-> {},
         index |-> None]

\* About to take the lock of the task for the command.
Locking(cmd, t) == [Idle EXCEPT !.pc = "lock", !.cmd = cmd, !.task = t, !.seen = task[t].owner]

Line(what, a, e) == [what |-> what, by |-> a, event |-> e]

\* AppendLog.
Logged(f, what, a) == [f EXCEPT !.log = Append(@, Line(what, a, None))]

HasLine(f, what) == \E i \in DOMAIN f.log : f.log[i].what = what

\* agentid.CanMutate
CanMutate(a, owner) == a \notin ReadOnly /\ owner \in {None, a}

-----------------------------------------------------------------------------
(* What a command decides on the task it found, before any lock.           *)

\* Commands that are refused, or recorded as an event for the owner, when the
\* caller may not change the task.
Passes(cmd, a, f) ==
    CASE cmd = "claim"    -> ~(f.owner \notin {None, a} /\ f.status = "active")
      [] cmd = "takeover" -> /\ a = Root /\ a \notin ReadOnly /\ f.owner \notin {None, a}
                             /\ f.status \in {"open", "active"}
      [] cmd = "estimate" -> CanMutate(a, f.owner) \/ a = Root
      [] cmd \in {"check", "reopen"} -> CanMutate(a, f.owner)
      [] OTHER -> TRUE

\* The commands a caller without authority turns into an event.
Proposable == {"claim", "done", "block"}

Direct(cmd, a, f) == cmd \in Proposable => CanMutate(a, f.owner)

\* Look: FindTask and the checks of the command.
Look(p, cmd, t) ==
    /\ run[p] = Idle
    /\ Passes(cmd, Who[p], task[t]) /\ Direct(cmd, Who[p], task[t])
    /\ run' = [run EXCEPT ![p] = Locking(cmd, t)]
    /\ UNCHANGED <<task, lock>>

-----------------------------------------------------------------------------
(* What a command does to the task it read again under the lock.           *)

\* closeTask: a project that lands by pull request keeps the task.
Closed(f, a, landing) ==
    IF landing = "pr" THEN [Logged(f, "requested", a) EXCEPT !.unlanded = TRUE]
                      ELSE [Logged(f, "completed", a) EXCEPT !.unlanded = FALSE]

ClosesTo(f, landing) == IF landing = "pr" THEN f.status ELSE "done"

Agrees(cmd, a, f, owner) ==
    CASE cmd = "done"     -> Criteria # {} /\ f.boxes = Criteria
      [] cmd = "takeover" -> f.owner = owner
      [] cmd = "reopen"   -> f.status \in {"blocked", "done"}
      [] cmd = "ask"      -> f.status # "blocked"
      [] cmd = "answer"   -> f.status = "blocked"
      [] OTHER -> TRUE

Claimed(f, a)       == [Logged(f, "claimed", a) EXCEPT !.owner = a]
Checked(f)          == [f EXCEPT !.boxes = Criteria]
TakenOver(f, a)     == [Logged(f, "takeover", a) EXCEPT !.owner = a]
Sized(f, a, owner)  == IF CanMutate(a, owner) THEN f ELSE [Logged(f, "adopted", a) EXCEPT !.owner = a]
Reopened(f, a)      == [Logged(f, "reopened", a) EXCEPT !.boxes = {}]
Blocked(f, a)       == Logged(f, "blocked", a)

Edited(cmd, a, f, owner, landing) ==
    CASE cmd = "claim"    -> Claimed(f, a)
      [] cmd = "check"    -> Checked(f)
      [] cmd = "done"     -> Closed(f, a, landing)
      [] cmd = "takeover" -> TakenOver(f, a)
      [] cmd = "estimate" -> Sized(f, a, owner)
      [] cmd = "reopen"   -> Reopened(f, a)
      [] cmd = "block"    -> Blocked(f, a)
      [] cmd = "ask"      -> Logged(f, "asked", a)
      [] cmd = "answer"   -> Logged(f, "answered", a)

\* The folder the file is moved to after it was saved.
Target(cmd, f, landing) ==
    CASE cmd = "claim" /\ f.status = "open" -> "active"
      [] cmd = "done"   -> ClosesTo(f, landing)
      [] cmd = "reopen" -> "open"
      [] cmd \in {"block", "ask"} -> "blocked"
      [] cmd = "answer" -> "active"
      [] OTHER -> f.status

\* WithTask reads the file again under the lock.
\* Mutant: only the lock, not the second read.
FreshAsIndexed(t, indexed) == indexed

Fresh(t, indexed) == task[t]

\* Save: under the lock, the command's edit is written in place.
Save(p) ==
    LET r == run[p]  f == Fresh(r.task, task[r.task]) IN
    /\ r.pc = "lock" /\ lock[r.task] = None
    /\ IF Agrees(r.cmd, Who[p], f, r.seen) /\ Len(f.log) < MaxLog
       THEN /\ task' = [task EXCEPT ![r.task] = Edited(r.cmd, Who[p], f, r.seen, Landing[r.task])]
            /\ lock' = [lock EXCEPT ![r.task] = p]
            /\ run' = [run EXCEPT ![p].pc = "move", ![p].to = Target(r.cmd, f, Landing[r.task])]
       ELSE UNCHANGED <<task, lock>> /\ run' = [run EXCEPT ![p] = Idle]

\* MoveTask and the release of the lock.
Move(p) ==
    LET r == run[p] IN
    /\ r.pc = "move"
    /\ task' = [task EXCEPT ![r.task].status = r.to]
    /\ lock' = [lock EXCEPT ![r.task] = None]
    /\ run' = [run EXCEPT ![p] = Idle]

Die(p) ==
    /\ Mortal /\ run[p] # Idle
    /\ run' = [run EXCEPT ![p] = Idle]
    /\ lock' = [t \in Tasks |-> IF lock[t] = p THEN None ELSE lock[t]]
    /\ UNCHANGED task

-----------------------------------------------------------------------------
\* A task as CreateTask files it.
Filed(owner) == [status |-> "open", owner |-> owner, boxes |-> {}, log |-> <<>>, unlanded |-> FALSE]

TaskInit ==
    /\ \E owner \in [Tasks -> Owners] : task = [t \in Tasks |-> Filed(owner[t])]
    /\ lock = [t \in Tasks |-> None] /\ run = [p \in Procs |-> Idle]

TaskNext(p) == \/ \E cmd \in (Commands[p] \cap Edits) \ {"ask", "answer"}, t \in Tasks : Look(p, cmd, t)
               \/ Save(p) \/ Move(p) \/ Die(p)

-----------------------------------------------------------------------------
(* The event log.                                                          *)

CONSTANTS
    MaxEvents,  \* bound on the events appended
    Kinds       \* the kinds of events each process appends of its own accord

Ids == 1 .. MaxEvents   \* ULIDs: events are numbered in the order of creation

\* What a line of a log says, and what an event asks for.
Entries    == {"claimed", "completed", "requested", "takeover", "adopted", "reopened", "blocked", "asked", "answered",
               "released", "proposed", "finding", "comment", "block", "status"}
EventKinds == {"claim", "release", "finding", "comment", "block", "status", "help", "run"}

Lines  == [what : Entries, by : Agents, event : Ids \cup {None}]
Files  == [status : Statuses, owner : Agents \cup {None}, boxes : SUBSET Criteria, log : Seq(Lines),
           unlanded : BOOLEAN]
Events == [kind : EventKinds, by : Agents, about : Tasks, want : Statuses \cup {None},
           applied : BOOLEAN, dismissed : BOOLEAN, archived : BOOLEAN]

\* What instances have to provide.
Bounds == /\ TaskBounds /\ MaxEvents \in Nat /\ Kinds \in [Procs -> SUBSET EventKinds]
          /\ None \notin Ids /\ None \notin Events

VARIABLES
    event,      \* event[e]: [kind, by, about, want, applied, dismissed, archived], or None
    notes       \* how many notes were made from an event

evars == <<event, notes>>
vars == <<taskVars, evars>>

Known == {e \in Ids : event[e] # None}

\* Journal records are complete when written.
Journal(e) == event[e].kind = "run"

Pending(e) == ~event[e].applied /\ ~event[e].dismissed

Oldest(e, ids) == e \in ids /\ \A d \in ids : e <= d

-----------------------------------------------------------------------------
(* Append.                                                                 *)

Entry(kind, a, t, want) == [kind |-> kind, by |-> a, about |-> t, want |-> want,
                            applied |-> kind = "run", dismissed |-> FALSE, archived |-> FALSE]

Appended(kind, a, t, want) ==
    \E e \in Ids : Oldest(e, Ids \ Known) /\ event' = [event EXCEPT ![e] = Entry(kind, a, t, want)]

\* Findings, comments, releases and records of runs; acceptance proposals are
\* comments by convention.
Report(p, kind, t) ==
    /\ run[p] = Idle
    /\ Appended(kind, Who[p], t, IF kind = "status" THEN "active" ELSE None)
    /\ UNCHANGED <<taskVars, notes>>

\* A command of somebody who may not change the task.
Propose(p, cmd, t) ==
    /\ run[p] = Idle /\ cmd \in Commands[p] \cap Proposable
    /\ Passes(cmd, Who[p], task[t]) /\ ~Direct(cmd, Who[p], task[t])
    /\ Appended(IF cmd = "done" THEN "status" ELSE cmd, Who[p], t, IF cmd = "done" THEN "done" ELSE None)
    /\ UNCHANGED <<taskVars, notes>>

\* The question is recorded first; the task is blocked under its lock.
Ask(p, t) ==
    /\ run[p] = Idle /\ "ask" \in Commands[p]
    /\ Appended("help", Who[p], t, None)
    /\ run' = IF CanMutate(Who[p], task[t].owner) /\ task[t].status # "blocked"
              THEN [run EXCEPT ![p] = Locking("ask", t)]
              ELSE run
    /\ UNCHANGED <<task, lock, notes>>

\* An answer becomes a note, closes the question and unblocks the task.
Answer(p, q) ==
    /\ run[p] = Idle /\ "answer" \in Commands[p]
    /\ q \in Known /\ event[q].kind = "help" /\ Pending(q)
    /\ LET t == event[q].about IN
        /\ event' = [event EXCEPT ![q].applied = TRUE]
        /\ notes' = [notes EXCEPT ![q] = @ + 1]
        /\ run' = IF CanMutate(Who[p], task[t].owner) /\ task[t].status = "blocked"
                  THEN [run EXCEPT ![p] = Locking("answer", t)]
                  ELSE run
    /\ UNCHANGED <<task, lock>>

-----------------------------------------------------------------------------
(* Sync.                                                                   *)

\* The pending events.
SyncList(p) ==
    /\ run[p] = Idle /\ "sync" \in Commands[p]
    /\ run' = [run EXCEPT ![p] = [Idle EXCEPT !.pc = "index", !.cmd = "sync", !.todo = {e \in Known : Pending(e)}]]
    /\ UNCHANGED <<task, lock, evars>>

SyncIndex(p) ==
    /\ run[p].pc = "index"
    /\ run' = [run EXCEPT ![p].pc = "sync", ![p].index = task]
    /\ UNCHANGED <<task, lock, evars>>

\* logOnce: one line per event.
LogOnce(f, what, e) ==
    IF \E i \in DOMAIN f.log : f.log[i].event = e THEN f
    ELSE [f EXCEPT !.log = Append(@, Line(what, event[e].by, e))]

\* The other events stay pending.
Applies(e, f) ==
    \/ event[e].kind \in {"claim", "release", "finding", "comment", "block"}
    \/ event[e].kind = "status" /\ (event[e].want = "done" => Criteria # {} /\ f.boxes = Criteria)

\* The close by proposal stamps the log unless a stamp is there.
ProposedClose(e, f) ==
    LET g == LogOnce(f, "proposed", e) IN
    IF HasLine(g, "completed") THEN g ELSE Closed(g, event[e].by, Landing[event[e].about])

Materialised(e, f) ==
    LET by == event[e].by IN
    CASE event[e].kind = "claim"   -> [LogOnce(f, "claimed", e) EXCEPT !.owner = by]
      [] event[e].kind = "release" -> [LogOnce(f, "released", e) EXCEPT !.owner = None]
      [] event[e].kind = "status" /\ event[e].want = "done" -> ProposedClose(e, f)
      [] OTHER -> LogOnce(f, event[e].kind, e)

\* Where apply moves the task.
MovesTo(e, f) ==
    CASE event[e].kind = "claim" /\ f.status = "open" -> "active"
      [] event[e].kind = "release" -> "open"
      [] event[e].kind = "block" -> "blocked"
      [] event[e].kind = "status" /\ event[e].want = "done" ->
            IF HasLine(f, "completed") THEN "done" ELSE ClosesTo(f, Landing[event[e].about])
      [] event[e].kind = "status" /\ event[e].want # "done" -> event[e].want
      [] OTHER -> f.status

\* The close under a pull request policy is refused with its record saved, and
\* the refusal ends the sync.
RefusedClose(e, f) == /\ Landing[event[e].about] = "pr" /\ event[e].kind = "status" /\ event[e].want = "done"
                      /\ ~HasLine(f, "completed")

Popped(p, e) == [run[p] EXCEPT !.pc = "sync", !.todo = @ \ {e}, !.event = None, !.to = None]

\* The oldest first.  The owner is the indexed one, the task the one read again
\* under the lock.
SyncSave(p, e) ==
    LET r == run[p]  t == event[e].about  f == Fresh(t, r.index[t]) IN
    /\ r.pc = "sync" /\ Oldest(e, r.todo) /\ lock[t] = None
    /\ IF CanMutate(Who[p], r.index[t].owner) /\ Applies(e, f) /\ Len(f.log) + 1 < MaxLog
       THEN /\ task' = [task EXCEPT ![t] = Materialised(e, f)]
            /\ notes' = IF event[e].kind = "finding" /\ notes[e] = 0 THEN [notes EXCEPT ![e] = 1] ELSE notes
            /\ IF RefusedClose(e, f)
               THEN run' = [run EXCEPT ![p] = Idle] /\ UNCHANGED lock
               ELSE /\ lock' = [lock EXCEPT ![t] = p]
                    /\ run' = [run EXCEPT ![p].pc = "syncmove", ![p].event = e, ![p].to = MovesTo(e, f)]
       ELSE run' = [run EXCEPT ![p] = Popped(p, e)] /\ UNCHANGED <<task, lock, notes>>
    /\ UNCHANGED event

SyncMove(p) ==
    LET t == event[run[p].event].about IN
    /\ run[p].pc = "syncmove"
    /\ task' = [task EXCEPT ![t].status = run[p].to]
    /\ lock' = [lock EXCEPT ![t] = None]
    /\ run' = [run EXCEPT ![p].pc = "mark", ![p].index[t] = [task[t] EXCEPT !.status = run[p].to]]
    /\ UNCHANGED evars

\* MarkApplied rewrites the event where Sync found it.
SyncMark(p) ==
    LET e == run[p].event IN
    /\ run[p].pc = "mark"
    /\ IF event[e].archived THEN run' = [run EXCEPT ![p] = Idle] /\ UNCHANGED event
       ELSE event' = [event EXCEPT ![e].applied = TRUE] /\ run' = [run EXCEPT ![p] = Popped(p, e)]
    /\ UNCHANGED <<task, lock, notes>>

SyncEnd(p) == /\ run[p].pc = "sync" /\ run[p].todo = {} /\ run' = [run EXCEPT ![p] = Idle]
              /\ UNCHANGED <<task, lock, evars>>

-----------------------------------------------------------------------------
(* Dismissals and the journal plan.                                        *)

\* Withdrawn by its author, rejected by the task's owner.
Dismiss(p, e) ==
    /\ run[p] = Idle /\ "dismiss" \in Commands[p]
    /\ e \in Known /\ Pending(e) /\ ~Journal(e)
    /\ event[e].by = Who[p] \/ CanMutate(Who[p], task[event[e].about].owner)
    /\ event' = [event EXCEPT ![e].dismissed = TRUE]
    /\ UNCHANGED <<taskVars, notes>>

\* classifyJournalItem: what a plan does with an event.  Mailbox events still
\* at work are preserved.
Contested(e) ==
    LET mail == {d \in Known : event[d].about = event[e].about /\ ~event[d].applied /\ ~Journal(d)}
        rival == {d \in mail : event[d].kind \in {"claim", "block"}}
    IN /\ event[e].kind \in {"claim", "block"}
       /\ \/ Cardinality({event[d].kind : d \in rival}) > 1
          \/ Cardinality(mail) > 1 /\ Cardinality({event[d].by : d \in rival}) > 1

Superseded(e) == /\ event[e].kind = "status" /\ ~event[e].applied
                 /\ \E d \in Known : /\ d > e /\ event[d].kind = "status" /\ ~event[d].applied
                                    /\ event[d].about = event[e].about

Planned(e) ==
    LET unread == ~event[e].applied /\ ~Journal(e) IN
    IF Contested(e) THEN "preserve"
    ELSE IF Superseded(e) \/ (unread /\ task[event[e].about].status = "done") THEN "dismiss"
    ELSE IF unread /\ ~event[e].dismissed THEN "preserve" ELSE "archive"

\* ApplyJournalPlan, under its own lock: first the dismissals of the plan, then
\* its archival; each item is looked at again, and a changed one ends the run.
Items == {[id |-> e, action |-> Planned(e), was |-> event[e]] : e \in {d \in Known : ~event[d].archived}}

Before(i, j) == IF i.action = j.action THEN i.id <= j.id ELSE i.action = "dismiss"

JournalPlan(p) ==
    /\ run[p] = Idle /\ "journal" \in Commands[p]
    /\ \A q \in Procs : run[q].pc # "journal"
    /\ run' = [run EXCEPT ![p] = [Idle EXCEPT !.pc = "journal", !.cmd = "journal",
                 !.todo = {item \in Items : item.action # "preserve"}]]
    /\ UNCHANGED <<task, lock, evars>>

ItemAgrees(item) == IF item.action = "dismiss" THEN event[item.id].applied => event[item.id].dismissed
                                               ELSE event[item.id] = item.was

JournalItem(p, item) ==
    /\ run[p].pc = "journal" /\ item \in run[p].todo /\ \A other \in run[p].todo : Before(item, other)
    /\ IF ItemAgrees(item)
       THEN /\ event' = IF item.action = "dismiss" THEN [event EXCEPT ![item.id].dismissed = TRUE]
                                                  ELSE [event EXCEPT ![item.id].archived = TRUE]
            /\ run' = [run EXCEPT ![p].todo = @ \ {item}]
       ELSE run' = [run EXCEPT ![p] = Idle] /\ UNCHANGED event
    /\ UNCHANGED <<task, lock, notes>>

JournalEnd(p) == /\ run[p].pc = "journal" /\ run[p].todo = {} /\ run' = [run EXCEPT ![p] = Idle]
                 /\ UNCHANGED <<task, lock, evars>>

-----------------------------------------------------------------------------
Init == /\ TaskInit
        /\ event = [e \in Ids |-> None] /\ notes = [e \in Ids |-> 0]

Sync(p) == \/ SyncIndex(p) \/ SyncMove(p) \/ SyncMark(p) \/ SyncEnd(p)
           \/ \E e \in run[p].todo : SyncSave(p, e)

Acts(p) ==
    \/ TaskNext(p) /\ UNCHANGED evars
    \/ \E t \in Tasks : \/ Ask(p, t) \/ \E kind \in Kinds[p] : Report(p, kind, t)
                       \/ \E cmd \in Proposable : Propose(p, cmd, t)
    \/ \E e \in Ids : Answer(p, e) \/ Dismiss(p, e)
    \/ SyncList(p) \/ Sync(p)
    \/ JournalPlan(p) \/ (\E item \in run[p].todo : JournalItem(p, item)) \/ JournalEnd(p)

Next == \E p \in Procs : Acts(p)

Spec == Init /\ [][Next]_vars

-----------------------------------------------------------------------------
(* Properties.                                                             *)

TypeOK ==
    /\ task \in [Tasks -> Files] /\ lock \in [Tasks -> Procs \cup {None}]
    /\ event \in [Ids -> Events \cup {None}] /\ notes \in [Ids -> 0 .. 1]
    /\ DOMAIN run = Procs
    /\ \A p \in Procs : /\ DOMAIN run[p] = DOMAIN Idle
                         /\ run[p].pc \in {"idle", "lock", "move", "index", "sync", "syncmove", "mark", "journal"}

LinesOf(e) == {i \in DOMAIN task[event[e].about].log : task[event[e].about].log[i].event = e}

Syncable(e) == event[e].kind \in {"claim", "release", "finding", "comment", "block", "status"}

\* An event that is marked applied has its line in the log of its task, whoever
\* wrote the file in between, and whoever died (the lost line WithTask closes).
AppliedIsLogged == \A e \in Known : event[e].applied /\ Syncable(e) => LinesOf(e) # {}

\* However often an event is applied again, it leaves one line and one note.
LoggedOnce == \A e \in Known : Cardinality(LinesOf(e)) <= 1

\* All boxes are checked and a completion is on record, or the task has been
\* reopened since.
Verified(f) ==
    \/ f.boxes = Criteria /\ HasLine(f, "completed")
    \/ \E i \in DOMAIN f.log : f.log[i].what = "reopened" /\ \A k \in i .. Len(f.log) : f.log[k].what # "completed"

\* A task in the folder of the done ones is verified, or is being reopened.
DoneIsVerified == \A t \in Tasks : task[t].status = "done" => Verified(task[t])

\* What a journal plan has archived is finished work.
ArchivedIsFinished == \A e \in Known : event[e].archived => event[e].applied \/ event[e].dismissed

=============================================================================
