------------------------------ MODULE Planning ------------------------------
(***************************************************************************)
(* The task graph of a project: dependency edits, the ready frontier,      *)
(* aggregates and decompositions, delivery slices, claim expansions and    *)
(* removal (internal/store/dependency.go, readiness.go, aggregate.go,      *)
(* delivery_slices.go, claim_expansion.go, remove.go, features/planning,   *)
(* features/slices).                                                       *)
(*                                                                         *)
(* A command finds its task, decides, takes the lock of that one task,     *)
(* reads the project again and writes the task.  Nothing locks the graph.  *)
(* Edges go to stable task identities; a plan's identity is its content.   *)
(* The types FF and SF gate a start the way FS does and are left out.      *)
(***************************************************************************)
EXTENDS Integers, Sequences, FiniteSets, SequencesExt, FiniteSetsExt

CONSTANTS
    Uses,       \* subset of {"depend", "remove", "add", "split", "slices", "claims", "rm", "life", "work", "force", "crash"}
    Types,      \* types of the edges edited: subset of {"FS", "SS"}
    Procs,      \* the processes that run commands
    Base,       \* the tasks at the beginning
    Large,      \* those of them with an expected estimate above 8
    Shelved,    \* those that are loop anchors or have priority "wont"
    Spare,      \* identities for tasks and slices filed later, in order
    Kids,       \* Kids[n]: the stable child identities of the n-th decomposition plan
    Titles,     \* titles of slices
    Runs,       \* ended runs of the tasks in Base
    Paths,      \* claimable paths
    MaxEvents, MaxGen, MaxHead, MaxPRs

Ids == Base \cup Range(Spare) \cup UNION {Range(Kids[n]) : n \in DOMAIN Kids}
None == [none |-> TRUE]
Nobody == "nobody"

Bounds ==
    /\ Large \subseteq Base /\ Shelved \subseteq Base /\ Nobody \notin Ids \cup Procs
    /\ {MaxEvents, MaxGen, MaxHead, MaxPRs} \subseteq Nat

VARIABLES
    tasks,      \* the task files; status "absent" before, "removed" after
    lock,       \* lock[t]: the process inside WithTask of t
    sliceLock,  \* the process inside .delivery-slices.lock
    events,     \* dependency events not marked applied
    noted,      \* tasks some event is about
    plans,      \* the persisted decomposition plans
    grants,     \* grants[r]: the claim expansion of run r, or None
    heads,      \* heads[s]: the head of a slice's branch, 0 if there is none
    prs,        \* prs[s]: the pull requests of that branch, by number
    op,         \* what each process is doing
    told        \* the edges and claims whose command reported success

graph == <<tasks, lock>>
world == <<heads, prs>>
vars == <<tasks, lock, sliceLock, events, noted, plans, grants, heads, prs, op, told>>

Idle == [phase |-> "idle"]
Exists(ts, t) == ts[t].status \notin {"absent", "removed"}
Live(ts) == {t \in Ids : Exists(ts, t)}

(* A task as CreateTask files it. *)
Filed(parent, deps, slice) ==
    [status |-> "open", kind |-> "work", kids |-> <<>>, parent |-> parent, deps |-> deps,
     checked |-> FALSE, gen |-> 0, claims |-> {}, slice |-> slice, seen |-> None]

Init ==
    /\ tasks = [t \in Ids |-> IF t \in Base THEN Filed(Nobody, {}, None)
                              ELSE [Filed(Nobody, {}, None) EXCEPT !.status = "absent"]]
    /\ lock = [t \in Ids |-> Nobody] /\ sliceLock = Nobody
    /\ events = <<>> /\ noted = {} /\ plans = <<>>
    /\ grants = [r \in Runs |-> None]
    /\ heads = [t \in Ids |-> 0] /\ prs = [t \in Ids |-> <<>>]
    /\ op = [p \in Procs |-> Idle]
    /\ told = [edges |-> {}, claims |-> {}]

----------------------------------------------------------------------------
(* Dependencies. *)

TaskKind(f) == f.kind
Edge(to, type) == [to |-> to, type |-> type]

(* The tasks reachable from t over dependencies, t included. *)
RECURSIVE ReachFrom(_, _)
ReachFrom(ts, seen) ==
    LET next == seen \cup {d.to : d \in UNION {ts[t].deps : t \in seen}}
    IN IF next = seen THEN seen ELSE ReachFrom(ts, next)
Reachable(ts, t) == ReachFrom(ts, {t})

(* kahn: the tasks can be ordered iff none is reachable from its own        *)
(* dependencies.                                                            *)
ComputeCPM(ts, nodes) == \A t \in nodes : \A d \in ts[t].deps : t \notin Reachable(ts, d.to)

(* resolveDep: a stable identity names its task or nothing. *)
resolveDep(ts, to) == Exists(ts, to)

(* The edges of t after the change, or None if it is refused: every old and *)
(* new reference resolves, none is t, and what is reachable from t is       *)
(* resolved and acyclic.                                                    *)
Changed(deps, add, remove) == (deps \ remove) \cup add

(* Mutant: edges are only checked to resolve. *)
applyDependencyChangeUnordered(ts, t, add, remove) ==
    IF \A d \in ts[t].deps \cup add \cup remove : resolveDep(ts, d.to) /\ d.to # t
    THEN [deps |-> Changed(ts[t].deps, add, remove)] ELSE None

applyDependencyChange(ts, t, add, remove) ==
    LET deps == Changed(ts[t].deps, add, remove)
        after == [ts EXCEPT ![t].deps = deps]
    IN IF /\ \A d \in ts[t].deps \cup add \cup remove : resolveDep(ts, d.to) /\ d.to # t
          /\ \A u \in Reachable(after, t) : u # t => resolveDep(ts, u)
          /\ ComputeCPM(after, Reachable(after, t))
       THEN [deps |-> deps] ELSE None

DepBlocksStart(d) == d.type # "SS"

readyFrontier(ts) ==
    LET free == {t \in Live(ts) : ts[t].status = "open" /\ t \notin Shelved /\ TaskKind(ts[t]) # "aggregate"}
        gates(t) == {d \in ts[t].deps : DepBlocksStart(d)}
    IN [ready |-> {t \in free : \A d \in gates(t) : resolveDep(ts, d.to) /\ ts[d.to].status = "done"},
        problems |-> {t \in free : \E d \in gates(t) : ~resolveDep(ts, d.to)}]

----------------------------------------------------------------------------
(* WithTask around a dependency change.  An edit is                         *)
(*   [phase, t, add, remove, kids, event, made, copy]                       *)
(* kids # <<>> makes the task an aggregate; made are the children a failed  *)
(* decomposition takes back; copy is the caller's task.                     *)

EditOf(t, add, remove) ==
    [phase |-> "edit", t |-> t, add |-> add, remove |-> remove, kids |-> <<>>, event |-> None,
     made |-> {}, copy |-> tasks[t]]

(* WithTask: the file as it is now, or the caller's copy if it is gone. *)
Fresh(p) == IF Exists(tasks, op[p].t) THEN tasks[op[p].t] ELSE op[p].copy

Enter(p) ==
    /\ op[p].phase = "edit" /\ lock[op[p].t] = Nobody
    /\ lock' = [lock EXCEPT ![op[p].t] = p]
    /\ op' = [op EXCEPT ![p] = [phase |-> "inside", edit |-> op[p],
                                ts |-> [tasks EXCEPT ![op[p].t] = Fresh(p)]]]
    /\ UNCHANGED <<tasks, sliceLock, events, noted, plans, grants, world, told>>

Aggregated(f, kids) == IF kids = <<>> THEN f ELSE [f EXCEPT !.kind = "aggregate", !.kids = kids]

(* rollback of ApplyDecompositionPlan: the files it made, where it made them. *)
Rollback(ts, made) ==
    [t \in Ids |-> IF t \in made /\ ts[t].status = "open" THEN [ts[t] EXCEPT !.status = "removed"] ELSE ts[t]]

Apply(p) ==
    /\ op[p].phase = "inside"
    /\ LET e == op[p].edit
           result == applyDependencyChange(op[p].ts, e.t, e.add, e.remove)
       IN IF result = None
          THEN /\ tasks' = Rollback(tasks, e.made)
               /\ op' = [op EXCEPT ![p] = Idle] /\ UNCHANGED told
          ELSE /\ tasks' = [tasks EXCEPT ![e.t] = [Aggregated(op[p].ts[e.t], e.kids) EXCEPT !.deps = result.deps]]
               /\ told' = [told EXCEPT !.edges =
                     (@ \ {[from |-> e.t, dep |-> d] : d \in e.remove}) \cup
                     (IF e.event = None THEN {[from |-> e.t, dep |-> d] : d \in e.add} ELSE {})]
               /\ op' = [op EXCEPT ![p] = IF e.event = None THEN Idle ELSE [phase |-> "mark", edit |-> e]]
    /\ lock' = [lock EXCEPT ![op[p].edit.t] = Nobody]
    /\ UNCHANGED <<sliceLock, events, noted, plans, grants, world>>

Unmarked(e) == SelectSeq(events, LAMBDA x : x # e)

MarkApplied(p) ==
    /\ op[p].phase = "mark"
    /\ LET e == op[p].edit
       IN /\ events' = Unmarked(e.event)
          /\ told' = [told EXCEPT !.edges = @ \cup {[from |-> e.t, dep |-> d] : d \in e.add \cap tasks[e.t].deps}]
    /\ op' = [op EXCEPT ![p] = Idle]
    /\ UNCHANGED <<graph, sliceLock, noted, plans, grants, world>>

(* dacli task depend: the event first, then the owner's own edit of it; a   *)
(* caller who may not change the task leaves it at the event.               *)
cmdTaskDepend(p, t, add, remove) ==
    /\ "depend" \in Uses /\ op[p] = Idle /\ Exists(tasks, t) /\ Len(events) < MaxEvents
    /\ "remove" \in Uses \/ remove = {}
    /\ applyDependencyChange(tasks, t, add, remove) # None
    /\ LET e == [t |-> t, add |-> add, remove |-> remove]
       IN /\ e \notin Range(events)
          /\ events' = Append(events, e)
          /\ \/ op' = [op EXCEPT ![p] = [EditOf(t, add, remove) EXCEPT !.event = e]]
             \/ UNCHANGED op
    /\ noted' = noted \cup {t}
    /\ UNCHANGED <<graph, sliceLock, plans, grants, world, told>>

(* The owner's sync of a pending event; what no longer fits stays pending.  *)
SyncDependency(p) ==
    /\ op[p] = Idle /\ events # <<>>
    /\ \E i \in DOMAIN events :
          LET e == events[i]
          IN /\ Exists(tasks, e.t) /\ applyDependencyChange(tasks, e.t, e.add, e.remove) # None
             /\ \A j \in 1..(i - 1) : applyDependencyChange(tasks, events[j].t, events[j].add, events[j].remove) = None
             /\ op' = [op EXCEPT ![p] = [EditOf(e.t, e.add, e.remove) EXCEPT !.event = e]]
    /\ UNCHANGED <<graph, sliceLock, events, noted, plans, grants, world, told>>

(* The first identity of the pool that was never used. *)
Unused == {t \in Range(Spare) : tasks[t].status = "absent"}
NextId == Spare[CHOOSE i \in DOMAIN Spare : Spare[i] \in Unused /\ \A j \in 1..(i - 1) : Spare[j] \notin Unused]

(* dacli task add: only the types of the dependencies are checked. *)
cmdTaskAdd(p, deps, parent) ==
    /\ "add" \in Uses /\ op[p] = Idle /\ Unused # {}
    /\ parent # Nobody => Exists(tasks, parent)
    /\ tasks' = [tasks EXCEPT ![NextId] = Filed(parent, deps, None)]
    /\ UNCHANGED <<lock, sliceLock, events, noted, plans, grants, world, op, told>>

----------------------------------------------------------------------------
(* Aggregates. *)

Fact(f) == [parent |-> f.parent, kind |-> f.kind, status |-> f.status, deps |-> f.deps]
taskGraphDigest(ts) == [t \in Live(ts) |-> Fact(ts[t])]
ChildrenOf(ts, t) == {c \in Live(ts) : ts[c].parent = t}

(* The plans of a dry run, sealed by their content.  An aggregate's plan is  *)
(* kept as a record only; a decomposition's decides the children's names.   *)
BuildAggregateRepairPlan(t) ==
    IF ChildrenOf(tasks, t) = {} THEN None
    ELSE [kind |-> "aggregate", t |-> t, digest |-> taskGraphDigest(tasks), kids |-> SetToSeq(ChildrenOf(tasks, t))]

BuildDecompositionPlan(t) ==
    IF ChildrenOf(tasks, t) # {} \/ t \notin Large THEN None
    ELSE [kind |-> "decomposition", t |-> t, digest |-> taskGraphDigest(tasks), kids |-> <<>>]

(* Content-addressed: a plan is written once, an equal one is the same. *)
persistImmutablePlan(plan) == IF plan \in Range(plans) THEN plans ELSE Append(plans, plan)
Place(plan) == CHOOSE n \in DOMAIN persistImmutablePlan(plan) : persistImmutablePlan(plan)[n] = plan

FinishToStart(kids) == {Edge(c, "FS") : c \in Range(kids)}

(* The parent's edit that an aggregate plan stands for. *)
ApplyAggregateRepairPlan(plan) ==
    [EditOf(plan.t, FinishToStart(plan.kids), {}) EXCEPT !.kids = plan.kids]

(* dacli task aggregate --apply: the reviewed plan is applied only if it is  *)
(* still the plan of the current graph; any other is refused.               *)
cmdTaskAggregate(p, t) ==
    /\ "split" \in Uses /\ op[p] = Idle /\ Exists(tasks, t)
    /\ LET plan == BuildAggregateRepairPlan(t)
       IN /\ plan # None
          /\ applyDependencyChange(tasks, t, FinishToStart(plan.kids), {}) # None
          /\ op' = [op EXCEPT ![p] = ApplyAggregateRepairPlan(plan)]
    /\ UNCHANGED <<graph, sliceLock, events, noted, plans, grants, world, told>>

ApplyDecompositionPlan(plan) ==
    [phase |-> "create", t |-> plan.t, copy |-> tasks[plan.t], kids |-> Kids[Place(plan)], made |-> {}]

(* dacli task decompose --apply, likewise. *)
cmdTaskDecompose(p, t) ==
    /\ "split" \in Uses /\ op[p] = Idle /\ Exists(tasks, t)
    /\ LET plan == BuildDecompositionPlan(t)
       IN /\ plan # None /\ Place(plan) \in DOMAIN Kids
          /\ plans' = persistImmutablePlan(plan)
          /\ op' = [op EXCEPT ![p] = ApplyDecompositionPlan(plan)]
    /\ UNCHANGED <<graph, sliceLock, events, noted, grants, world, told>>

(* One child after the other; all but the first start with the first.  An   *)
(* identity that exists ends the call and takes back the children it made.  *)
CreateChild(p) ==
    /\ op[p].phase = "create"
    /\ LET r == op[p]  n == Cardinality(r.made) + 1
       IN IF n > Len(r.kids)
          THEN /\ op' = [op EXCEPT ![p] = [EditOf(r.t, FinishToStart(r.kids), {}) EXCEPT
                                           !.kids = r.kids, !.made = r.made, !.copy = r.copy]]
               /\ UNCHANGED tasks
          ELSE IF Exists(tasks, r.kids[n]) \/ ~Exists(tasks, r.t)
          THEN tasks' = Rollback(tasks, r.made) /\ op' = [op EXCEPT ![p] = Idle]
          ELSE /\ tasks' = [tasks EXCEPT ![r.kids[n]] =
                              Filed(r.t, IF n = 1 THEN {} ELSE {Edge(r.kids[1], "SS")}, None)]
               /\ op' = [op EXCEPT ![p].made = @ \cup {r.kids[n]}]
    /\ UNCHANGED <<lock, sliceLock, events, noted, plans, grants, world, told>>

(* A required child that keeps an aggregate open, and why. *)
Blocker(ts, c) ==
    CASE ~Exists(ts, c)             -> "missing"
      [] Exists(ts, c) /\ ts[c].status = "blocked" -> "blocked"
      [] Exists(ts, c) /\ ts[c].status \in {"open", "active"} -> "open"
      [] Exists(ts, c) /\ ts[c].status = "done" /\ ~ts[c].checked -> "unverified"
      [] OTHER -> "none"

AggregateProgressFor(ts, t) ==
    [blockers |-> {Blocker(ts, c) : c \in Range(ts[t].kids)} \ {"none"},
     ready |-> /\ ts[t].kids # <<>> /\ \A c \in Range(ts[t].kids) : Blocker(ts, c) = "none"]

RefuseIncompleteAggregate(ts, t) == TaskKind(ts[t]) = "aggregate" /\ ~AggregateProgressFor(ts, t).ready

----------------------------------------------------------------------------
(* Delivery slices. *)

DeliverySlices(ts, t) ==
    {s \in Live(ts) : ts[s].slice # None /\ ts[s].parent = t /\ ts[s].slice.pgen = ts[t].gen}

(* FindTask, before any lock. *)
cmdSliceAdd(p, t, title, required, terminal) ==
    /\ "slices" \in Uses /\ op[p] = Idle /\ Exists(tasks, t) /\ tasks[t].slice = None
    /\ op' = [op EXCEPT ![p] = [phase |-> "slice", t |-> t, copy |-> tasks[t], title |-> title,
                                required |-> required, terminal |-> terminal]]
    /\ UNCHANGED <<graph, sliceLock, events, noted, plans, grants, world, told>>

(* WithFileLock on .delivery-slices.lock. *)
MayLook == sliceLock = Nobody

(* Under the slice lock: a slice of this title is used again; otherwise a   *)
(* second terminal slice and a closed parent are refused.  status and       *)
(* generation are the caller's copy's.                                      *)
LookForSlice(p) ==
    /\ op[p].phase = "slice" /\ MayLook
    /\ LET r == op[p]
           rivals == {s \in Live(tasks) : /\ tasks[s].slice # None /\ tasks[s].parent = r.t
                                          /\ tasks[s].slice.pgen = r.copy.gen}
           same == {s \in rivals : tasks[s].slice.title = r.title}
           terminals == {s \in rivals : r.terminal /\ tasks[s].slice.terminal /\ tasks[s].slice.title # r.title}
           \* The loop reads the slices in order and stops at the first that decides.
           first == {s \in same : \A u \in terminals : tasks[u].slice.n > tasks[s].slice.n}
           linked(s) == IF r.required THEN [EditOf(r.t, {Edge(s, "FS")}, {}) EXCEPT !.copy = r.copy] ELSE Idle
       IN IF first # {}
          THEN /\ op' = [op EXCEPT ![p] = linked(CHOOSE s \in first : TRUE)]
               /\ UNCHANGED sliceLock
          ELSE IF terminals # {} \/ r.copy.status = "done" \/ Unused = {}
          THEN op' = [op EXCEPT ![p] = Idle] /\ UNCHANGED sliceLock
          ELSE /\ sliceLock' = p
               /\ op' = [op EXCEPT ![p] = [r EXCEPT !.phase = "file"] @@
                     [n |-> 1 + Max({0} \cup {tasks[s].slice.n : s \in rivals})]]
    /\ UNCHANGED <<graph, events, noted, plans, grants, world, told>>

CreateDeliverySlice(p) ==
    /\ op[p].phase = "file" /\ Unused # {}
    /\ LET r == op[p]  s == NextId
       IN /\ tasks' = [tasks EXCEPT ![s] = Filed(r.t, {}, [title |-> r.title, n |-> r.n, pgen |-> r.copy.gen,
                                                           required |-> r.required, terminal |-> r.terminal])]
          /\ op' = [op EXCEPT ![p] = IF r.required
                      THEN [EditOf(r.t, {Edge(s, "FS")}, {}) EXCEPT !.copy = r.copy] ELSE Idle]
    /\ sliceLock' = Nobody
    /\ UNCHANGED <<lock, events, noted, plans, grants, world, told>>

(* The branch of the slice's generation, GitHub and the operator's clone     *)
(* (external).                                                              *)
Newest(s) == Max({heads[s]} \cup {prs[s][i].head : i \in DOMAIN prs[s]})
Work(s) ==
    /\ tasks[s].slice # None /\ Exists(tasks, s)
    /\ \/ Newest(s) < MaxHead /\ heads' = [heads EXCEPT ![s] = Newest(s) + 1]
       \/ heads[s] # 0 /\ heads' = [heads EXCEPT ![s] = 0]
    /\ UNCHANGED <<graph, sliceLock, events, noted, plans, grants, prs, op, told>>

PullRequest(s) ==
    /\ \/ /\ heads[s] # 0 /\ Len(prs[s]) < MaxPRs
          /\ prs[s] # <<>> => Last(prs[s]).state # "open" /\ Last(prs[s]).head # heads[s]
          /\ prs' = [prs EXCEPT ![s] = Append(@, [head |-> heads[s], state |-> "open", gen |-> tasks[s].gen])]
       \/ /\ prs[s] # <<>> /\ Last(prs[s]).state = "open"
          /\ \E state \in {"merged", "closed"} : prs' = [prs EXCEPT ![s][Len(prs[s])].state = state]
    /\ UNCHANGED <<graph, sliceLock, events, noted, plans, grants, heads, op, told>>

(* The newest pull request; one that is not merged takes back the merge. *)
RecordDeliveryObservation(f, pr) == [f EXCEPT !.seen = [head |-> pr.head, merged |-> pr.state = "merged"]]

(* dacli slice reconcile: one GitHub snapshot, then each slice under its    *)
(* own lock.                                                                *)
cmdSliceReconcile(p, t) ==
    /\ "slices" \in Uses /\ op[p] = Idle /\ Exists(tasks, t)
    /\ LET slices == {s \in DeliverySlices(tasks, t) : prs[s] # <<>> /\ Last(prs[s]).gen = tasks[s].gen}
       IN /\ slices # {}
          /\ op' = [op EXCEPT ![p] = [phase |-> "observe", slices |-> SetToSeq(slices),
                                      prs |-> [s \in slices |-> Last(prs[s])]]]
    /\ UNCHANGED <<graph, sliceLock, events, noted, plans, grants, world, told>>

Observe(p) ==
    /\ op[p].phase = "observe"
    /\ LET s == Head(op[p].slices)  rest == Tail(op[p].slices)
       IN /\ lock[s] = Nobody
          /\ tasks' = [tasks EXCEPT ![s] = RecordDeliveryObservation(@, op[p].prs[s])]
          /\ op' = [op EXCEPT ![p] = IF rest = <<>> THEN Idle ELSE [@ EXCEPT !.slices = rest]]
    /\ UNCHANGED <<lock, sliceLock, events, noted, plans, grants, world, told>>

(* Landed: an observed merge, of the head the branch still has if it exists. *)
deliveryState(s) ==
    LET seen == tasks[s].seen IN seen # None /\ seen.merged /\ heads[s] \in {0, seen.head}

DeliveryProgressFor(t) ==
    \A s \in DeliverySlices(tasks, t) :
       tasks[s].slice.required => tasks[s].status = "done" /\ deliveryState(s) /\ tasks[s].checked

RefuseIncompleteDelivery(t) == DeliverySlices(tasks, t) # {} /\ ~DeliveryProgressFor(t)

----------------------------------------------------------------------------
(* The life of a task, under its lock: claimed, blocked, closed, reopened.  *)

Claim(t) == tasks[t].status = "open" /\ tasks' = [tasks EXCEPT ![t].status = "active"]
Block(t) == tasks[t].status \in {"open", "active"} /\ tasks' = [tasks EXCEPT ![t].status = "blocked"]

(* Closed with its boxes checked, or by an owner's explicit override. *)
closeTask(t) ==
    /\ tasks[t].status # "done"
    /\ ~RefuseIncompleteDelivery(t) /\ ~RefuseIncompleteAggregate(tasks, t)
    /\ \E checked \in {TRUE} \cup (IF "force" \in Uses THEN {FALSE} ELSE {}) : tasks' = [tasks EXCEPT ![t].status = "done", ![t].checked = checked]

ReopenTask(t) ==
    /\ tasks[t].status \in {"done", "blocked"} /\ tasks[t].gen < MaxGen
    /\ tasks' = [tasks EXCEPT ![t].status = "open", ![t].gen = @ + 1, ![t].checked = FALSE]

Lives(t) ==
    /\ "life" \in Uses /\ Exists(tasks, t) /\ lock[t] = Nobody
    /\ \/ (("work" \in Uses /\ (Claim(t) \/ Block(t))) \/ closeTask(t)) /\ UNCHANGED world
       \/ /\ ReopenTask(t)
          \* A slice's branch is named after its generation.
          /\ heads' = [heads EXCEPT ![t] = 0] /\ UNCHANGED prs
    /\ UNCHANGED <<lock, sliceLock, events, noted, plans, grants, op, told>>

(* RemoveTask: nothing depends on it and no record is about it; no lock. *)
taskReferrers(t) == {u \in Live(tasks) \ {t} : \E d \in tasks[u].deps : d.to = t} \cup (noted \cap {t})

cmdTaskRm(p, t) ==
    /\ "rm" \in Uses /\ op[p] = Idle /\ Exists(tasks, t)
    /\ taskReferrers(t) = {}
    /\ op' = [op EXCEPT ![p] = [phase |-> "rm", t |-> t]]
    /\ UNCHANGED <<graph, sliceLock, events, noted, plans, grants, world, told>>

RemoveTask(p) ==
    /\ op[p].phase = "rm"
    /\ tasks' = [tasks EXCEPT ![op[p].t].status = IF Exists(tasks, op[p].t) THEN "removed" ELSE @]
    /\ told' = [told EXCEPT !.edges = {e \in @ : e.from # op[p].t}]
    /\ op' = [op EXCEPT ![p] = Idle]
    /\ UNCHANGED <<lock, sliceLock, events, noted, plans, grants, world>>

----------------------------------------------------------------------------
(* Claim expansions.  A run may be expanded once; the plan is durable       *)
(* before the task changes.                                                 *)

claimExpansionID(r) == grants[r]

ExpandTaskClaims(p, t, r, add) ==
    /\ "claims" \in Uses /\ op[p] = Idle /\ Exists(tasks, t)
    /\ LET old == tasks[t].claims  new == old \cup add
       IN \/ /\ claimExpansionID(r) = None /\ new # old
             /\ grants' = [grants EXCEPT ![r] = [t |-> t, old |-> old, new |-> new, applied |-> FALSE]]
             /\ op' = [op EXCEPT ![p] = [phase |-> "expand", r |-> r]]
             /\ UNCHANGED told
          \* An applied expansion that covers the request is answered again.
          \/ /\ grants[r] # None /\ grants[r].t = t /\ grants[r].new = old /\ add \subseteq old
             /\ told' = [told EXCEPT !.claims = @ \cup {[t |-> t, paths |-> old]}]
             /\ UNCHANGED <<grants, op>>
    /\ UNCHANGED <<graph, sliceLock, events, noted, plans, world>>

Expanded(claims, plan) == IF claims \in {plan.old, plan.new} THEN plan.new ELSE claims

ApplyExpansion(p) ==
    /\ op[p].phase = "expand"
    /\ LET plan == grants[op[p].r]
           after == Expanded(tasks[plan.t].claims, plan)
       IN /\ lock[plan.t] = Nobody
          /\ tasks' = [tasks EXCEPT ![plan.t].claims = after]
          /\ op' = [op EXCEPT ![p] = IF after = plan.new THEN [@ EXCEPT !.phase = "applied"] ELSE Idle]
    /\ UNCHANGED <<lock, sliceLock, events, noted, plans, grants, world, told>>

RecordExpansion(p) ==
    /\ op[p].phase = "applied"
    /\ grants' = [grants EXCEPT ![op[p].r].applied = TRUE]
    /\ told' = [told EXCEPT !.claims = @ \cup {[t |-> grants[op[p].r].t, paths |-> grants[op[p].r].new]}]
    /\ op' = [op EXCEPT ![p] = Idle]
    /\ UNCHANGED <<graph, sliceLock, events, noted, plans, world>>

(* A process dies; its locks are stale and broken by the next comer. *)
Crash(p) ==
    /\ "crash" \in Uses /\ op[p] # Idle
    /\ op' = [op EXCEPT ![p] = Idle]
    /\ lock' = [t \in Ids |-> IF lock[t] = p THEN Nobody ELSE lock[t]]
    /\ sliceLock' = IF sliceLock = p THEN Nobody ELSE sliceLock
    /\ UNCHANGED <<tasks, events, noted, plans, grants, world, told>>

Next ==
    \/ \E p \in Procs :
          \/ Enter(p) \/ Apply(p) \/ MarkApplied(p) \/ SyncDependency(p) \/ Crash(p)
          \/ \E t \in Live(tasks), d \in Ids, y \in Types :
                cmdTaskDepend(p, t, {Edge(d, y)}, {}) \/ cmdTaskDepend(p, t, {}, {Edge(d, y)})
          \/ \E deps \in {{}} \cup {{Edge(d, "FS")} : d \in Live(tasks)}, parent \in Base \cup {Nobody} : cmdTaskAdd(p, deps, parent)
          \/ \E t \in Base : cmdTaskAggregate(p, t) \/ cmdTaskDecompose(p, t)
          \/ CreateChild(p)
          \/ \E t \in Base, title \in Titles, required, terminal \in BOOLEAN : cmdSliceAdd(p, t, title, required, terminal)
          \/ LookForSlice(p) \/ CreateDeliverySlice(p)
          \/ \E t \in Base : cmdSliceReconcile(p, t)
          \/ Observe(p)
          \/ \E t \in Ids : cmdTaskRm(p, t)
          \/ RemoveTask(p)
          \/ \E t \in Base, r \in Runs, add \in SUBSET Paths \ {{}} : ExpandTaskClaims(p, t, r, add)
          \/ ApplyExpansion(p) \/ RecordExpansion(p)
    \/ \E t \in Ids : Work(t) \/ PullRequest(t) \/ Lives(t)

Spec == Init /\ [][Next]_vars

----------------------------------------------------------------------------
(* What a command reported is not undone by another one that worked from an  *)
(* older copy: a confirmed edge stays until a command removes it or its      *)
(* task, and confirmed claims stay claimed.                                  *)
ConfirmedEditsStay ==
    /\ \A e \in told.edges : Exists(tasks, e.from) => e.dep \in tasks[e.from].deps
    /\ \A c \in told.claims : c.paths \subseteq tasks[c.t].claims

(* Work never waits for itself: while something is open and nobody works or  *)
(* is blocked, a task is ready, an aggregate can be closed, or the frontier  *)
(* or an aggregate's progress names what is wrong.                           *)
NoStall ==
    LET open == {t \in Live(tasks) : tasks[t].status = "open"}
        milestones == {t \in open : TaskKind(tasks[t]) = "aggregate"}
    IN open # {} /\ (\A t \in Live(tasks) : tasks[t].status \notin {"active", "blocked"}) =>
          \/ readyFrontier(tasks).ready # {} \/ readyFrontier(tasks).problems # {}
          \/ open \cap Shelved # {}
          \/ \E t \in milestones : \/ AggregateProgressFor(tasks, t).ready
                                   \/ AggregateProgressFor(tasks, t).blockers \cap {"missing", "unverified"} # {}

(* However often adding a slice is repeated or cut off, a parent generation  *)
(* has one slice of a title, one terminal slice and no number twice.         *)
OneSlicePerTitle ==
    \A s, u \in Live(tasks) :
       s # u /\ tasks[s].slice # None /\ tasks[u].slice # None
       /\ tasks[s].parent = tasks[u].parent /\ tasks[s].slice.pgen = tasks[u].slice.pgen
       => /\ tasks[s].slice.title # tasks[u].slice.title
          /\ tasks[s].slice.n # tasks[u].slice.n
          /\ ~(tasks[s].slice.terminal /\ tasks[u].slice.terminal)

(* A parent with slices is closed only over merged work: each required slice *)
(* has a merged pull request of the very head its branch has, if it has one. *)
ClosesOverMerged ==
    \A t \in Ids : tasks[t].status \notin {"done", "absent"} /\ tasks'[t].status = "done" =>
       \A s \in DeliverySlices(tasks, t) : tasks[s].slice.required /\ heads[s] # 0 =>
          \E i \in DOMAIN prs[s] : prs[s][i].state = "merged" /\ prs[s][i].head = heads[s]

=============================================================================
