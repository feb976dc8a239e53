----------------------------- MODULE Admission -----------------------------
(***************************************************************************)
(* What decides whether a task may be handed to a worker, and to which     *)
(* role: the owner's budget, the preflight of the complete loop, the model *)
(* routing.  A wave is planned and reserved in one transaction; a worker   *)
(* is launched in a later one, which must find again what was reserved.    *)
(* One project; roles are numbered in the order of their names.            *)
(***************************************************************************)
EXTENDS Naturals, Sequences, FiniteSetsExt, SequencesExt

CONSTANTS
    Order,          \* the tasks, by priority
    Roles,          \* 1..n
    Fits,           \* the largest size each role takes, 0 for any (role -> points)
    Tier,           \* the cost tier and difficulty of each role
    Tokens,         \* the owner's estimate of an implementation by each role
    Slots,          \* how many tasks each role works on at once
    Dispatches, Keys,
    Budgets,        \* policies the owner may configure:
                    \*   [rev, cycle, cycleLimit, windowLimit, floor, routes, expires, cooldown]
    Preflights,     \*   [rev, role, retries, expires]
    Routings,       \*   [rev, available (a set of roles), rounds, expires]
    Sizes, Window, Width, MaxNow, MaxChanges,
    None

Tasks == Range(Order)
Phases == {"implementation", "review", "recovery"}

Bounds ==
    /\ \A p \in Budgets : p.floor < p.cycleLimit /\ p.floor < p.windowLimit /\ p.cooldown <= p.expires
    /\ \A r \in Roles : Tier[r] > 0 /\ Tokens[r] > 0

VARIABLES
    now, changes,       \* the clock; how often the world changed (a bound)
    budget, budgets,    \* the policy in force, and every one configured
    preflightPolicy, preflights, routing, routings,
    stopped,            \* STOP of the swarm
    points, facts, readiness,   \* of each task: its size, what else is observed of it, and how ready the loop is
    overrides,          \* size-only exceptions the owner recorded
    retries, receipts,  \* transient refusals per policy revision and task; recorded checks
    selections,         \* routing decisions of correction rounds
    dispatches          \* reservations, each with its allocation and what it was reserved on

policyVars == <<budget, budgets, preflightPolicy, preflights, routing, routings, stopped>>
worldVars == <<points, facts, readiness>>
vars == <<now, changes, policyVars, worldVars, overrides, retries, receipts, selections, dispatches>>

-----------------------------------------------------------------------------
(* The ledger.                                                             *)

Allocated == {d \in Dispatches : dispatches[d] # None}
Sum(S, f(_)) == MapThenSumSet(f, S)
Entries == {<<d, ph>> : d \in Allocated, ph \in Phases}
Entry(e) == dispatches[e[1]].phases[e[2]]
EntryTokens(e) == Entry(e).tokens

Outstanding == {e \in Entries : Entry(e).state # "charged"}
InWindow == {e \in Entries : Entry(e).state = "charged" /\ Entry(e).at + Window > now}
InCycle(c) == {e \in Entries : Entry(e).state = "charged" /\ dispatches[e[1]].cycle = c}

\* What is outstanding burdens every cycle; a charge, only the cycle it was reserved in.
budgetStatus(p) == [window |-> Sum(Outstanding \cup InWindow, EntryTokens),
                    cycle |-> Sum(Outstanding \cup InCycle(p.cycle), EntryTokens)]
Remaining(limit, used) == IF used > limit THEN 0 ELSE limit - used
Headroom(p) == LET s == budgetStatus(p) IN
    Min({Remaining(p.windowLimit, s.window), Remaining(p.cycleLimit, s.cycle)})

Estimate(role) == [ph \in Phases |-> IF ph = "implementation" THEN Tokens[role] ELSE 1]
Total(role) == Sum(Phases, LAMBDA ph : Estimate(role)[ph])

\* The owner's policy admits work now.
budgetOpen(p) == ~stopped /\ now < p.expires /\ now >= p.cooldown

\* already is the cost of the tasks selected before in the same wave.
calculateBudgetQuote(p, role, already) ==
    budgetOpen(p) /\ already + Total(role) + p.floor <= Headroom(p)
quoteBudget(role, already) ==
    budget # None => role \in budget.routes /\ calculateBudgetQuote(budget, role, already)

budgetDispatchCurrent(d) ==
    budget # None =>
        /\ d.budget = budget.rev /\ budgetOpen(budget)
        /\ LET s == budgetStatus(budget) IN
            s.window + budget.floor <= budget.windowLimit /\ s.cycle + budget.floor <= budget.cycleLimit
        /\ d.phases["implementation"].state = "reserved"

-----------------------------------------------------------------------------
(* Preflight: one report about the complete loop.                          *)

\* The specification the report is about: the fixed role's, or a routed candidate's.
routingPreflightSpec(role) ==
    /\ preflightPolicy # None
    /\ IF routing = None THEN role = preflightPolicy.role
       ELSE now < routing.expires /\ role \in routing.available

TaskCapacity(role, n) == Fits[role] = 0 \/ n <= Fits[role]
Applies(o, t, role) ==
    /\ o.task = t /\ o.role = role /\ o.rev = preflightPolicy.rev
    /\ o.facts = facts[t] /\ o.points = points[t] /\ now < o.expires
\* The applying exception that lasts longest.
Override(t, role) ==
    LET fit == {o \in overrides : Applies(o, t, role)}
    IN  IF fit = {} THEN None ELSE CHOOSE o \in fit : \A x \in fit : x.expires <= o.expires

Expiry(t, role) == Min({preflightPolicy.expires}
    \cup (IF routing = None THEN {} ELSE {routing.expires})
    \cup (IF TaskCapacity(role, points[t]) \/ Override(t, role) = None THEN {} ELSE {Override(t, role).expires}))
RetriesLeft(t) == retries[preflightPolicy.rev][t] <= preflightPolicy.retries

Permanent(t, role) ==
    \/ ~routingPreflightSpec(role) \/ now >= preflightPolicy.expires
    \/ readiness[t] = "blocked" \/ ~RetriesLeft(t) \/ now >= Expiry(t, role)
    \/ ~TaskCapacity(role, points[t]) /\ Override(t, role) = None

preflight(t, role) ==
    IF Permanent(t, role) THEN [class |-> "permanent", proof |-> None]
    ELSE [class |-> IF readiness[t] = "transient" THEN "transient" ELSE "allowed",
          proof |-> [rev |-> preflightPolicy.rev, routing |-> IF routing = None THEN 0 ELSE routing.rev, role |-> role,
                     facts |-> facts[t], points |-> points[t],
                     override |-> IF TaskCapacity(role, points[t]) THEN None ELSE Override(t, role),
                     expires |-> Expiry(t, role)]]

\* A dispatch is still what was reserved.
dispatchPreflightAny(d) == preflight(d.task, d.role).class = "allowed"
dispatchPreflight(d) == preflight(d.task, d.role) = [class |-> "allowed", proof |-> d.proof]
modelRoutingCurrent(d) ==
    IF d.routing = 0 THEN routing = None
    ELSE routing # None /\ routing.rev = d.routing /\ now < routing.expires /\ d.role \in routing.available
preflightBoundCurrent(d) == modelRoutingCurrent(d) /\ now < d.proof.expires

-----------------------------------------------------------------------------
(* Model routing.                                                          *)

\* A harder route, once decided, stays until the owner configures a new revision.
minimumTier(t) == Max({0} \cup {s.tier : s \in {x \in selections : x.task = t /\ x.rev = routing.rev}})

\* used: how many tasks each role has; previous: the role that failed in a correction round.
Eligible(t, role, used, round, previous) ==
    /\ preflight(t, role).class = "allowed" /\ Tier[role] >= minimumTier(t)
    /\ round > 0 => previous \in routing.available /\ Tier[role] > Tier[previous]
    /\ quoteBudget(role, 0) /\ used[role] < Slots[role]
    /\ TaskCapacity(role, points[t])        \* Strategy knows of no exception

\* Strategy.Select: the cheapest eligible role, then the first by name.
selectModelRouting(t, used, round, previous) ==
    LET able == {r \in routing.available : Eligible(t, r, used, round, previous)}
    IN  IF now >= routing.expires \/ round > routing.rounds \/ able = {} THEN None
        ELSE CHOOSE r \in able : \A x \in able : Tier[r] < Tier[x] \/ (Tier[r] = Tier[x] /\ r <= x)

-----------------------------------------------------------------------------
(* Planning and reserving a wave.                                          *)

Retained == {d \in Allocated : dispatches[d].state # "released"}
Occupied == {dispatches[d].task : d \in Retained}
swarmOccupancy == [r \in Roles |-> Cardinality({d \in Retained : dispatches[d].role = r})]

\* Known-zero headroom halts before any role is chosen.
HeadroomGone == budget # None /\ Headroom(budget) <= budget.floor

Verdict(plan, t) ==
    LET role == IF preflightPolicy = None THEN None
                ELSE IF routing = None
                THEN (IF plan.used[preflightPolicy.role] < Slots[preflightPolicy.role] THEN preflightPolicy.role ELSE None)
                ELSE selectModelRouting(t, plan.used, 0, None)
    IN  IF \/ t \in Occupied \/ Len(plan.wave) >= Width \/ HeadroomGone \/ role = None
        THEN plan
        ELSE IF preflight(t, role).class # "allowed" \/ ~quoteBudget(role, plan.prior) THEN plan
        ELSE [wave |-> Append(plan.wave, <<t, role>>), used |-> [plan.used EXCEPT ![role] = @ + 1],
              prior |-> plan.prior + IF budget = None THEN 0 ELSE Total(role)]

planSwarmLimited == FoldLeft(Verdict, [wave |-> <<>>, used |-> swarmOccupancy, prior |-> 0], Order).wave

allocateBudget(t, role) ==
    [task |-> t, role |-> role, state |-> "reserved", proof |-> preflight(t, role).proof,
     routing |-> IF routing = None THEN 0 ELSE routing.rev,
     budget |-> IF budget = None THEN 0 ELSE budget.rev, cycle |-> IF budget = None THEN None ELSE budget.cycle,
     phases |-> [ph \in Phases |-> [tokens |-> IF budget = None THEN 0 ELSE Estimate(role)[ph],
                                    state |-> "reserved", at |-> 0]]]

\* Identifiers are minted in order.
Unused == SetToSortSeq({d \in Dispatches : dispatches[d] = None}, <)
ReserveWave ==
    /\ ~stopped
    /\ \E wave \in {planSwarmLimited} :
        /\ wave # <<>> /\ Len(wave) <= Len(Unused)
        /\ dispatches' = [d \in Dispatches |->
                IF \E i \in DOMAIN wave : Unused[i] = d
                THEN LET i == CHOOSE j \in DOMAIN wave : Unused[j] = d IN allocateBudget(wave[i][1], wave[i][2])
                ELSE dispatches[d]]
    /\ UNCHANGED <<now, changes, policyVars, worldVars, overrides, retries, receipts, selections>>

\* admitDispatch and the conversion of the reservation into a lease.
AdmitSpawn(d) ==
    /\ dispatches[d] # None /\ dispatches[d].state = "reserved" /\ ~stopped
    /\ budgetDispatchCurrent(dispatches[d]) /\ dispatchPreflight(dispatches[d]) /\ preflightBoundCurrent(dispatches[d])
    /\ dispatches' = [dispatches EXCEPT ![d].state = "launched"]
    /\ UNCHANGED <<now, changes, policyVars, worldVars, overrides, retries, receipts, selections>>

\* The lease ended or the reservation was recovered; the liability is not touched.
Release(d) ==
    /\ d \in Retained /\ dispatches' = [dispatches EXCEPT ![d].state = "released"]
    /\ UNCHANGED <<now, changes, policyVars, worldVars, overrides, retries, receipts, selections>>

\* The bounded controller asks for a harder route after a failure or a rejection.
controllerCorrection(d, round) ==
    /\ routing # None /\ dispatches[d] # None /\ dispatches[d].state = "launched"
    /\ LET role == selectModelRouting(dispatches[d].task, [r \in Roles |-> 0], round, dispatches[d].role) IN
        /\ role # None
        /\ selections' = selections \cup {[task |-> dispatches[d].task, rev |-> routing.rev, tier |-> Tier[role]]}
    /\ selections' # selections
    /\ UNCHANGED <<now, changes, policyVars, worldVars, overrides, retries, receipts, dispatches>>

-----------------------------------------------------------------------------
(* Settlement.                                                             *)

\* What a producer of the authority may say of a phase: nothing yet of one that
\* did not start, and never anything terminal of a recovery.
budgetProducerOutcome(d, ph) ==
    IF dispatches[d] = None THEN {}
    ELSE IF dispatches[d].state = "reserved" \/ ph = "recovery" THEN {} ELSE {"completed", "unknown"}

\* An unknown outcome keeps the liability; the first terminal one (the work
\* completed or failed) is charged, once.
SettleBudget(d, ph, outcome) ==
    /\ outcome \in budgetProducerOutcome(d, ph) /\ budget # None
    /\ dispatches[d].phases[ph].state \notin {"charged", IF outcome = "unknown" THEN "unknown-retained" ELSE "charged"}
    /\ dispatches' = [dispatches EXCEPT ![d].phases[ph] =
            [@ EXCEPT !.state = IF outcome = "unknown" THEN "unknown-retained" ELSE "charged",
                      !.at = IF outcome = "unknown" THEN 0 ELSE now]]
    /\ UNCHANGED <<now, changes, policyVars, worldVars, overrides, retries, receipts, selections>>

-----------------------------------------------------------------------------
(* What the owner configures, and the world.                               *)

\* An identifier of a revision is used once; a repetition changes nothing.
NewRevision(p, history) == \A old \in history : old.rev # p.rev

ConfigureBudget(p) ==
    /\ NewRevision(p, budgets) /\ now < p.expires
    /\ budget # None => (budget.cycle = p.cycle => budget.cycleLimit = p.cycleLimit)
    /\ budget' = p /\ budgets' = budgets \cup {p}
    /\ UNCHANGED <<now, changes, preflightPolicy, preflights, routing, routings, stopped, worldVars, overrides, retries,
                   receipts, selections, dispatches>>

ConfigurePreflight(p) ==
    /\ NewRevision(p, preflights) /\ now < p.expires
    /\ preflightPolicy' = p /\ preflights' = preflights \cup {p}
    /\ UNCHANGED <<now, changes, budget, budgets, routing, routings, stopped, worldVars, overrides, retries, receipts,
                   selections, dispatches>>

ConfigureNativeModelRouting(p) ==
    /\ preflightPolicy # None /\ NewRevision(p, routings) /\ now < p.expires
    /\ routing' = p /\ routings' = routings \cup {p}
    /\ UNCHANGED <<now, changes, budget, budgets, preflightPolicy, preflights, stopped, worldVars, overrides, retries,
                   receipts, selections, dispatches>>

StopSwarm ==
    /\ changes < MaxChanges /\ changes' = changes + 1 /\ stopped' = ~stopped
    /\ UNCHANGED <<now, budget, budgets, preflightPolicy, preflights, routing, routings, worldVars, overrides, retries,
                   receipts, selections, dispatches>>

\* The exception is bound to what was observed when it was recorded.
OverrideCapacity(t, role, until) ==
    /\ preflightPolicy # None /\ routingPreflightSpec(preflightPolicy.role) /\ now < until /\ until <= preflightPolicy.expires
    /\ ~TaskCapacity(role, points[t])
    /\ overrides' = overrides \cup {[task |-> t, role |-> role, rev |-> preflightPolicy.rev, facts |-> facts[t],
                                     points |-> points[t], expires |-> until]}
    /\ UNCHANGED <<now, changes, policyVars, worldVars, retries, receipts, selections, dispatches>>

\* A transient refusal uses up a retry, durably; the one too many is permanent.
CheckPreflight(t, k) ==
    LET class == preflight(t, preflightPolicy.role).class
        transient == class = "transient"
    IN  /\ preflightPolicy # None /\ receipts[k] = None
        /\ retries' = IF transient THEN [retries EXCEPT ![preflightPolicy.rev][t] = @ + 1] ELSE retries
        /\ receipts' = [receipts EXCEPT ![k] = [task |-> t, rev |-> preflightPolicy.rev, class |->
                IF transient /\ retries[preflightPolicy.rev][t] >= preflightPolicy.retries THEN "permanent" ELSE class]]
        /\ UNCHANGED <<now, changes, policyVars, worldVars, overrides, selections, dispatches>>

\* People edit the task, the roster or a profile; a service comes and goes.
WorldChanges(t) ==
    /\ changes < MaxChanges /\ changes' = changes + 1
    /\ \/ \E n \in Sizes \ {points[t]} : points' = [points EXCEPT ![t] = n] /\ UNCHANGED <<facts, readiness>>
       \/ facts' = [facts EXCEPT ![t] = 1 - @] /\ UNCHANGED <<points, readiness>>
       \/ \E r \in {"ready", "transient", "blocked"} \ {readiness[t]} :
              readiness' = [readiness EXCEPT ![t] = r] /\ UNCHANGED <<points, facts>>
    /\ UNCHANGED <<now, policyVars, overrides, retries, receipts, selections, dispatches>>

Tick == now < MaxNow /\ now' = now + 1
        /\ UNCHANGED <<changes, policyVars, worldVars, overrides, retries, receipts, selections, dispatches>>

-----------------------------------------------------------------------------
Init ==
    /\ now = 0 /\ changes = 0 /\ budget = None /\ budgets = {} /\ preflightPolicy = None /\ preflights = {}
    /\ routing = None /\ routings = {} /\ stopped = FALSE
    /\ points \in [Tasks -> Sizes] /\ facts = [t \in Tasks |-> 0] /\ readiness = [t \in Tasks |-> "ready"]
    /\ overrides = {} /\ retries = [v \in {p.rev : p \in Preflights} |-> [t \in Tasks |-> 0]]
    /\ receipts = [k \in Keys |-> None] /\ selections = {} /\ dispatches = [d \in Dispatches |-> None]

Next ==
    \/ ReserveWave \/ StopSwarm \/ Tick
    \/ \E p \in Budgets : ConfigureBudget(p)
    \/ \E p \in Preflights : ConfigurePreflight(p)
    \/ \E p \in Routings : ConfigureNativeModelRouting(p)
    \/ \E t \in Tasks : WorldChanges(t)
    \/ \E t \in Tasks, k \in Keys : CheckPreflight(t, k)
    \/ \E t \in Tasks, r \in Roles, n \in 1..MaxNow : OverrideCapacity(t, r, n)
    \/ \E d \in Dispatches : AdmitSpawn(d) \/ Release(d)
    \/ \E d \in Dispatches, n \in 1..2 : controllerCorrection(d, n)
    \/ \E d \in Dispatches, ph \in Phases, o \in {"completed", "unknown"} : SettleBudget(d, ph, o)

Spec == Init /\ [][Next]_vars

-----------------------------------------------------------------------------
\* What is reserved and charged never exceeds the limits: the cost of every
\* allocation of a cycle, with the floor kept for recovery, fits a limit the
\* owner set for that cycle, and what is outstanding or was charged within the
\* window fits a window limit, whatever waves, settlements and policies follow.
BudgetKept ==
    LET Of(c) == {e \in Entries : dispatches[e[1]].cycle = c} IN
    /\ \A c \in {dispatches[d].cycle : d \in Allocated} \ {None} :
        \E p \in budgets : p.cycle = c /\ Sum(Of(c), EntryTokens) + p.floor <= p.cycleLimit
    /\ budgets # {} => \E p \in budgets : Sum(Outstanding \cup InWindow, EntryTokens) <= p.windowLimit

\* A harder route that a correction decided is not undone: under the same
\* routing revision every later reservation of the task takes a role at least
\* that hard.
KeepsTier == \A d \in Dispatches : dispatches[d] = None /\ dispatches'[d] # None /\ routing # None =>
    \A s \in selections : s.task = dispatches'[d].task /\ s.rev = routing.rev => Tier[dispatches'[d].role] >= s.tier
HarderTierStays == [][KeepsTier]_vars

\* A worker starts on exactly what its reservation was decided on: the task, the
\* role's size, the exception and the policies are those of the reservation.
StartsAsReserved == \A d \in Dispatches :
    dispatches[d] # None /\ dispatches[d].state = "reserved" /\ dispatches'[d].state = "launched" =>
        LET r == dispatches[d].proof IN
        /\ facts[dispatches[d].task] = r.facts /\ points[dispatches[d].task] = r.points /\ preflightPolicy.rev = r.rev
        /\ (budget # None => dispatches[d].budget = budget.rev) /\ now < r.expires
LaunchedAsReserved == [][StartsAsReserved]_vars

\* Transient refusals end: a policy revision grants each task its retries once.
RetriesBounded == \A p \in preflights, t \in Tasks : retries[p.rev][t] <= p.retries + 1

\* A cycle's limit is fixed once and for all.
CycleLimitFixed == \A p, q \in budgets : p.cycle = q.cycle => p.cycleLimit = q.cycleLimit

=============================================================================
