----------------------------- MODULE MCControl ------------------------------
(***************************************************************************)
(* The bounded controller, the effects the owner lets it have, and what    *)
(* admits work: budgets, preflight and model routing.  Each is explored    *)
(* with the others at rest: `part` is the one that moves, and an instance  *)
(* of it in which a case of its own happens.  The integration is this      *)
(* module's own: fast-forwards of two tasks, each pinned up to twice, and  *)
(* the push and the pull request of one delivery.                          *)
(***************************************************************************)
EXTENDS Integration, TLC

VARIABLES
    part,
    work, done, stop, governing, alive, late, ready, receipts, backoff, checkpoint, gate, news, neighbours, inv, waves, permits,
    now, changes, budget, budgets, preflightPolicy, preflights, routing, routings, stopped, points, facts, readiness,
    overrides, retries, checks, selections, dispatches

cVars == <<work, done, stop, governing, alive, late, ready, receipts, backoff, checkpoint, gate, news, neighbours, inv, waves, permits>>
aVars == <<now, changes, budget, budgets, preflightPolicy, preflights, routing, routings, stopped, points, facts, readiness,
           overrides, retries, checks, selections, dispatches>>

-----------------------------------------------------------------------------
\* Two invocations, one after the other, over one task.
Alone == INSTANCE Controller WITH
    policy <- governing, foreign <- neighbours,
    Order <- <<"t1">>, Invocations <- 1 .. 2, MaxWaves <- 2, MaxConcurrency <- 2, MaxCorrections <- 1, MaxNoProgress <- 2,
    TransientRetries <- 1, MaxCycles <- 2, MaxIdle <- 2, MaxRevision <- 1, MaxReceipts <- 0, MaxForeign <- 0, Events <- {}

\* Two tasks that one worker at a time may take.
Pair == INSTANCE Controller WITH
    policy <- governing, foreign <- neighbours,
    Order <- <<"t1", "t2">>, Invocations <- {1}, MaxWaves <- 2, MaxConcurrency <- 1, MaxCorrections <- 1, MaxNoProgress <- 1,
    TransientRetries <- 1, MaxCycles <- 2, MaxIdle <- 2, MaxRevision <- 1, MaxReceipts <- 0, MaxForeign <- 0, Events <- {}

\* Another session of the project reserves waves too.
Shared == INSTANCE Controller WITH
    policy <- governing, foreign <- neighbours,
    Order <- <<"t1">>, Invocations <- {1}, MaxWaves <- 2, MaxConcurrency <- 2, MaxCorrections <- 1, MaxNoProgress <- 2,
    TransientRetries <- 1, MaxCycles <- 2, MaxIdle <- 2, MaxRevision <- 1, MaxReceipts <- 0, MaxForeign <- 1, Events <- {}

\* Anything the owner, the clocks and the leases do comes in between.
Disturbed == INSTANCE Controller WITH
    policy <- governing, foreign <- neighbours,
    Order <- <<"t1">>, Invocations <- {1}, MaxWaves <- 1, MaxConcurrency <- 1, MaxCorrections <- 1, MaxNoProgress <- 1,
    TransientRetries <- 1, MaxCycles <- 1, MaxIdle <- 1, MaxRevision <- 1, MaxReceipts <- 1, MaxForeign <- 0,
    Events <- {"stop", "policy", "session", "deadline", "lapse", "release"}

TaskOfKey == ("k1" :> "a") @@ ("k3" :> "b") @@ [k \in {"e1", "e2"} |-> "a"]
KindOfKey == [k \in {"k1", "k3"} |-> "local"] @@ ("e1" :> "push") @@ ("e2" :> "create_pr")

\* Local fast-forwards, while others commit, edit and check out.
Local == /\ remote' = remote /\ policy'["external"] = policy["external"]
         /\ \A p \in Procs : proc'[p].key \in {"k1", "k3", None}

\* One delivery, pinned once, while others push and merge.
External == /\ trunk' = trunk /\ worktree' = worktree /\ policy'["local"] = policy["local"]
            /\ candidate'["b"] = candidate["b"] /\ review'["b"] = review["b"] /\ "b" \in live'
            /\ Rev("external", "a")' <= 1 /\ Rev("external", "b")' = 0
            /\ \A p \in Procs : proc'[p].key \in {"e1", "e2", None}

Cycle(rev, id, limit, routes, cooldown) ==
    [rev |-> rev, cycle |-> id, cycleLimit |-> limit, windowLimit |-> IF rev = 2 THEN 8 ELSE 7, floor |-> 1, routes |-> routes,
     expires |-> 3, cooldown |-> cooldown]
FixedRole == {[rev |-> 1, role |-> 1, retries |-> 0, expires |-> 3]}

\* Two tasks under budgets the owner replaces.
Budgeted == INSTANCE Admission WITH
    receipts <- checks,
    Order <- <<"t1", "t2">>, Roles <- 1 .. 2, Fits <- <<1, 0>>, Tier <- <<1, 2>>, Tokens <- <<1, 2>>, Slots <- <<2, 2>>,
    Dispatches <- 1 .. 2, Keys <- {},
    Budgets <- {Cycle(1, "a", 8, 1 .. 2, 0), Cycle(2, "b", 8, 1 .. 2, 1), Cycle(3, "a", 9, {1}, 0)},
    Preflights <- FixedRole, Routings <- {}, Sizes <- {1}, Window <- 1, Width <- 2, MaxNow <- 2, MaxChanges <- 0

\* One task that grows, with a routing of two roles.
Routed == INSTANCE Admission WITH
    receipts <- checks,
    Order <- <<"t1">>, Roles <- 1 .. 2, Fits <- <<1, 0>>, Tier <- <<1, 2>>, Tokens <- <<1, 2>>, Slots <- <<2, 2>>,
    Dispatches <- 1 .. 2, Keys <- {"k1", "k2"},
    Budgets <- {}, Preflights <- FixedRole,
    Routings <- {[rev |-> 1, available |-> 1 .. 2, rounds |-> 1, expires |-> 3]},
    Sizes <- 1 .. 2, Window <- 1, Width <- 2, MaxNow <- 1, MaxChanges <- 2

ASSUME /\ Bounds /\ Alone!Bounds /\ Pair!Bounds /\ Shared!Bounds /\ Disturbed!Bounds
       /\ Budgeted!Bounds /\ Routed!Bounds

-----------------------------------------------------------------------------
AnyInit == /\ Init
           /\ \/ part \in {"alone", "local", "external", "budgeted"} /\ Alone!Init /\ Budgeted!Init
              \/ part = "pair" /\ Pair!Init /\ Budgeted!Init
              \/ part = "shared" /\ Shared!Init /\ Budgeted!Init
              \/ part = "disturbed" /\ Disturbed!Init /\ Budgeted!Init
              \/ part = "routed" /\ Alone!Init /\ Routed!Init

AnyNext == \/ /\ \/ part = "alone" /\ Alone!Next
                 \/ part = "pair" /\ Pair!Next
                 \/ part = "shared" /\ Shared!Next
                 \/ part = "disturbed" /\ Disturbed!Next
              /\ UNCHANGED <<part, vars, aVars>>
           \/ /\ \/ part = "local" /\ Next /\ Local
                 \/ part = "external" /\ Next /\ External
              /\ UNCHANGED <<part, cVars, aVars>>
           \/ /\ \/ part = "budgeted" /\ Budgeted!Next
                 \/ part = "routed" /\ Routed!Next
              /\ UNCHANGED <<part, cVars, vars>>

anyVars == <<part, cVars, vars, aVars>>
AnySpec == AnyInit /\ [][AnyNext]_anyVars

\* All waves of the project, of whichever invocation or session, count against
\* one cycle budget, and each invocation against its own; what is reserved and
\* charged never exceeds what the owner allowed.  Protected work of an invocation
\* is among its instructions, and nobody starts another invocation over it: a
\* refused step leaves no reservation behind.  A dispatch's host permit is handed
\* out once, and work counts as accepted when the canonical record is done by the
\* approved revision.
WithinBudget == /\ part = "alone" => Alone!WavesWithinBudget /\ Alone!NothingIsOrphaned /\ Alone!AcceptedIsReal
                /\ part = "pair" => Pair!WavesWithinBudget /\ Pair!NothingIsOrphaned /\ Pair!AcceptedIsReal /\ Pair!PermitOnce
                /\ part = "shared" => Shared!WavesWithinBudget /\ Shared!NothingIsOrphaned /\ Shared!AcceptedIsReal
                /\ part = "disturbed" => Disturbed!WavesWithinBudget /\ Disturbed!NothingIsOrphaned
                /\ part \in {"alone", "shared", "disturbed"} => Alone!PermitOnce
                /\ part = "budgeted" => Budgeted!BudgetKept

\* The controller's own hand moves the trunk only to a commit that was approved
\* after the target was pinned, and only from where it was pinned.  A worker
\* starts on exactly what its reservation was decided on, and never on an easier
\* role than a correction of the task has asked for.
ActsAsDecided == [][/\ part = "local" => TrunkMovesReviewed
                    /\ part = "budgeted" => Budgeted!StartsAsReserved
                    /\ part = "routed" => Routed!StartsAsReserved /\ Routed!KeepsTier]_anyVars

=============================================================================
