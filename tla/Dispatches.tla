----------------------------- MODULE Dispatches -----------------------------
(***************************************************************************)
(* Waves of reservations and their conversion into worker leases           *)
(* (swarms.go) for one project.  Roles, harness, priorities and the task   *)
(* snapshot decide which admissible wave is planned; any admissible wave   *)
(* may be reserved here.  ReserveWave plans again in its own transaction   *)
(* and refuses a plan that is no longer the fresh one, so the plan the     *)
(* caller read earlier does not appear.  A session's project scope is part *)
(* of Can; tasks the snapshot shows active occupy capacity in the code too,*)
(* which can only refuse.                                                  *)
(*                                                                         *)
(* Launching reserved work through a host bridge (dispatch_intents.go) and *)
(* what the bridge reports back (lifecycle.go).  Sequence numbers and the  *)
(* binding in a request are compared with the stored ones: a caller with   *)
(* older ones is refused.  A binding changes only when the intent is       *)
(* acknowledged, so `leased' is what is kept of it.  The owner recovers    *)
(* work whose worker is gone (recovery.go).                                *)
(***************************************************************************)
EXTENDS GovernanceState

\* A revision is configured for the first time, or is the current one.
ConfigureSwarm(r) ==
    /\ r \in revisions => r = policy
    /\ \A p \in Policies[r].placements : p[1] \in admitted
    /\ policy' = r /\ revisions' = revisions \cup {r}
    /\ UNCHANGED <<clock, bindings, protections, hosts, channel, acceptTerminal, retired>>

\* swarmCapacityAvailable and dispatchCapability: a policy that allows work.
PolicyRuns == policy # NoPolicy /\ ~ Policies[policy].stopped

\* Mutant: work that was handed over no longer counts.
OccupiedByReservations == {dispatches[d].claim.task : d \in Retained}

\* swarmOccupancy: the tasks of retained reservations and unreleased leases,
\* also of leases that no dispatch led to.
Occupied == {dispatches[d].claim.task : d \in Retained} \cup {leases[l].claim.task : l \in Held}

\* Sequences of claims no longer than the policy's width.
Waves == IF PolicyRuns THEN UNION {[1 .. n -> Claims] : n \in 1 .. Policies[policy].width} ELSE {}

Controller(s, action) == Authenticate(s) /\ action \in Can[s]

\* Mutant: the tasks of one wave are not compared with each other.
AdmissibleAlone(s, w) ==
    /\ PolicyRuns
    /\ Cardinality(Occupied) + Len(w) <= Policies[policy].wip
    /\ \A i \in DOMAIN w :
        /\ w[i] \in Covers[s] /\ w[i].task \in admitted \ retired
        /\ <<w[i].task, w[i].checkout>> \in Policies[policy].placements
        /\ FreeExcept(w[i], {})

\* planSwarm: what a wave w of claims selected for controller s satisfies.
\* Each is selected while fewer than WIP tasks are occupied.
Admissible(s, w) ==
    /\ PolicyRuns
    /\ Cardinality(Occupied) + Len(w) <= Policies[policy].wip
    /\ \A i \in DOMAIN w :
        /\ w[i] \in Covers[s] /\ w[i].task \in admitted \ retired
        /\ <<w[i].task, w[i].checkout>> \in Policies[policy].placements
        /\ Repository[w[i].task] = RepositoryOf[w[i].checkout]
        /\ FreeExcept(w[i], {})
        /\ \A j \in DOMAIN w : i # j => ~ Overlap(w[i], w[j])

Reservation(s, c, e) ==
    [controller |-> s, claim |-> c, expires |-> e, revision |-> policy,
     converted |-> FALSE, worker |-> NoSession]

\* reserveWaveState: the whole wave or nothing, with one fence each.
ReserveWave(s, w, e) ==
    /\ Controller(s, "swarm.reserve") /\ GenericController(s) /\ Admissible(s, w)
    /\ now < e /\ e <= now + Policies[policy].ttl /\ e <= Expires[s]
    /\ fence + Len(w) <= MaxFence
    /\ fence' = fence + Len(w)
    /\ dispatches' = [d \in DOMAIN dispatches \cup fence + 1 .. fence + Len(w) |->
                        IF d <= fence THEN dispatches[d] ELSE Reservation(s, w[d - fence], e)]
    /\ UNCHANGED <<clock, bindings, leases, recoveries, hosts, policies, retired>>

\* The policy the reservation was made under is still in force.
SamePolicy(d) == PolicyRuns /\ policy = dispatches[d].revision

\* admitDispatch: what a controller must still satisfy to launch work.
AdmitDispatch(d) ==
    LET r == dispatches[d] IN
    /\ d \in Retained /\ now < r.expires /\ SamePolicy(d)
    /\ Controller(r.controller, "swarm.dispatch") /\ r.claim \in Covers[r.controller]
    /\ r.claim.task \in admitted \ retired
    /\ (d \in DOMAIN observed => observed[d].state # "terminal") /\ d \notin DOMAIN cancelled
    /\ Cardinality(Occupied) <= Policies[policy].wip

\* The worker and its controller may both act, and nothing else is in the way.
MayHandoff(s, d) ==
    LET r == dispatches[d] IN
    /\ Attempt(s, r.claim) \in attempts /\ LeaseAuth(s, r.claim.task, "lease.acquire")
    /\ d \in Retained /\ s # r.controller /\ now < r.expires /\ SamePolicy(d)
    /\ Controller(r.controller, "swarm.dispatch")
    /\ r.claim \in Covers[s] /\ r.claim \in Covers[r.controller]
    /\ r.claim.task \in admitted /\ Cardinality(Occupied) <= Policies[policy].wip
    /\ r.expires <= Expires[s] /\ FreeExcept(r.claim, {d})
    /\ fence < MaxFence

\* handoffDispatch: the effect on reservations and leases.
Handoff(s, d) ==
    /\ MayHandoff(s, d)
    /\ fence' = fence + 1
    /\ dispatches' = [dispatches EXCEPT ![d].converted = TRUE, ![d].worker = s]
    /\ leases' = Put(leases, d, [session |-> s, claim |-> dispatches[d].claim, fence |-> fence + 1,
                                 expires |-> dispatches[d].expires, released |-> FALSE])
    /\ UNCHANGED recoveries

\* The worker converts the reservation itself; with an intent, only through
\* its acknowledgement.
HandoffDispatch(s, d) ==
    /\ d \notin DOMAIN intents
    /\ Handoff(s, d)
    /\ UNCHANGED <<clock, bindings, hosts, policies, retired>>

-----------------------------------------------------------------------------
(* Dispatch intents, the host lifecycle, recovery, retirement.             *)

\* dispatchBoundActor.
BoundActor(s, action, d) ==
    LET r == dispatches[d] IN
    /\ IsRoot(s) /\ Authenticate(s) /\ action \in Can[s] /\ r.claim \in Covers[s]
    /\ r.expires <= Expires[s]
    /\ action = "lease.acquire" => ~ WorkerTaskWithdrawn(s, r.claim.task)

RequestDispatchIntent(d, bridge, worker) ==
    LET controller == dispatches[d].controller IN
    /\ GenericController(controller) /\ d \notin DOMAIN intents
    /\ Cardinality({controller, bridge, worker}) = 3
    /\ BoundActor(bridge, "dispatch.correlate", d) /\ BoundActor(worker, "lease.acquire", d)
    /\ AdmitDispatch(d)
    /\ intents' = Put(intents, d, [bridge |-> bridge, worker |-> worker, state |-> "dispatch_requested"])
    /\ UNCHANGED <<clock, bindings, protections, observed, cancelled, policies, retired>>

\* HostAgentID # "": the host has named the agent that runs the work.
HostKnown(d) == intents[d].state \in {"host_correlated", "acknowledged"}
Leased(d)    == intents[d].state = "acknowledged"

CorrelateDispatchIntent(d, state) ==
    /\ Controller(intents[d].bridge, "dispatch.correlate")
    /\ ~ Recovered("reservation", d) /\ d \notin DOMAIN cancelled
    /\ \/ intents[d].state = "dispatch_requested"
       \/ intents[d].state = "dispatch_unknown" /\ state = "host_correlated"
    /\ BoundActor(intents[d].bridge, "dispatch.correlate", d) /\ Authenticate(dispatches[d].controller)
    /\ state = "host_correlated" => SamePolicy(d) /\ now < dispatches[d].expires
    /\ intents' = [intents EXCEPT ![d].state = state]
    /\ UNCHANGED <<clock, bindings, protections, observed, cancelled, policies, retired>>

\* lifecycleDispatchEligible.
Eligible(d) == d \in DOMAIN observed => observed[d].state # "terminal"

\* Mutant: the reports of the bridge are not consulted.
AcknowledgeDespiteReport(d) ==
    /\ ~ Recovered("reservation", d) /\ d \notin DOMAIN cancelled
    /\ intents[d].state = "host_correlated"
    /\ BoundActor(intents[d].bridge, "dispatch.correlate", d)
    /\ Handoff(intents[d].worker, d)
    /\ intents' = [intents EXCEPT ![d].state = "acknowledged"]
    /\ UNCHANGED <<clock, bindings, observed, cancelled, policies, retired>>

\* The named worker takes the reservation over as its lease.
AcknowledgeDispatchIntent(d) ==
    /\ ~ Recovered("reservation", d) /\ d \notin DOMAIN cancelled /\ Eligible(d)
    /\ intents[d].state = "host_correlated"
    /\ BoundActor(intents[d].bridge, "dispatch.correlate", d)
    /\ Handoff(intents[d].worker, d)
    /\ intents' = [intents EXCEPT ![d].state = "acknowledged"]
    /\ UNCHANGED <<clock, bindings, observed, cancelled, policies, retired>>

-----------------------------------------------------------------------------
(* Lifecycle.                                                               *)

ConfigureLifecycle(c) ==
    /\ policy # NoPolicy /\ channel' = c
    /\ UNCHANGED <<clock, bindings, protections, hosts, policy, revisions, acceptTerminal, retired>>

ObserveLifecycle(d, state) ==
    /\ Controller(intents[d].bridge, "dispatch.observe")
    /\ channel # NoPolicy /\ HostKnown(d) /\ Eligible(d)
    /\ observed' = Put(observed, d, [state |-> state, leased |-> Leased(d)])
    /\ UNCHANGED <<clock, bindings, protections, intents, cancelled, policies, retired>>

\* The worker is withdrawn from the task; nothing is freed.  Channel "disabled"
\* is a policy without cancellation.
CancelLifecycle(d) ==
    LET controller == dispatches[d].controller IN
    /\ Controller(controller, "dispatch.cancel") /\ dispatches[d].claim \in Covers[controller]
    /\ d \notin DOMAIN cancelled /\ channel \notin {NoPolicy, "disabled"}
    /\ cancelled' = Put(cancelled, d,
            [channel |-> channel, leased |-> Leased(d), host |-> HostKnown(d),
             state |-> IF channel = "unsupported" THEN "unsupported"
                       ELSE IF HostKnown(d) THEN "requested" ELSE "manual_handoff_required"])
    /\ UNCHANGED <<clock, bindings, protections, intents, observed, policies, retired>>

AcknowledgeCancellation(d, state) ==
    /\ Controller(intents[d].bridge, "dispatch.observe")
    /\ cancelled[d].state # "acknowledged"
    /\ state = "acknowledged" => cancelled[d].channel = "owner-manual-native-host" /\ HostKnown(d)
    /\ cancelled' = [cancelled EXCEPT ![d].state = state]
    /\ UNCHANGED <<clock, bindings, protections, intents, observed, policies, retired>>

-----------------------------------------------------------------------------
(* The owner's way out (recovery.go) and the retirement of an accepted      *)
(* task (native_acceptance.go).                                            *)

ConfigureRecovery(accept) ==
    /\ policy # NoPolicy /\ acceptTerminal' = accept
    /\ UNCHANGED <<clock, bindings, protections, hosts, policy, revisions, channel, retired>>

\* recoveryTarget: the session a protection belongs to.  A reservation belongs
\* to the worker its intent names, or to nobody yet.
TargetSession(kind, id) ==
    IF kind = "lease" THEN leases[id].session
    ELSE IF id \in DOMAIN intents THEN intents[id].worker ELSE NoSession

\* Mode "authenticated-terminal": the owner accepts the bridge's last report,
\* which is about the binding as it is now.
TerminalReported(id) ==
    /\ acceptTerminal /\ id \in DOMAIN intents /\ id \in DOMAIN observed
    /\ observed[id].state = "terminal" /\ observed[id].leased = Leased(id)

Tombstone(kind, id, mode) ==
    LET s == TargetSession(kind, id)
        c == IF kind = "lease" THEN leases[id].claim ELSE dispatches[id].claim IN
    [kind |-> kind, id |-> id, mode |-> mode, task |-> c.task,
     family |-> IF s = NoSession THEN NoSession ELSE Family(s)]

\* Mutant: only the lease is released, the worker keeps its authority.
RecoverWithoutTombstone(kind, id, mode) ==
    /\ id \in (IF kind = "lease" THEN Held ELSE Retained)
    /\ mode = "authenticated-terminal" => TerminalReported(id)
    /\ fence < MaxFence /\ fence' = fence + 1
    /\ recoveries' = recoveries \cup {[Tombstone(kind, id, mode) EXCEPT !.family = NoSession]}
    /\ leases' = IF kind = "lease" THEN [leases EXCEPT ![id].released = TRUE] ELSE leases
    /\ UNCHANGED <<clock, bindings, dispatches, hosts, policies, retired>>

\* Recover: the tombstone withdraws the worker's whole family from the task
\* and ends the protection; the dispatch record itself does not change.
Recover(kind, id, mode) ==
    /\ id \in (IF kind = "lease" THEN Held ELSE Retained)
    /\ mode = "authenticated-terminal" => TerminalReported(id)
    /\ fence < MaxFence /\ fence' = fence + 1
    /\ recoveries' = recoveries \cup {Tombstone(kind, id, mode)}
    /\ leases' = IF kind = "lease" THEN [leases EXCEPT ![id].released = TRUE] ELSE leases
    /\ UNCHANGED <<clock, bindings, dispatches, hosts, policies, retired>>

\* beginNativeAcceptance for the work under lease l.  The review, its evidence
\* and the approval are taken to be in order.
Retire(l) ==
    LET s == leases[l].session  t == leases[l].claim.task IN
    /\ t \notin retired /\ t \in admitted
    /\ Authenticate(s) /\ "verification.request" \in Can[s] /\ TaskInScope(s, t) /\ CurrentLease(l)
    /\ retired' = retired \cup {t}
    /\ UNCHANGED <<clock, bindings, protections, hosts, policies>>

=============================================================================
