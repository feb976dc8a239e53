----------------------------- MODULE Governance -----------------------------
(***************************************************************************)
(* The write-protection authority: leases, waves of reservations, dispatch *)
(* through a host bridge, cancellation, recovery and retirement, by any    *)
(* number of workers, controllers, bridges and the owner, on one aggregate.*)
(***************************************************************************)
EXTENDS Dispatches

\* States the code treats alike have one name here: dispatch_unknown is also
\* the manual_handoff_required of an intent and the unsupported of an answer;
\* a host report is open (running, unknown) or terminal (completed, failed,
\* cancelled).
IntentStates    == {"dispatch_requested", "host_correlated", "dispatch_unknown", "acknowledged"}
CorrelateStates == {"host_correlated", "dispatch_unknown"}
HostStates      == {"open", "terminal"}
CancelStates    == {"requested", "unsupported", "manual_handoff_required", "acknowledged", "dispatch_unknown"}
CancelAnswers   == {"acknowledged", "dispatch_unknown"}
Modes           == {"owner-reconciliation", "authenticated-terminal"}

Worker ==
    \/ \E s \in Sessions, c \in Claims : RegisterAttempt(s, c.task, c.checkout)
    \/ \E s \in Sessions, c \in Claims, e \in Times : AcquireLease(s, c, e)
    \/ \E l \in DOMAIN leases, e \in Times : RenewLease(l, e)
    \/ \E l \in DOMAIN leases : ReleaseLease(l)
    \/ \E s \in Sessions, d \in DOMAIN dispatches : HandoffDispatch(s, d)
    \/ \E d \in DOMAIN intents : AcknowledgeDispatchIntent(d)

SwarmController ==
    \/ \E s \in Sessions, w \in Waves, e \in Times : ReserveWave(s, w, e)
    \/ \E d \in DOMAIN dispatches, b, w \in Sessions : RequestDispatchIntent(d, b, w)
    \/ \E d \in DOMAIN intents : CancelLifecycle(d)

Bridge ==
    \/ \E d \in DOMAIN intents, state \in CorrelateStates : CorrelateDispatchIntent(d, state)
    \/ \E d \in DOMAIN intents, state \in HostStates : ObserveLifecycle(d, state)
    \/ \E d \in DOMAIN cancelled, state \in CancelAnswers : AcknowledgeCancellation(d, state)

Owner ==
    \/ \E s \in Revocable : Revoke(s)
    \/ \E t \in Rebindable, on \in BOOLEAN : BindTask(t, on)
    \/ \E r \in DOMAIN Policies : ConfigureSwarm(r)
    \/ \E c \in Channels : ConfigureLifecycle(c)
    \/ \E accept \in Acceptances : ConfigureRecovery(accept)
    \/ \E id \in DOMAIN leases, mode \in Modes : Recover("lease", id, mode)
    \/ \E id \in DOMAIN dispatches, mode \in Modes : Recover("reservation", id, mode)
    \/ \E l \in DOMAIN leases : Retire(l)

Next == Tick \/ Worker \/ SwarmController \/ Bridge \/ Owner

Spec == Init /\ [][Next]_vars

-----------------------------------------------------------------------------
(* Types.                                                                   *)

Lease     == [session : Sessions, claim : Claims, fence : Ids, expires : Times, released : BOOLEAN]
Dispatch  == [controller : Sessions, claim : Claims, expires : Times, revision : DOMAIN Policies,
              converted : BOOLEAN, worker : Sessions \cup {NoSession}]
Intent    == [bridge : Sessions, worker : Sessions, state : IntentStates]
Report    == [state : HostStates, leased : BOOLEAN]
Cancel    == [channel : Channels, leased : BOOLEAN, host : BOOLEAN, state : CancelStates]
RecoveryT == [kind : {"lease", "reservation"}, id : Ids, mode : Modes, task : Tasks,
              family : Sessions \cup {NoSession}]

\* The records of the aggregate have their types and refer to each other:
\* validateAuthorityMaps finds every map present and every key in place.
TypeOK ==
    /\ now \in Times /\ revoked \subseteq Sessions /\ admitted \subseteq Tasks /\ retired \subseteq Tasks
    /\ attempts \subseteq [session : Sessions, task : Tasks, checkout : Checkouts]
    /\ fence \in 0 .. MaxFence
    /\ DOMAIN leases \subseteq Ids /\ leases \in [DOMAIN leases -> Lease]
    /\ DOMAIN dispatches \subseteq Ids /\ dispatches \in [DOMAIN dispatches -> Dispatch]
    /\ recoveries \subseteq RecoveryT
    /\ DOMAIN intents \subseteq DOMAIN dispatches /\ intents \in [DOMAIN intents -> Intent]
    /\ DOMAIN observed \subseteq DOMAIN intents /\ observed \in [DOMAIN observed -> Report]
    /\ DOMAIN cancelled \subseteq DOMAIN intents /\ cancelled \in [DOMAIN cancelled -> Cancel]
    /\ policy \in revisions \cup {NoPolicy} /\ revisions \subseteq DOMAIN Policies
    /\ channel \in Channels \cup {NoPolicy} /\ acceptTerminal \in BOOLEAN

-----------------------------------------------------------------------------
(* Properties.                                                              *)

\* "no ... unreserved gap, or overlap" (HandoffDispatch), "one cooperative
\* writer per checkout" (overlaps): whatever expires, is revoked, cancelled or
\* retired, two protections that are still in force never overlap.
Exclusive ==
    /\ \A l, m \in Held : l # m => ~ Overlap(leases[l].claim, leases[m].claim)
    /\ \A c, d \in Retained : c # d => ~ Overlap(dispatches[c].claim, dispatches[d].claim)
    /\ \A l \in Held, d \in Retained : ~ Overlap(leases[l].claim, dispatches[d].claim)

\* A writer that presents its fence can be told from every earlier one: a
\* protection in force has a higher fence than any other lease or reservation
\* there ever was on something it overlaps.
NewestFence ==
    /\ \A l \in Held :
        /\ \A m \in DOMAIN leases \ {l} :
              Overlap(leases[l].claim, leases[m].claim) => leases[m].fence < leases[l].fence
        /\ \A d \in DOMAIN dispatches :
              Overlap(leases[l].claim, dispatches[d].claim) => d < leases[l].fence
    /\ \A d \in Retained :
        /\ \A m \in DOMAIN leases :
              Overlap(dispatches[d].claim, leases[m].claim) => leases[m].fence < d
        /\ \A c \in DOMAIN dispatches \ {d} :
              Overlap(dispatches[d].claim, dispatches[c].claim) => c < d

\* Handover leaves no gap: a reservation ends by the owner's recovery, or the
\* very same step puts its worker's lease on the same claim in its place.
NoGap ==
    [][\A d \in Retained :
         \/ d \in Retained' \/ Recovered("reservation", d)'
         \/ /\ d \in Held' /\ leases'[d].claim = dispatches[d].claim
            /\ leases'[d].session = dispatches'[d].worker]_vars

\* workerTaskWithdrawn "never expires and does not clear reservations or
\* unreleased leases": a worker withdrawn from a task gets no lease on it,
\* extends none and gives none back; only a recovery ends what it holds.
WithdrawnIsInert ==
    [][\A l \in DOMAIN leases' :
         WorkerTaskWithdrawn(leases'[l].session, leases'[l].claim.task) =>
            /\ l \in DOMAIN leases /\ leases'[l].expires = leases[l].expires
            /\ leases'[l].released # leases[l].released => Recovered("lease", l)']_vars

\* "Tombstone withdraws old worker+descendant task authority" (Recover): no
\* session of a recovered family holds a lease on that task ever again.
RecoveredHoldsNothing ==
    \A r \in recoveries, l \in Held :
        LET s == TargetSession(r.kind, r.id) IN
        ~ (s # NoSession /\ Family(s) = Family(leases[l].session) /\ r.task = leases[l].claim.task)

\* A cancellation, and a terminal report, stay about the binding that exists:
\* neither is overtaken by a handover, so a terminal report can always back an
\* authenticated-terminal recovery and a cancelled launch never gets a lease.
StopIsNotOvertaken ==
    /\ \A d \in DOMAIN cancelled : cancelled[d].leased = Leased(d) /\ cancelled[d].host = HostKnown(d)
    /\ \A d \in DOMAIN observed : observed[d].state = "terminal" => observed[d].leased = Leased(d)

\* With an intent the reservation goes to the worker it names and to nobody
\* else, and exactly when the intent is acknowledged.
IntentDecidesWorker ==
    \A d \in DOMAIN intents :
        /\ dispatches[d].converted <=> Leased(d)
        /\ Leased(d) => leases[d].session = intents[d].worker /\ dispatches[d].worker = intents[d].worker

\* The tasks a swarm keeps busy, reserved or handed over.
Busy == {dispatches[d].claim.task : d \in Retained} \cup {leases[l].claim.task : l \in Held \cap DOMAIN dispatches}

\* They never exceed the largest WIP limit the owner has configured, across
\* policy changes, expiry and leases that workers take by themselves.
SwarmWithinWip == Busy # {} => \E r \in revisions : Cardinality(Busy) <= Policies[r].wip

-----------------------------------------------------------------------------
(* Leases and reservations implement fenced claims.                         *)

Conflict == {p \in Claims \X Claims : Overlap(p[1], p[2])}

InForce == [p \in Held \cup Retained |->
    IF p \in Held THEN [claim |-> leases[p].claim, fence |-> leases[p].fence]
                  ELSE [claim |-> dispatches[p].claim, fence |-> p]]

Given == {[claim |-> leases[l].claim, fence |-> leases[l].fence] : l \in DOMAIN leases}
         \cup {[claim |-> dispatches[d].claim, fence |-> d] : d \in DOMAIN dispatches}

Fenced == INSTANCE FencedClaims WITH Conflicts <- Conflict, held <- InForce, past <- Given, last <- fence

\* Every operation gives, passes on or drops claims as FencedClaims says.
ImplementsFencedClaims == Fenced!ASpec

=============================================================================
