----------------------------- MODULE Controller -----------------------------
(***************************************************************************)
(* The bounded controller of a project and the checkpoints that gate its   *)
(* waves.  A step reconciles what the producers did, moves the staged      *)
(* instructions of the current wave on, or reserves the next wave through  *)
(* a checkpoint that is written and consumed in the same transaction.      *)
(* Producers, the owner and clocks act in between; another session of the  *)
(* project may reserve waves through the same checkpoints.                 *)
(***************************************************************************)
EXTENDS Naturals, FiniteSets, SequencesExt

CONSTANTS
    Order,              \* the tasks, in the order they are examined
    Invocations,        \* identities the owner may start, 1 .. n
    MaxWaves, MaxConcurrency, MaxCorrections, MaxNoProgress, TransientRetries,  \* the controller policy
    MaxCycles, MaxIdle, \* the checkpoint policy
    MaxRevision, MaxReceipts, MaxForeign,   \* bounds: revisions, preflight checks, foreign checkpoints
    Events,             \* what else may happen in an instance: "stop", "policy", "session", "deadline", "lapse", "release"
    None

\* What instances have to provide.
Bounds == Invocations = 1 .. Cardinality(Invocations) /\ MaxWaves <= MaxCycles /\ MaxNoProgress <= MaxIdle

Tasks == ToSet(Order)
Other == 0      \* who reserved, when it was no invocation

VARIABLES
    work,       \* the latest dispatch of each task and what its producers did, or None
    done,       \* tasks whose canonical record is done
    stop, policy, alive, late,  \* STOP, the policy revision, the controller's session, passed deadlines
    ready, receipts, backoff,   \* preflight, its authenticated checks, invocations waiting to retry
    checkpoint, \* the latest entry: [cycle, idle, progress, owed]; owed: tasks with an integration reference
    gate,       \* the latest entry is a foreign one that allows a wave, and nothing changed since
    news,       \* whose latest snapshot the producers' facts have left behind: invocations, Other for the checkpoint
    foreign,    \* how many entries others wrote
    inv,        \* the invocations
    waves, permits  \* history: waves reserved, host permits handed out for each dispatch

world == <<stop, policy, alive, late, ready, receipts, backoff>>
checkpoints == <<checkpoint, gate, news, foreign>>
vars == <<work, done, world, checkpoints, inv, waves, permits>>

Reserved(by) == [by |-> by, held |-> TRUE, recovered |-> FALSE, sound |-> TRUE, intent |-> "none", host |-> "silent", rev |-> 0,
                 check |-> None, review |-> None, integrated |-> FALSE, accepted |-> "no"]
Held(t) == work[t] # None /\ work[t].held
Started == {i \in Invocations : inv[i] # None}

-----------------------------------------------------------------------------
(* Reconciliation: what stands in the way of a wave, and what is progress. *)

\* What a producer left behind blocks until the owner recovers it; the reference
\* to an integration blocks until it is integrated.
Obstructed(t) ==
    \/ t \in checkpoint.owed /\ ~work[t].integrated
    \/ /\ work[t] # None /\ ~work[t].recovered
       /\ work[t].held \/ work[t].intent = "sent" \/ work[t].check # None \/ work[t].review # None
Unobserved(t) == work[t] # None /\ ~work[t].recovered /\ work[t].intent = "acked" /\ work[t].host \in {"silent", "running"}

Selectable == IF ready = "ok" THEN {t \in Tasks \ done : ~Held(t)} ELSE {}

\* The first finding: permanent blockers dominate transient ones.
Finding ==
    CASE \E t \in Tasks : Obstructed(t)                         -> "blocked"
      [] ~(\E t \in Tasks : Obstructed(t)) /\ \E t \in Tasks : Unobserved(t) -> "unobserved"
      [] ~(\E t \in Tasks : Obstructed(t) \/ Unobserved(t)) /\ Selectable = {} ->
            IF Tasks \subseteq done \/ ready = "ok" THEN "no_work" ELSE ready
      [] OTHER -> "none"

\* The facts of a task a checkpoint's progress digest is made of; an invocation
\* also sees published revisions.
Outcomes(r) == IF r = None THEN None ELSE [r EXCEPT !.rev = 0, !.by = None, !.sound = @ \/ r.check = None]
Watchers == {i \in Started : ~inv[i].terminal}
Everyone == {Other} \cup Watchers
Noticed(t, r) == Watchers \cup (IF Outcomes(r) = Outcomes(work[t]) THEN {} ELSE {Other})

\* Identities are never reused, so a digest is the old one just when no fact
\* changed since and the finding is the same.
ProgressDigest(old) == Other \notin news /\ old = Finding
controllerProducerProgress(v) == v.id \notin news /\ v.progress = Finding

\* Every change of the authority or of an invocation's admission facts
\* invalidates a gate.
Condition == <<work, done, stop, policy, ready, receipts, [i \in Started |-> [inv[i] EXCEPT !.permit = None]]>>

checkpointBounds(c) ==
    CASE stop -> "stopped"
      [] ~stop /\ c.cycle >= MaxCycles -> "budget_exhausted"
      [] ~stop /\ c.cycle < MaxCycles /\ c.idle >= MaxIdle -> "no_progress"
      [] OTHER -> Finding

\* An entry carries the counters on; only producers' progress resets idleness.
writeCheckpointReset(pre, again) ==
    LET idle == IF pre /\ again /\ ProgressDigest(checkpoint.progress) THEN checkpoint.idle + 1
                ELSE IF ~ProgressDigest(checkpoint.progress) THEN 0 ELSE checkpoint.idle
    IN  [checkpoint EXCEPT !.idle = idle, !.progress = Finding, !.cycle = IF pre THEN 0 ELSE checkpoint.cycle]
writeCheckpoint(pre, again) ==
    LET idle == IF pre /\ again /\ ProgressDigest(checkpoint.progress) THEN checkpoint.idle + 1
                ELSE IF ~ProgressDigest(checkpoint.progress) THEN 0 ELSE checkpoint.idle
    IN  [checkpoint EXCEPT !.idle = idle, !.progress = Finding]

consumeCheckpoint(c) == [c EXCEPT !.cycle = @ + 1]

\* Reserving: the dispatches of a wave; a new dispatch has no permit yet.
Wave(S, by, c) == /\ work' = [t \in Tasks |-> IF t \in S THEN Reserved(by) ELSE work[t]]
                  /\ permits' = [t \in Tasks |-> IF t \in S THEN 0 ELSE permits[t]]
                  /\ waves' = waves + 1 /\ checkpoint' = consumeCheckpoint(c) /\ news' = Everyone

-----------------------------------------------------------------------------
(* Starting and stopping.                                                  *)

Occupied(v, t) == v.action[t] # None /\ work[t] # None /\ work[t].by = v.id
controllerUnresolved(v) == \E t \in Tasks : Occupied(v, t) /\
    (work[t].held \/ (work[t].check = "pending" /\ ~work[t].recovered))

\* A done task keeps its route only as the history of its own acceptance.
controllerClosedTaskRoute(t) == work[t] # None /\ work[t].accepted = "closed" /\ \E i \in Started : inv[i].action[t] # None

StartController(i) ==
    /\ inv[i] = None /\ alive /\ \A j \in Invocations : j < i => inv[j] # None
    /\ \A t \in done : controllerClosedTaskRoute(t)
    /\ \A j \in Started : inv[j].terminal /\ ~controllerUnresolved(inv[j])
    /\ inv' = [inv EXCEPT ![i] = [id |-> i, policy |-> policy, phase |-> "reconcile", halt |-> None, terminal |-> FALSE,
                                  waves |-> 0, cycle |-> 0, corrections |-> 0, idle |-> 0, attempts |-> 0, tried |-> 0,
                                  progress |-> None, action |-> [t \in Tasks |-> None], sources |-> {}, permit |-> None]]
    /\ UNCHANGED <<work, done, world, checkpoint, news, foreign, waves, permits>>

\* (Nobody reads the progress of a terminal invocation.)
controllerHalt(v, class, terminal) ==
    [v EXCEPT !.phase = "halt", !.halt = class, !.terminal = terminal, !.permit = None, !.progress = IF terminal THEN None ELSE @]

StopController(i) ==
    /\ inv[i] # None /\ alive /\ inv' = [inv EXCEPT ![i] = controllerHalt(inv[i], "stopped", TRUE)]
    /\ UNCHANGED <<work, done, world, checkpoint, news, foreign, waves, permits>>

-----------------------------------------------------------------------------
(* Moving a wave on: one member after the other.                           *)

Staged(v, t, kind) == [v EXCEPT !.action[t] = [kind |-> kind, rev |-> work[t].rev], !.phase = kind, !.halt = None]
Watching(v, class) == [v EXCEPT !.phase = "observe", !.halt = class]
Refusal(v) == [v EXCEPT !.phase = "refused"]

controllerActionRetired(t) == ~work[t].held

\* One round for each failing result, and only so many.
controllerCorrection(v, t, source) ==
    IF source \in v.sources THEN [v EXCEPT !.phase = "correction"]
    ELSE IF v.corrections >= MaxCorrections THEN controllerHalt(v, "correction_limit", TRUE)
    ELSE [Staged(v, t, "correction") EXCEPT !.corrections = @ + 1, !.sources = @ \cup {source}]

\* Owner effects are only observed: an integration, then the acceptance, then
\* the canonical record.
controllerIntegrationProgress(v, t) ==
    CASE ~work[t].integrated -> Watching([v EXCEPT !.phase = "integration"], "pending_local_integration")
      [] work[t].integrated /\ work[t].accepted # "closed" -> Staged(v, t, "canonical_acceptance")
      [] work[t].integrated /\ work[t].accepted = "closed" /\ t \notin done -> Refusal(v)
      [] OTHER -> Staged(v, t, "accepted")
OwnerStages == {"integration_checkpoint", "canonical_acceptance", "accepted"}

Verified(v, t) ==
    CASE work[t].check \in {None, "pending"} -> Staged(v, t, "verification")
      [] work[t].check = "interrupted" -> controllerHalt(v, "verification_interrupted", TRUE)
      [] work[t].check = "fail"        -> controllerCorrection(v, t, <<t, work[t].rev, "check">>)
      [] OTHER ->
         CASE work[t].review = None     -> Staged(v, t, "independent_review")
           [] work[t].review = "reject" -> controllerCorrection(v, t, <<t, work[t].rev, "review">>)
           [] OTHER                     -> IF work[t].integrated THEN controllerIntegrationProgress(v, t)
                                           ELSE Staged(v, t, "integration_checkpoint")

Member(v, t) ==
    IF v.terminal \/ v.phase = "refused" \/ v.action[t] = None THEN v
    ELSE IF v.action[t].kind \in OwnerStages THEN controllerIntegrationProgress(v, t)
    ELSE IF controllerActionRetired(t)     THEN v
    ELSE IF work[t].intent # "acked"       THEN Watching(v, "dispatch_unknown")
    ELSE IF work[t].host = "silent"        THEN Watching(v, "lifecycle_unknown")
    ELSE IF work[t].host = "withdrawn"     THEN controllerHalt(v, "withdrawn_execution", TRUE)
    ELSE IF work[t].rev = 0                THEN Watching(v, "revision_pending")
    ELSE IF ~work[t].sound                 THEN Refusal(v)
    ELSE Verified(v, t)

Retire(v) == IF v.terminal \/ v.phase = "refused" \/ \E t \in Tasks : v.action[t] # None /\ ~controllerActionRetired(t) THEN v
             ELSE [v EXCEPT !.action = [t \in Tasks |-> None], !.phase = "reconcile"]

controllerProgressWave(v) == Retire(FoldLeft(Member, v, Order))

\* What was staged is still current when the transaction ends.
controllerFreshActions(v) == \A t \in Tasks : v.action[t] # None /\ Held(t) =>
    \/ v.action[t].kind \in {"dispatch", "host_dispatch"} /\ (work[t].intent = "acked" \/ work[t].sound)
    \/ v.action[t].kind \in {"canonical_acceptance", "accepted"} /\ work[t].accepted # "no"
    \/ v.action[t].rev = work[t].rev /\ work[t].sound

-----------------------------------------------------------------------------
(* A step.  Record commits the invocation; what a refused step tried is    *)
(* discarded, only its halt is kept.                                       *)

controllerCurrent(v) == v.policy = policy /\ v.id \notin late /\ ~stop
Record(v) == inv' = [inv EXCEPT ![v.id] = v]

\* A refused step saves nothing of its trial but the refusal.
Refused(v) ==
    /\ Record(controllerHalt(v, "policy_refused", TRUE))
    /\ UNCHANGED <<work, done, world, checkpoint, news, foreign, waves, permits>>


Transient(v) ==
    /\ IF v.attempts >= TransientRetries \/ (v.attempts > 0 /\ v.tried = receipts)
       THEN Record(controllerHalt(v, "transient_retry_limit", TRUE)) /\ UNCHANGED backoff
       ELSE /\ Record([controllerHalt(v, "transient_preflight", FALSE) EXCEPT !.attempts = @ + 1, !.tried = receipts])
            /\ backoff' = backoff \cup {v.id}
    /\ news' = news \ {v.id} /\ UNCHANGED <<work, done, stop, policy, alive, late, ready, receipts, checkpoint, foreign, waves, permits>>

Observed(v) == Record(v) /\ news' = news \ {v.id} /\ UNCHANGED <<work, done, world, checkpoint, foreign, waves, permits>>

\* A dispatch that has no intent yet gets one, and the caller its only permit.
RequestIntent(v, t) ==
    IF ~work[t].sound THEN Refused(v)
    ELSE /\ work' = [work EXCEPT ![t].intent = "sent"] /\ permits' = [permits EXCEPT ![t] = @ + 1]
         /\ Record([v EXCEPT !.action[t] = [kind |-> "host_dispatch", rev |-> 0], !.phase = "await_host", !.permit = t])
         /\ news' = Everyone /\ UNCHANGED <<done, world, checkpoint, foreign, waves>>

\* The integration checkpoint of members that were approved in this step.
Reviewed(v, w) == {t \in Tasks : w.action[t] # v.action[t] /\ w.action[t] # None /\ w.action[t].kind = "integration_checkpoint"}

Progress(v) ==
    LET unasked == {t \in Tasks : v.action[t] # None /\ work[t].intent = "none" /\ work[t].held}
        next    == SelectSeq(Order, LAMBDA t : t \in unasked)
        w       == controllerProgressWave(v)
    IN  IF unasked # {} THEN RequestIntent(v, Head(next))
        ELSE IF w.phase = "refused" THEN Refused(v)
        ELSE /\ w.terminal \/ controllerFreshActions(w)
             /\ Record(w) /\ news' = IF Reviewed(v, w) = {} THEN news \ {v.id} ELSE news \ {v.id, Other}
             /\ checkpoint' = IF Reviewed(v, w) = {} THEN checkpoint
                              ELSE [writeCheckpoint(FALSE, FALSE) EXCEPT !.owed = @ \cup Reviewed(v, w)]
             /\ UNCHANGED <<work, done, world, foreign, waves, permits>>

\* The checkpoint of a new cycle is written and, if it allows a wave, consumed.
Cycle(v) ==
    LET c     == writeCheckpoint(TRUE, checkpoint.progress # None)
        class == checkpointBounds(c)
        room  == MaxConcurrency - Cardinality({t \in Tasks : Held(t)})
        w     == [v EXCEPT !.cycle = @ + 1, !.idle = c.idle]
        Ended(x) == Record(x) /\ checkpoint' = c /\ news' = news \ {v.id, Other} /\ UNCHANGED <<work, done, world, foreign, waves, permits>>
    IN  CASE c.idle >= MaxNoProgress -> Ended(controllerHalt(w, "no_progress", TRUE))
          [] c.idle < MaxNoProgress /\ Selectable = {} /\ Tasks \subseteq done ->
                Ended([controllerHalt(w, "empty_backlog", TRUE) EXCEPT !.phase = "completed"])
          [] c.idle < MaxNoProgress /\ ~(Tasks \subseteq done) /\ class = "transient" -> Transient(v)
          [] c.idle < MaxNoProgress /\ class \notin {"none", "transient"} /\ ~(Tasks \subseteq done) ->
                Ended(controllerHalt(w, class, class \notin {"unobserved", "no_work"}))
          [] OTHER ->
                \E S \in SUBSET Selectable :
                    /\ Cardinality(S) = IF Cardinality(Selectable) < room THEN Cardinality(Selectable) ELSE room
                    /\ Wave(S, v.id, c)
                    /\ Record([w EXCEPT !.waves = @ + 1, !.phase = "dispatch", !.halt = None,
                                        !.action = [t \in Tasks |-> IF t \in S THEN [kind |-> "dispatch", rev |-> 0] ELSE None]])
                    /\ UNCHANGED <<done, world, foreign>>

StepController(i) ==
    /\ inv[i] # None /\ alive /\ ~inv[i].terminal
    /\ LET v == [inv[i] EXCEPT !.permit = None]
           busy == \E t \in Tasks : v.action[t] # None
           idle == IF controllerProducerProgress(v) THEN v.idle + 1 ELSE 0
           w == [v EXCEPT !.progress = Finding, !.idle = IF busy /\ v.progress # None THEN idle ELSE @]
       IN  CASE stop -> Observed(controllerHalt(v, "stopped", TRUE))
             [] ~stop /\ i \in late -> Observed(controllerHalt(v, "elapsed_limit", TRUE))
             [] ~stop /\ i \notin late /\ ~controllerCurrent(v) -> Refused(v)
             [] controllerCurrent(v) /\ i \in backoff ->
                  /\ Record([v EXCEPT !.phase = "wait", !.halt = "transient_backoff"])
                  /\ UNCHANGED <<work, done, world, checkpoint, news, foreign, waves, permits>>
             [] OTHER -> IF busy
                         THEN IF w.idle >= MaxNoProgress THEN Observed(controllerHalt(w, "no_progress", TRUE))
                              ELSE Progress(w)
                         ELSE IF v.waves >= MaxWaves THEN Observed(controllerHalt(w, "wave_limit", TRUE))
                         ELSE IF Cardinality({t \in Tasks : Held(t)}) >= MaxConcurrency
                              THEN Observed(controllerHalt(w, "concurrency_limit", FALSE))
                         ELSE Cycle(w)

\* A repeated request is answered from its receipt, without the permit.
Replayed(v) == [v EXCEPT !.permit = None]
Replay(i) == /\ inv[i] # None /\ alive
             /\ LET p == Replayed(inv[i]).permit
                IN  permits' = IF p = None THEN permits ELSE [permits EXCEPT ![p] = @ + 1]
             /\ UNCHANGED <<work, done, world, checkpoint, news, foreign, inv, waves>>

-----------------------------------------------------------------------------
(* Another session of the project reconciles and reserves.                 *)

ReconcileCheckpoint ==
    /\ foreign < MaxForeign /\ foreign' = foreign + 1
    /\ LET c == writeCheckpoint(TRUE, checkpoint.progress # None)
       IN  checkpoint' = c /\ gate' = (checkpointBounds(c) = "none")
    /\ news' = news \ {Other} /\ UNCHANGED <<work, done, world, inv, waves, permits>>

ReserveWave ==
    /\ gate /\ checkpointBounds(checkpoint) = "none"
    /\ \E t \in Selectable : Wave({t}, Other, checkpoint)
    /\ UNCHANGED <<done, world, foreign, inv>>

GateExpires == gate /\ gate' = FALSE /\ UNCHANGED <<work, done, world, checkpoint, news, foreign, inv, waves, permits>>

-----------------------------------------------------------------------------
(* Producers, the owner and clocks.                                        *)

Now(t, r) == work' = [work EXCEPT ![t] = r] /\ news' = news \cup Noticed(t, r) /\ UNCHANGED <<done, world, checkpoint, foreign, inv, waves, permits>>
Asked(t, kind) == \E i \in Started : inv[i].action[t] # None /\ inv[i].action[t] = [kind |-> kind, rev |-> work[t].rev]

ForeignIntent(t) == work[t].by = Other /\ work[t].intent = "none" /\ Now(t, [work[t] EXCEPT !.intent = "sent"])
AcknowledgeDispatchIntent(t) == work[t].intent = "sent" /\ work[t].sound /\ Now(t, [work[t] EXCEPT !.intent = "acked"])
ObserveLifecycle(t) == /\ work[t].intent = "acked" /\ work[t].host \in {"silent", "running"}
                       /\ \E h \in {"running", "ended", "withdrawn"} : Now(t, [work[t] EXCEPT !.host = h])
PublishAttemptRevision(t) ==
    /\ work[t].intent = "acked" /\ work[t].sound /\ work[t].rev < MaxRevision /\ ~work[t].integrated
    /\ Now(t, [work[t] EXCEPT !.rev = @ + 1, !.check = None, !.review = None])
BeginVerification(t) == /\ work[t].check = None /\ work[t].sound /\ Asked(t, "verification")
                        /\ Now(t, [work[t] EXCEPT !.check = "pending"])
CompleteVerification(t) == /\ work[t].check = "pending"
                           /\ \E r \in {"pass", "fail", "interrupted"} : Now(t, [work[t] EXCEPT !.check = r])
ProposeReview(t) == /\ work[t].check = "pass" /\ work[t].sound /\ ~work[t].integrated /\ work[t].review # "approve"
                    /\ \E r \in {"approve", "reject"} : Now(t, [work[t] EXCEPT !.review = r])
ApplyNativeIntegration(t) == /\ work[t].review = "approve" /\ work[t].sound /\ Asked(t, "integration_checkpoint")
                             /\ Now(t, [work[t] EXCEPT !.integrated = TRUE])
BeginAcceptance(t) == /\ work[t].integrated /\ work[t].sound /\ work[t].accepted = "no"
                      /\ Now(t, [work[t] EXCEPT !.accepted = "closing", !.sound = FALSE])
CloseAcceptance(t) == /\ work[t].accepted = "closing" /\ done' = done \cup {t}
                      /\ work' = [work EXCEPT ![t].accepted = "closed"]
                      /\ news' = Everyone /\ UNCHANGED <<world, checkpoint, foreign, inv, waves, permits>>
Lapses(t) == "lapse" \in Events /\ work[t].held /\ work[t].sound /\ Now(t, [work[t] EXCEPT !.sound = FALSE])
ReleaseLease(t) == "release" \in Events /\ work[t].held /\ work[t].intent = "acked" /\ work[t].sound /\ Now(t, [work[t] EXCEPT !.held = FALSE, !.sound = FALSE])
Recover(t) == work[t].held /\ Now(t, [work[t] EXCEPT !.held = FALSE, !.sound = FALSE, !.recovered = TRUE])

Producer(t) == /\ work[t] # None
               /\ \/ ForeignIntent(t) \/ AcknowledgeDispatchIntent(t) \/ ObserveLifecycle(t) \/ PublishAttemptRevision(t)
                  \/ BeginVerification(t) \/ CompleteVerification(t) \/ ProposeReview(t) \/ ApplyNativeIntegration(t)
                  \/ BeginAcceptance(t) \/ CloseAcceptance(t) \/ Lapses(t) \/ ReleaseLease(t) \/ Recover(t)

ConfigureSwarm == "stop" \in Events /\ stop' = ~stop /\ UNCHANGED <<policy, alive, late, ready, receipts, backoff>>
ConfigureController == "policy" \in Events /\ policy = 1 /\ policy' = 2 /\ UNCHANGED <<stop, alive, late, ready, receipts, backoff>>
SessionEnds == "session" \in Events /\ alive /\ alive' = FALSE /\ UNCHANGED <<stop, policy, late, ready, receipts, backoff>>
DeadlinePasses(i) == "deadline" \in Events /\ inv[i] # None /\ i \notin late /\ late' = late \cup {i} /\ UNCHANGED <<stop, policy, alive, ready, receipts, backoff>>
CheckPreflight == /\ receipts < MaxReceipts /\ receipts' = receipts + 1 /\ \E r \in {"ok", "transient", "permanent"} : ready' = r
                  /\ UNCHANGED <<stop, policy, alive, late, backoff>>
BackoffEnds(i) == i \in backoff /\ backoff' = backoff \ {i} /\ UNCHANGED <<stop, policy, alive, late, ready, receipts>>
World == /\ \/ ConfigureSwarm \/ ConfigureController \/ SessionEnds \/ CheckPreflight
            \/ \E i \in Invocations : DeadlinePasses(i) \/ BackoffEnds(i)
         /\ UNCHANGED <<work, done, checkpoint, news, foreign, inv, waves, permits>>

Init == /\ work = [t \in Tasks |-> None] /\ done = {} /\ stop = FALSE /\ policy = 1 /\ alive = TRUE /\ late = {}
        /\ ready = "ok" /\ receipts = 0 /\ backoff = {} /\ gate = FALSE /\ news = {} /\ foreign = 0
        /\ checkpoint = [cycle |-> 0, idle |-> 0, progress |-> None, owed |-> {}]
        /\ inv = [i \in Invocations |-> None] /\ waves = 0 /\ permits = [t \in Tasks |-> 0]

\* Whatever changes the condition closes the gate.
Gated == gate' = (gate /\ Condition' = Condition /\ checkpoint' = checkpoint)
Next == \/ /\ \/ \E i \in Invocations : StartController(i) \/ StopController(i) \/ StepController(i) \/ Replay(i)
              \/ ReserveWave \/ World \/ \E t \in Tasks : Producer(t)
           /\ Gated
        \/ ReconcileCheckpoint \/ GateExpires
Spec == Init /\ [][Next]_vars

-----------------------------------------------------------------------------
\* All waves of the project, of whichever invocation or session, count against
\* one cycle budget, and each invocation against its own.
WavesWithinBudget == waves = checkpoint.cycle /\ waves <= MaxCycles /\ \A i \in Started : inv[i].waves <= MaxWaves

\* A wave is reserved only when no earlier dispatch is still protected.
WavesDoNotOverlap == [][waves' # waves => \A t \in Tasks : ~Held(t)]_vars

\* A dispatch's host permit is handed out once, however often requests repeat.
PermitOnce == \A t \in Tasks : permits[t] <= 1

\* Protected work of an invocation is among its instructions, and nobody starts
\* another invocation over it: a refused step leaves no reservation behind.
NothingIsOrphaned == \A t \in Tasks : Held(t) /\ work[t].by \in Invocations =>
    /\ inv[work[t].by].action[t] # None
    /\ \A j \in Started : j <= work[t].by

\* A task counts as accepted for the controller only when its canonical record
\* is done by its own approved and integrated revision.
AcceptedIsReal == \A i \in Started, t \in Tasks : inv[i].action[t] # None /\ inv[i].action[t].kind = "accepted" =>
    t \in done /\ work[t].integrated /\ work[t].review = "approve"

\* "An exactly recovered member ... does not block a healthy different member":
\* recovered work is no reason against another wave.
RecoveredDoesNotBlock == Finding = "blocked" => \E t \in Tasks : work[t] # None /\ ~work[t].recovered

=============================================================================
