---------------------------- MODULE Verification ----------------------------
(***************************************************************************)
(* Revisions of an attempt and the evidence that a check passed on one     *)
(* (evidence.go), produced by the runner's executor (native_verification)  *)
(* for callers of servers that admit a few immediate jobs                  *)
(* (native_verification_async) and for synchronous calls.                  *)
(*                                                                         *)
(* One worker session, one attempt, one runner.  A transaction of the      *)
(* authority is one action; the lookups, the reservation, the observation  *)
(* before the launch, the command and the completion are different         *)
(* transactions, and between them the checkout, the lease, the grants and  *)
(* other callers move.  A server may die anywhere; its command may go on.  *)
(***************************************************************************)
EXTENDS Naturals, Sequences, FiniteSets

CONSTANTS
    Callers, Servers, Home, \* concurrent calls; the server of each
    Keys,                   \* operation keys
    Grants,                 \* verification grants of the runner
    Contents, Dirty,        \* committed trees; a checkout with changes
    None,                   \* no request, no operation
    MaxJobs,                \* immediate jobs of a server: 2 in the code
    MaxLease, MaxRevision   \* bounds: leases and revisions of the attempt

VARIABLES
    worker,     \* leaseAuth holds of the worker: session, task and attempt
    lease,      \* the current lease of the attempt, 0 when there is none
    leased,     \* the last lease taken: ids and fences only grow
    checkout,   \* what checkout.Observe finds in the working directory
    history,    \* Revisions of the attempt: [lease, content]
    grants,     \* of each grant: absent, valid or ended
    operations, \* Operations under the keys: [state, req]
    evidence,   \* Evidence: [key, rev, grant, exit, trusted]
    call,       \* of each caller: [pc, req, seen, job, cancelled, exit]
    closed,     \* servers whose NativeVerificationJobs are closed
    process,    \* of each key: the command's process, none, running or gone
    starts,     \* how often a command was started under a key
    moved       \* keys whose checkout changed while the command ran

authority == <<worker, lease, leased, checkout, history, grants>>
results   == <<operations, evidence>>
commands  == <<process, starts, moved>>
vars      == <<authority, results, call, closed, commands>>

Requests   == [key : Keys, rev : 1 .. MaxRevision, grant : Grants]
Calls      == [pc : {"idle", "looked", "admitting", "prepared", "permitted", "running", "ended"},
               req : Requests \cup {None}, seen : {"absent", "pending"}, job : BOOLEAN,
               cancelled : BOOLEAN, exit : {0, 1}]
Idle       == [pc |-> "idle", req |-> None, seen |-> "absent", job |-> FALSE, cancelled |-> FALSE, exit |-> 0]
Operation(state, r) == [state |-> state, req |-> r]
Operations == [state : {"reported"}, req : {None}]
              \cup [state : {"pending", "interrupted", "completed"}, req : Requests]

\* What instances have to provide.
Bounds == /\ Home \in [Callers -> Servers] /\ Dirty \notin Contents /\ None \notin Operations
          /\ MaxJobs \in Nat /\ MaxLease \in Nat /\ MaxRevision \in Nat

-----------------------------------------------------------------------------
(* What the transactions check.                                            *)

\* activeAttempt: leaseAuth, and the lease of the request is current.
ActiveAttempt(l) == worker /\ lease = l /\ l # 0

\* runnerAuth: a root runner session, not the worker, with a grant for this
\* task, repository, check and command.
RunnerAuth(g) == grants[g] = "valid"

\* currentRevision: the last one, under the lease and fence of the request.
CurrentRevision(n) == n = Len(history) /\ n # 0

\* observeRevision: the checkout is clean and at the revision's tree.
ObserveRevision(n) == checkout = history[n].content

\* What ObserveVerificationRevision and a first BeginVerification require.
MayVerify(r) == /\ r.rev \in DOMAIN history
                /\ ActiveAttempt(history[r.rev].lease) /\ RunnerAuth(r.grant)
                /\ CurrentRevision(r.rev) /\ ObserveRevision(r.rev)

-----------------------------------------------------------------------------
(* The surroundings: leases, sessions, the checkout, the owner.            *)

TakeLease == /\ worker /\ lease = 0 /\ leased < MaxLease
             /\ lease' = leased + 1 /\ leased' = leased + 1
             /\ UNCHANGED <<worker, checkout, history, grants, results, call, closed, commands>>

LoseLease == /\ lease # 0 /\ lease' = 0
             /\ UNCHANGED <<worker, leased, checkout, history, grants, results, call, closed, commands>>

\* Revocation, expiry, recovery or retirement of the worker's task.
LoseWorker == /\ worker /\ worker' = FALSE
              /\ UNCHANGED <<lease, leased, checkout, history, grants, results, call, closed, commands>>

\* Files are edited and committed whether or not somebody verifies them.
Edit(c) == /\ c # checkout /\ checkout' = c
           /\ moved' = moved \cup {k \in Keys : process[k] = "running"}
           /\ UNCHANGED <<worker, lease, leased, history, grants, results, call, closed, process, starts>>

GrantVerification(g) == /\ grants[g] = "absent" /\ grants' = [grants EXCEPT ![g] = "valid"]
                        /\ UNCHANGED <<worker, lease, leased, checkout, history, results, call, closed, commands>>

\* Revoked by the owner, or the grant or the runner's session expires.
RevokeVerification(g) == /\ grants[g] = "valid" /\ grants' = [grants EXCEPT ![g] = "ended"]
                         /\ UNCHANGED <<worker, lease, leased, checkout, history, results, call, closed, commands>>

-----------------------------------------------------------------------------
(* The worker.                                                             *)

\* The checkout is observed inside the transaction: it must be clean.
PublishAttemptRevision ==
    /\ ActiveAttempt(lease) /\ Len(history) < MaxRevision /\ checkout # Dirty
    /\ history' = Append(history, [lease |-> lease, content |-> checkout])
    /\ UNCHANGED <<worker, lease, leased, checkout, grants, results, call, closed, commands>>

\* A report by the worker itself; no field of it can claim a runner.
SubmitEvidence(k, n, exit) ==
    /\ n \in DOMAIN history /\ ActiveAttempt(history[n].lease)
    /\ operations[k] = None
    /\ CurrentRevision(n) /\ ObserveRevision(n)
    /\ operations' = [operations EXCEPT ![k] = Operation("reported", None)]
    /\ evidence' = evidence \cup {[key |-> k, rev |-> n, grant |-> None, exit |-> exit, trusted |-> FALSE]}
    /\ UNCHANGED <<authority, call, closed, commands>>

-----------------------------------------------------------------------------
(* Operations of the runner on the authority.                              *)

LookupVerification(r) ==
    CASE operations[r.key] = None                    -> "absent"
      [] operations[r.key] # None /\ operations[r.key].req = r -> operations[r.key].state
      [] OTHER                                       -> "denied"

Jobs(s) == {c \in Callers : Home[c] = s /\ call[c].job}

Go(c, pc)  == call' = [call EXCEPT ![c].pc = pc]
\* The call returns; a job is deleted from the map of its server.
Leave(c)   == call' = [call EXCEPT ![c] = Idle]

\* Only the executor that holds the reservation knows that nothing runs; when
\* the authority refuses, the reservation stays pending.
InterruptVerification(c) ==
    LET r == call[c].req IN
    /\ operations' = IF /\ worker /\ RunnerAuth(r.grant) /\ ActiveAttempt(history[r.rev].lease)
                        /\ operations[r.key] = Operation("pending", r)
                     THEN [operations EXCEPT ![r.key] = Operation("interrupted", r)]
                     ELSE operations
    /\ Leave(c) /\ UNCHANGED <<authority, evidence, closed, starts, moved>>

-----------------------------------------------------------------------------
(* A call: lookup, admission under the server's mutex, reservation,        *)
(* observation, command, completion.                                       *)

\* access: the lookup is made before the mutex is taken.
Access(c, r) ==
    /\ call[c] = Idle /\ worker /\ RunnerAuth(r.grant)
    /\ LookupVerification(r) \in {"absent", "pending"}
    /\ call' = [call EXCEPT ![c].pc = "looked", ![c].req = r, ![c].seen = LookupVerification(r)]
    /\ UNCHANGED <<authority, results, closed, commands>>

\* The lookup found nothing, no job is under the key, and there is room.
Admissible(c) ==
    /\ call[c].seen = "absent" /\ Home[c] \notin closed
    /\ \A d \in Jobs(Home[c]) : call[d].req.key # call[c].req.key
    /\ Cardinality(Jobs(Home[c])) < MaxJobs

\* Request under the mutex: a job under the key answers, so does what the
\* lookup found; a closed or full server refuses; otherwise a job is admitted.
Request(c) ==
    /\ call[c].pc = "looked"
    /\ IF Admissible(c) THEN call' = [call EXCEPT ![c].pc = "admitting", ![c].job = TRUE] ELSE Leave(c)
    /\ UNCHANGED <<authority, results, closed, commands>>

\* Run: a synchronous call prepares at once and holds no job.
Run(c, r) ==
    /\ call[c] = Idle
    /\ call' = [call EXCEPT ![c].pc = "admitting", ![c].req = r]
    /\ UNCHANGED <<authority, results, closed, commands>>

\* Mutant: a reservation without a result may be executed again.
ReservableAgain(r) == MayVerify(r) /\ operations[r.key] \in {None, Operation("pending", r)}

\* A key that is known is never reserved again.
Reservable(r) == MayVerify(r) /\ operations[r.key] = None

\* Otherwise the receipt is returned, or ErrReconcile, and the call leaves.
BeginVerification(c) ==
    LET r == call[c].req IN
    /\ call[c].pc = "admitting"
    /\ IF Reservable(r) /\ (call[c].job \/ ~ call[c].cancelled)
       THEN operations' = [operations EXCEPT ![r.key] = Operation("pending", r)] /\ Go(c, "prepared")
       ELSE operations' = operations /\ Leave(c)
    /\ UNCHANGED <<authority, evidence, closed, commands>>

\* Execute: cancelled before the start, or ObserveVerificationRevision permits
\* the launch, or it refuses and the reservation stays pending.
Execute(c) ==
    /\ call[c].pc = "prepared"
    /\ IF call[c].cancelled THEN InterruptVerification(c) /\ UNCHANGED process
       ELSE /\ IF MayVerify(call[c].req) THEN Go(c, "permitted") ELSE Leave(c)
            /\ UNCHANGED <<authority, results, closed, commands>>

Startable(c) == ~ call[c].cancelled /\ ObserveRevision(call[c].req.rev)

\* The tree is read once more and compared with the revision; the command is
\* started with the context, which a cancellation has ended.
Launch(c) ==
    LET r == call[c].req IN
    /\ call[c].pc = "permitted" /\ Startable(c)
    /\ process' = [process EXCEPT ![r.key] = "running"] /\ starts' = [starts EXCEPT ![r.key] = @ + 1]
    /\ Go(c, "running") /\ UNCHANGED <<authority, results, closed, moved>>

\* Nothing was started: known, when only the start refused, or a policy error
\* of the observation, which proves nothing about the operation.
LaunchRefused(c) ==
    /\ call[c].pc = "permitted" /\ ~ Startable(c)
    /\ \/ call[c].cancelled /\ InterruptVerification(c) /\ UNCHANGED process
       \/ Leave(c) /\ UNCHANGED <<authority, results, closed, commands>>

\* The command ends by itself; its group is removed and the tree read again:
\* a tree that differs is a policy error and the reservation stays pending.
Finish(c, exit) ==
    LET r == call[c].req IN
    /\ call[c].pc = "running" /\ ~ call[c].cancelled
    /\ process' = [process EXCEPT ![r.key] = "gone"]
    /\ call' = IF ObserveRevision(r.rev) THEN [call EXCEPT ![c].pc = "ended", ![c].exit = exit]
               ELSE [call EXCEPT ![c] = Idle]
    /\ UNCHANGED <<authority, results, closed, starts, moved>>

\* Cancelled, or past the deadline of the check: the owned group is gone, and
\* the interruption recorded, or the clean-up failed and nothing is known.
Terminate(c) ==
    /\ call[c].pc = "running"
    /\ \/ process' = [process EXCEPT ![call[c].req.key] = "gone"] /\ InterruptVerification(c)
       \/ Leave(c) /\ UNCHANGED <<authority, results, closed, commands>>

Evidence(c) == LET r == call[c].req IN
    [key |-> r.key, rev |-> r.rev, grant |-> r.grant, exit |-> call[c].exit, trusted |-> TRUE]

Recordable(r) == MayVerify(r) /\ operations[r.key] = Operation("pending", r)

\* Every check of the reservation is made again, and the tree read again.
CompleteVerification(c) ==
    LET r == call[c].req IN
    /\ call[c].pc = "ended"
    /\ IF Recordable(r)
       THEN /\ operations' = [operations EXCEPT ![r.key] = Operation("completed", r)]
            /\ evidence' = evidence \cup {Evidence(c)}
       ELSE UNCHANGED results
    /\ Leave(c) /\ UNCHANGED <<authority, closed, commands>>

-----------------------------------------------------------------------------
(* Cancellation, teardown, death.                                          *)

\* Cancel of a job, or the end of a synchronous caller's context.
Cancel(c) == /\ call[c].pc \notin {"idle", "looked"} /\ ~ call[c].cancelled
             /\ call' = [call EXCEPT ![c].cancelled = TRUE]
             /\ UNCHANGED <<authority, results, closed, commands>>

Close(s) ==
    /\ s \notin closed /\ closed' = closed \cup {s}
    /\ call' = [c \in Callers |-> IF c \in Jobs(s) THEN [call[c] EXCEPT !.cancelled = TRUE] ELSE call[c]]
    /\ UNCHANGED <<authority, results, commands>>

\* The process of a server dies and another takes its place; a command it
\* had started may go on until it ends by itself.
Crash(s) ==
    /\ call' = [c \in Callers |-> IF Home[c] = s THEN Idle ELSE call[c]]
    /\ call' # call
    /\ closed' = closed \ {s} /\ UNCHANGED <<authority, results, commands>>

OrphanEnds(k) ==
    /\ process[k] = "running" /\ \A c \in Callers : call[c].pc = "running" => call[c].req.key # k
    /\ process' = [process EXCEPT ![k] = "gone"]
    /\ UNCHANGED <<authority, results, call, closed, starts, moved>>

-----------------------------------------------------------------------------
Init == /\ worker = TRUE /\ lease = 0 /\ leased = 0 /\ checkout \in Contents
        /\ history = <<>> /\ grants = [g \in Grants |-> "absent"]
        /\ operations = [k \in Keys |-> None] /\ evidence = {}
        /\ call = [c \in Callers |-> Idle] /\ closed = {}
        /\ process = [k \in Keys |-> "none"] /\ starts = [k \in Keys |-> 0] /\ moved = {}

Surroundings == \/ TakeLease \/ LoseLease \/ LoseWorker
                \/ \E c \in Contents \cup {Dirty} : Edit(c)
                \/ \E g \in Grants : GrantVerification(g) \/ RevokeVerification(g)
                \/ \E k \in Keys : OrphanEnds(k)

Worker == \/ PublishAttemptRevision
          \/ \E k \in Keys, n \in 1 .. MaxRevision, exit \in {0, 1} : SubmitEvidence(k, n, exit)

\* The steps a caller takes by itself once it is under way.
Advance(c) == \/ Request(c) \/ BeginVerification(c) \/ Execute(c) \/ Launch(c) \/ LaunchRefused(c)
              \/ \E exit \in {0, 1} : Finish(c, exit)
              \/ Terminate(c) \/ CompleteVerification(c)

Next == \/ Surroundings \/ Worker
        \/ \E c \in Callers : \/ Advance(c) \/ Cancel(c)
                              \/ \E r \in Requests : Access(c, r) \/ Run(c, r)
        \/ \E s \in Servers : Close(s) \/ Crash(s)

Spec == Init /\ [][Next]_vars

\* Goroutines are scheduled and commands end: by themselves or at the
\* deadline every check has.
FairSpec == Spec /\ \A c \in Callers : WF_vars(Advance(c))

-----------------------------------------------------------------------------
(* Properties.                                                             *)

TypeOK ==
    /\ worker \in BOOLEAN /\ lease \in 0 .. leased /\ leased \in 0 .. MaxLease
    /\ checkout \in Contents \cup {Dirty}
    /\ history \in Seq([lease : 1 .. MaxLease, content : Contents]) /\ Len(history) <= MaxRevision
    /\ grants \in [Grants -> {"absent", "valid", "ended"}]
    /\ operations \in [Keys -> Operations \cup {None}]
    /\ evidence \subseteq [key : Keys, rev : 1 .. MaxRevision, grant : Grants \cup {None}, exit : {0, 1},
                           trusted : BOOLEAN]
    /\ call \in [Callers -> Calls]
    /\ closed \subseteq Servers /\ moved \subseteq Keys
    /\ process \in [Keys -> {"none", "running", "gone"}] /\ starts \in [Keys -> Nat]

\* A reserved check is executed at most once, whatever callers, retries and
\* restarts of servers there are: a retry must never execute it again.
OneExecution == \A k \in Keys : starts[k] <= 1

\* An interruption is recorded only when the command is known to be gone:
\* neither a server that died nor a failed clean-up may supply that.
KnownInterruption == \A k \in Keys : (operations[k] # None /\ operations[k].state = "interrupted") => process[k] # "running"

\* Trusted evidence enters the record only for the revision that is current at
\* that moment, under its lease and a grant in force, with the checkout at its
\* tree, after a command ran once under its key.
EntersCurrent == \A e \in evidence' \ evidence : e.trusted =>
    /\ e.rev = Len(history) /\ checkout = history[e.rev].content
    /\ worker /\ lease = history[e.rev].lease /\ grants[e.grant] = "valid"
    /\ starts[e.key] = 1 /\ process[e.key] = "gone"
EvidenceIsCurrent == [][EntersCurrent]_vars

\* A result under a key is final: completed, interrupted and reported
\* operations never change, and each completed one has exactly its evidence.
ResultsStay == \A k \in Keys : (operations[k] # None /\ operations[k].state # "pending") =>
    /\ operations'[k] = operations[k]
    /\ {e \in evidence' : e.key = k} = {e \in evidence : e.key = k}
ResultIsFinal == [][ResultsStay]_vars

\* A server never has more commands of jobs under way than it may admit, from
\* the admission to the deletion of the job, and no two under one key.
JobsWithinCapacity == \A s \in Servers :
    /\ Cardinality(Jobs(s)) <= MaxJobs
    /\ \A c, d \in Jobs(s) : call[c].req.key = call[d].req.key => c = d

\* After Close no job of the server starts a command, not even one whose
\* reservation was still being made when the server was closed.
ClosedStartsNothing == [][\A c \in Callers :
    (Home[c] \in closed /\ call[c].job /\ call[c].pc # "running") => call'[c].pc # "running"]_vars

\* Every call comes to an end, so a job never occupies its server for good.
CallsEnd == \A c \in Callers : call[c].pc # "idle" ~> call[c].pc = "idle"

\* What the comment of RunAcceptanceVerification says of a check: the tree did
\* not change while it ran.
TreeDidNotChange == \A e \in evidence : e.trusted => e.key \notin moved

=============================================================================
