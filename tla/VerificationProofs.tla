------------------------- MODULE VerificationProofs -------------------------
(***************************************************************************)
(* A reserved check is executed at most once and its result is final, for  *)
(* any number of callers, servers, keys, grants, leases and revisions,     *)
(* through cancellations, deaths of servers and failed clean-ups.  A task  *)
(* is closed as it was reviewed and decided, for any number of owners,     *)
(* reviewers, policies and decisions, through edits and deaths.            *)
(***************************************************************************)
EXTENDS Verification, TLAPS

CONSTANTS Owners, Reviewers, Decisions, Policies, MaxVersion, MaxCrashes

VARIABLES current, rev, clean, checked, landed, reviewers, reviews, policy, used, decisions, approvals, lapsed,
          consumed, terminal, file, phase, args, crashes

\* The acceptance of what was verified, beside the verification.
A == INSTANCE Acceptance WITH worker <- current, evidence <- checked, grants <- reviewers, pc <- phase

\* What is written is about what is current at that moment: evidence, about the
\* revision in the checkout; the closed task file, about the revision that was
\* reviewed, verified and decided.
WritesAreCurrent == EvidenceIsCurrent /\ A!WrittenAsReviewed

-----------------------------------------------------------------------------
(* The verification.                                                       *)

\* The caller has reserved its key and not returned.
UnderWay(c) == call[c].pc \in {"prepared", "permitted", "running", "ended"}

\* Whoever has left the mutex asks for something.
CallsHaveRequests == \A c \in Callers : call[c].pc # "idle" => call[c].req \in Requests

\* The reservation of a call under way is its own, and still pending.
HoldsReservation == \A c \in Callers : UnderWay(c) =>
    operations[call[c].req.key] = Operation("pending", call[c].req)

\* Nobody else is under way under the same key.
OneHolder == \A c, d \in Callers : UnderWay(c) /\ UnderWay(d) /\ call[c].req.key = call[d].req.key => c = d

\* How far a call is tells whether its command was started, and whether it is
\* gone; a key nobody has reserved has no command.
StartsAreCounted ==
    /\ \A k \in Keys : operations[k] = None => starts[k] = 0 /\ process[k] = "none"
    /\ \A c \in Callers : LET k == call[c].req.key IN
          /\ call[c].pc \in {"prepared", "permitted"} => starts[k] = 0 /\ process[k] = "none"
          /\ call[c].pc \in {"running", "ended"} => starts[k] = 1
          /\ call[c].pc = "ended" => process[k] = "gone"

Protocol == /\ CallsHaveRequests /\ HoldsReservation /\ OneHolder
            /\ StartsAreCounted /\ OneExecution /\ KnownInterruption

Inv == TypeOK /\ Protocol

-----------------------------------------------------------------------------
(* What moves a caller does to the records of the calls.                   *)

LEMMA GoFields ==
  ASSUME TypeOK, NEW c \in Callers, NEW pc, Go(c, pc), NEW d \in Callers
  PROVE  call'[d].req = call[d].req /\ call'[d].pc = IF d = c THEN pc ELSE call[d].pc
  BY DEF TypeOK, Go

LEMMA LeaveFields ==
  ASSUME TypeOK, NEW c \in Callers, Leave(c), NEW d \in Callers
  PROVE  IF d = c THEN call'[d].pc = "idle" ELSE call'[d] = call[d]
  BY DEF TypeOK, Leave, Idle

\* The type of a call survives what is done to its fields.
LEMMA FieldsTyped ==
  ASSUME NEW d \in Calls
  PROVE  /\ [d EXCEPT !.pc = "admitting", !.job = TRUE] \in Calls
         /\ \A exit \in {0, 1} : [d EXCEPT !.pc = "ended", !.exit = exit] \in Calls
         /\ \A r \in Requests : [d EXCEPT !.pc = "admitting", !.req = r] \in Calls
         /\ \A r \in Requests, seen \in {"absent", "pending"} :
               [d EXCEPT !.pc = "looked", !.req = r, !.seen = seen] \in Calls
         /\ \A b \in BOOLEAN : [d EXCEPT !.cancelled = b] \in Calls
<1>1. [d EXCEPT !.pc = "admitting", !.job = TRUE] \in Calls
  BY DEF Calls
<1>2. ASSUME NEW exit \in {0, 1} PROVE [d EXCEPT !.pc = "ended", !.exit = exit] \in Calls
  BY DEF Calls
<1>3. ASSUME NEW r \in Requests PROVE [d EXCEPT !.pc = "admitting", !.req = r] \in Calls
  BY DEF Calls
<1>4. ASSUME NEW r \in Requests, NEW seen \in {"absent", "pending"}
      PROVE [d EXCEPT !.pc = "looked", !.req = r, !.seen = seen] \in Calls
  BY DEF Calls
<1>5. ASSUME NEW b \in BOOLEAN PROVE [d EXCEPT !.cancelled = b] \in Calls
  BY DEF Calls
<1> QED  BY <1>1, <1>2, <1>3, <1>4, <1>5

LEMMA GoTyped ==
  ASSUME TypeOK, NEW c \in Callers,
         NEW pc \in {"idle", "looked", "admitting", "prepared", "permitted", "running", "ended"}, Go(c, pc)
  PROVE  call' \in [Callers -> Calls]
<1>1. \A d \in Calls : [d EXCEPT !.pc = pc] \in Calls
  BY DEF Calls
<1> QED  BY <1>1 DEF TypeOK, Go

LEMMA IdleTyped == Idle \in Calls
  BY DEF Idle, Calls

LEMMA LeaveTyped ==
  ASSUME TypeOK, NEW c \in Callers, Leave(c)
  PROVE  call' \in [Callers -> Calls]
  BY DEF TypeOK, Leave, Calls, Idle

LEMMA OperationTyped ==
  ASSUME NEW r \in Requests, NEW state \in {"pending", "interrupted", "completed"}
  PROVE  Operation(state, r) \in Operations /\ Operation(state, r).state = state
  BY DEF Operation, Operations

\* A step that reserves, starts and ends nothing keeps the protocol: callers
\* stay, leave, begin to ask, or are permitted to start.
LEMMA Quiet ==
  ASSUME Inv, UNCHANGED <<operations, process, starts>>,
         \A c \in Callers :
            \/ call'[c].req = call[c].req /\ call'[c].pc = call[c].pc
            \/ ~UnderWay(c)' /\ (call'[c].pc # "idle" => call'[c].req \in Requests)
            \/ call[c].pc = "prepared" /\ call'[c].pc = "permitted" /\ call'[c].req = call[c].req
  PROVE  Protocol'
<1>1. \A c \in Callers : UnderWay(c)' => UnderWay(c) /\ call'[c].req = call[c].req
  BY DEF UnderWay
<1>2. CallsHaveRequests' /\ HoldsReservation' /\ OneHolder'
  BY <1>1 DEF Inv, Protocol, CallsHaveRequests, HoldsReservation, OneHolder
<1>3. StartsAreCounted'
  BY DEF Inv, Protocol, StartsAreCounted, UnderWay
<1>4. OneExecution' /\ KnownInterruption'
  BY DEF Inv, Protocol, OneExecution, KnownInterruption
<1> QED  BY <1>2, <1>3, <1>4 DEF Protocol

LEMMA Stutter == ASSUME Inv, UNCHANGED <<operations, process, starts, call>> PROVE Protocol'
  BY Quiet

LEMMA LeaveIsQuiet ==
  ASSUME Inv, NEW c \in Callers, Leave(c), UNCHANGED <<operations, process, starts>>
  PROVE  Protocol'
<1>1. \A d \in Callers : IF d = c THEN call'[d].pc = "idle" ELSE call'[d] = call[d]
  BY LeaveFields DEF Inv
<1> QED  BY <1>1, Quiet DEF UnderWay

-----------------------------------------------------------------------------
(* Type correctness.                                                       *)

LEMMA InitTypeOK == ASSUME Bounds PROVE Init => TypeOK
  BY DEF Bounds, Init, TypeOK, Idle, Calls

LEMMA SurroundingsTyped == ASSUME Bounds, TypeOK, Surroundings PROVE TypeOK'
<1>1. CASE TakeLease \/ LoseLease \/ LoseWorker
  <2>1. worker' \in BOOLEAN
    BY <1>1 DEF TakeLease, LoseLease, LoseWorker, TypeOK
  <2>2. lease' \in 0 .. leased' /\ leased' \in 0 .. MaxLease
    BY <1>1 DEF Bounds, TakeLease, LoseLease, LoseWorker, TypeOK
  <2> QED  BY <1>1, <2>1, <2>2 DEF TakeLease, LoseLease, LoseWorker, TypeOK, results, commands
<1>2. CASE \E c \in Contents \cup {Dirty} : Edit(c)
  BY <1>2 DEF Edit, TypeOK, results
<1>3. CASE \E g \in Grants : GrantVerification(g) \/ RevokeVerification(g)
  BY <1>3 DEF GrantVerification, RevokeVerification, TypeOK, results, commands
<1>4. CASE \E k \in Keys : OrphanEnds(k)
  BY <1>4 DEF OrphanEnds, TypeOK, authority, results
<1> QED  BY <1>1, <1>2, <1>3, <1>4 DEF Surroundings

LEMMA WorkerTyped == ASSUME Bounds, TypeOK, Worker PROVE TypeOK'
<1>1. CASE PublishAttemptRevision
  <2>1. [lease |-> lease, content |-> checkout] \in [lease : 1 .. MaxLease, content : Contents]
    BY <1>1 DEF Bounds, PublishAttemptRevision, ActiveAttempt, TypeOK
  <2>2. history' \in Seq([lease : 1 .. MaxLease, content : Contents]) /\ Len(history') <= MaxRevision
    BY <1>1, <2>1 DEF Bounds, PublishAttemptRevision, TypeOK
  <2> QED  BY <1>1, <2>2 DEF PublishAttemptRevision, TypeOK, results, commands
<1>2. ASSUME NEW k \in Keys, NEW n \in 1 .. MaxRevision, NEW exit \in {0, 1}, SubmitEvidence(k, n, exit) PROVE TypeOK'
  <2>1. Operation("reported", None) \in Operations
    BY DEF Operation, Operations
  <2>2. [key |-> k, rev |-> n, grant |-> None, exit |-> exit, trusted |-> FALSE]
           \in [key : Keys, rev : 1 .. MaxRevision, grant : Grants \cup {None}, exit : {0, 1}, trusted : BOOLEAN]
    OBVIOUS
  <2> QED  BY <1>2, <2>1, <2>2 DEF SubmitEvidence, TypeOK, authority, commands
<1> QED  BY <1>1, <1>2 DEF Worker

\* A caller's own steps.
LEMMA InterruptTyped ==
  ASSUME TypeOK, NEW c \in Callers, call[c].req \in Requests, InterruptVerification(c),
         process' \in [Keys -> {"none", "running", "gone"}]
  PROVE  TypeOK'
<1>1. Operation("interrupted", call[c].req) \in Operations
  BY OperationTyped
<1>2. operations' \in [Keys -> Operations \cup {None}]
  BY <1>1 DEF InterruptVerification, TypeOK
<1> QED  BY <1>2, LeaveTyped DEF InterruptVerification, TypeOK, authority

LEMMA CallTyped ==
  ASSUME Bounds, TypeOK, CallsHaveRequests, NEW c \in Callers, Advance(c)
  PROVE  TypeOK'
<1> DEFINE r == call[c].req
<1>1. CASE Request(c)
  <2>1. [call[c] EXCEPT !.pc = "admitting", !.job = TRUE] \in Calls
    BY FieldsTyped DEF TypeOK
  <2>2. call' \in [Callers -> Calls]
    BY <1>1, <2>1, LeaveTyped DEF Request, TypeOK
  <2> QED  BY <1>1, <2>2 DEF Request, TypeOK, authority, results, commands
<1>2. CASE BeginVerification(c)
  <2>1. r \in Requests
    BY <1>2 DEF BeginVerification, CallsHaveRequests
  <2>2. Operation("pending", r) \in Operations
    BY <2>1, OperationTyped
  <2>3. operations' \in [Keys -> Operations \cup {None}]
    BY <1>2, <2>2 DEF BeginVerification, TypeOK
  <2>4. call' \in [Callers -> Calls]
    BY <1>2, LeaveTyped, GoTyped DEF BeginVerification
  <2> QED  BY <1>2, <2>3, <2>4 DEF BeginVerification, TypeOK, authority, commands
<1>3. CASE Execute(c)
  <2>1. r \in Requests
    BY <1>3 DEF Execute, CallsHaveRequests
  <2>2. CASE call[c].cancelled
    BY <1>3, <2>1, <2>2, InterruptTyped DEF Execute, TypeOK
  <2>3. CASE ~call[c].cancelled
    <3>1. call' \in [Callers -> Calls]
      BY <1>3, <2>3, LeaveTyped, GoTyped DEF Execute
    <3> QED  BY <1>3, <2>3, <3>1 DEF Execute, TypeOK, authority, results, commands
  <2> QED  BY <2>2, <2>3
<1>4. CASE Launch(c)
  <2>1. r \in Requests
    BY <1>4 DEF Launch, CallsHaveRequests
  <2>2. call' \in [Callers -> Calls]
    BY <1>4, GoTyped DEF Launch
  <2> QED  BY <1>4, <2>1, <2>2 DEF Launch, TypeOK, authority, results, Requests
<1>5. CASE LaunchRefused(c)
  <2>1. r \in Requests
    BY <1>5 DEF LaunchRefused, CallsHaveRequests
  <2>2. CASE InterruptVerification(c) /\ UNCHANGED process
    BY <2>1, <2>2, InterruptTyped DEF TypeOK
  <2>3. CASE Leave(c) /\ UNCHANGED <<authority, results, closed, commands>>
    BY <2>3, LeaveTyped DEF TypeOK, authority, results, commands
  <2> QED  BY <1>5, <2>2, <2>3 DEF LaunchRefused
<1>6. ASSUME NEW exit \in {0, 1}, Finish(c, exit) PROVE TypeOK'
  <2>1. [call[c] EXCEPT !.pc = "ended", !.exit = exit] \in Calls
    BY FieldsTyped DEF TypeOK
  <2>2. call' \in [Callers -> Calls]
    BY <1>6, <2>1, IdleTyped DEF Finish, TypeOK
  <2> QED  BY <1>6, <2>2 DEF Finish, TypeOK, authority, results
<1>7. CASE Terminate(c)
  <2>1. r \in Requests
    BY <1>7 DEF Terminate, CallsHaveRequests
  <2>2. CASE process' = [process EXCEPT ![r.key] = "gone"] /\ InterruptVerification(c)
    BY <2>1, <2>2, InterruptTyped DEF TypeOK
  <2>3. CASE Leave(c) /\ UNCHANGED <<authority, results, closed, commands>>
    BY <2>3, LeaveTyped DEF TypeOK, authority, results, commands
  <2> QED  BY <1>7, <2>2, <2>3 DEF Terminate
<1>8. CASE CompleteVerification(c)
  <2>1. r \in Requests
    BY <1>8 DEF CompleteVerification, CallsHaveRequests
  <2>2. Operation("completed", r) \in Operations
    BY <2>1, OperationTyped
  <2>3. Evidence(c) \in [key : Keys, rev : 1 .. MaxRevision, grant : Grants \cup {None}, exit : {0, 1}, trusted : BOOLEAN]
    <3>1. call[c].exit \in {0, 1}
      BY DEF TypeOK, Calls
    <3>2. r.key \in Keys /\ r.rev \in 1 .. MaxRevision /\ r.grant \in Grants
      BY <2>1 DEF Requests
    <3>3. Evidence(c) = [key |-> r.key, rev |-> r.rev, grant |-> r.grant, exit |-> call[c].exit, trusted |-> TRUE]
      BY DEF Evidence
    <3> HIDE DEF r
    <3> QED  BY <3>1, <3>2, <3>3
  <2>4. operations' \in [Keys -> Operations \cup {None}]
    BY <1>8, <2>2 DEF CompleteVerification, TypeOK, results
  <2>5. evidence' \in {evidence, evidence \cup {Evidence(c)}}
    BY <1>8 DEF CompleteVerification, results
  <2>6. Leave(c) /\ UNCHANGED <<authority, closed, commands>>
    BY <1>8 DEF CompleteVerification
  <2> QED  BY <2>3, <2>4, <2>5, <2>6, LeaveTyped DEF TypeOK, authority, commands
<1> QED  BY <1>1, <1>2, <1>3, <1>4, <1>5, <1>6, <1>7, <1>8 DEF Advance

LEMMA BeginTyped ==
  ASSUME TypeOK, NEW c \in Callers, NEW r \in Requests, Access(c, r) \/ Run(c, r)
  PROVE  TypeOK'
<1>1. /\ [call[c] EXCEPT !.pc = "admitting", !.req = r] \in Calls
      /\ \A seen \in {"absent", "pending"} : [call[c] EXCEPT !.pc = "looked", !.req = r, !.seen = seen] \in Calls
  BY FieldsTyped DEF TypeOK
<1>2. call' \in [Callers -> Calls]
  BY <1>1 DEF Access, Run, TypeOK
<1> QED  BY <1>2 DEF Access, Run, TypeOK, authority, results, commands

LEMMA StopTyped ==
  ASSUME TypeOK, (\E c \in Callers : Cancel(c)) \/ \E s \in Servers : Close(s) \/ Crash(s)
  PROVE  TypeOK'
<1>1. \A d \in Calls : [d EXCEPT !.cancelled = TRUE] \in Calls
  BY FieldsTyped
<1>2. ASSUME NEW c \in Callers, Cancel(c) PROVE call' \in [Callers -> Calls]
  BY <1>1, <1>2 DEF Cancel, TypeOK
<1>3. ASSUME NEW s \in Servers, Close(s) PROVE call' \in [Callers -> Calls]
  BY <1>1, <1>3 DEF Close, TypeOK
<1>4. ASSUME NEW s \in Servers, Crash(s) PROVE call' \in [Callers -> Calls]
  BY <1>4 DEF Crash, TypeOK, Calls, Idle
<1> QED  BY <1>2, <1>3, <1>4 DEF Cancel, Close, Crash, TypeOK, authority, results, commands

LEMMA NextTyped == ASSUME Bounds, TypeOK, CallsHaveRequests, [Next]_vars PROVE TypeOK'
<1>1. CASE UNCHANGED vars
  BY <1>1 DEF vars, authority, results, commands, TypeOK
<1> QED  BY <1>1, SurroundingsTyped, WorkerTyped, CallTyped, BeginTyped, StopTyped DEF Next
-----------------------------------------------------------------------------
(* The protocol: steps of the surroundings and of the worker.              *)

LEMMA SurroundingsStep == ASSUME Inv, Surroundings PROVE Protocol'
<1>1. CASE UNCHANGED <<operations, process, starts, call>>
  BY <1>1, Stutter
<1>2. ASSUME NEW k \in Keys, OrphanEnds(k) PROVE Protocol'
  <2>1. UNCHANGED <<operations, starts, call>> /\ process' = [process EXCEPT ![k] = "gone"] /\ process[k] = "running"
    BY <1>2 DEF OrphanEnds, results
  <2> QED  BY <2>1 DEF Inv, TypeOK, Protocol, CallsHaveRequests, HoldsReservation, OneHolder, StartsAreCounted,
                       OneExecution, KnownInterruption, UnderWay
<1> QED
  BY <1>1, <1>2 DEF Surroundings, TakeLease, LoseLease, LoseWorker, Edit, GrantVerification, RevokeVerification,
                    results, commands

\* A report of the worker takes a key that nobody has reserved.
LEMMA WorkerStep == ASSUME Bounds, Inv, Worker PROVE Protocol'
<1>1. CASE PublishAttemptRevision
  BY <1>1, Quiet DEF PublishAttemptRevision, results, commands
<1>2. ASSUME NEW k \in Keys, NEW n \in 1 .. MaxRevision, NEW exit \in {0, 1}, SubmitEvidence(k, n, exit) PROVE Protocol'
  <2>1. /\ operations' = [operations EXCEPT ![k] = Operation("reported", None)] /\ operations[k] = None
        /\ UNCHANGED <<process, starts, call>>
    BY <1>2 DEF SubmitEvidence, commands
  <2>2. \A c \in Callers : UnderWay(c) => call[c].req.key # k
    BY <2>1, OperationTyped DEF Bounds, Inv, Protocol, CallsHaveRequests, HoldsReservation, UnderWay
  <2>3. Operation("reported", None).state = "reported" /\ Operation("reported", None) # None
    BY DEF Bounds, Operation, Operations
  <2>4. HoldsReservation'
    BY <2>1, <2>2 DEF Inv, TypeOK, Protocol, CallsHaveRequests, HoldsReservation, UnderWay, Requests
  <2>5. StartsAreCounted' /\ KnownInterruption'
    BY <2>1, <2>3 DEF Inv, TypeOK, Protocol, StartsAreCounted, KnownInterruption
  <2> QED  BY <2>1, <2>4, <2>5 DEF Inv, Protocol, CallsHaveRequests, OneHolder, OneExecution, UnderWay
<1> QED  BY <1>1, <1>2 DEF Worker

-----------------------------------------------------------------------------
(* The protocol: steps of a caller.                                        *)

\* An interruption is recorded by the holder of the reservation, when it has
\* started nothing or its command is gone.
LEMMA InterruptStep ==
  ASSUME Bounds, Inv, NEW c \in Callers, UnderWay(c), InterruptVerification(c),
         \/ call[c].pc \in {"prepared", "permitted"} /\ process' = process
         \/ process' = [process EXCEPT ![call[c].req.key] = "gone"] /\ call[c].pc \in {"running", "ended"}
  PROVE  Protocol'
<1> DEFINE r == call[c].req
<1>1. r \in Requests /\ r.key \in Keys
  BY DEF Inv, Protocol, CallsHaveRequests, UnderWay, Requests
<1>2. UNCHANGED starts /\ Leave(c)
  BY DEF InterruptVerification
<1>3. operations' \in {operations, [operations EXCEPT ![r.key] = Operation("interrupted", r)]}
  BY DEF InterruptVerification
<1>4. \A d \in Callers : IF d = c THEN call'[d].pc = "idle" ELSE call'[d] = call[d]
  BY <1>2, LeaveFields DEF Inv
<1>5. \A d \in Callers : UnderWay(d)' => d # c /\ UnderWay(d) /\ call'[d] = call[d] /\ call[d].req.key # r.key
  BY <1>4 DEF UnderWay, Inv, Protocol, OneHolder
<1>6. Operation("interrupted", r) # None
  BY <1>1, OperationTyped DEF Bounds
<1>7. CallsHaveRequests' /\ OneHolder' /\ OneExecution'
  BY <1>2, <1>4, <1>5 DEF Inv, Protocol, CallsHaveRequests, OneHolder, OneExecution
<1>8. HoldsReservation'
  <2>1. ASSUME NEW d \in Callers, UnderWay(d)' PROVE operations'[call[d].req.key] = operations[call[d].req.key]
    BY <1>1, <1>3, <1>5, <2>1 DEF Inv, TypeOK, Protocol, CallsHaveRequests, UnderWay, Requests
  <2> QED  BY <2>1, <1>5 DEF Inv, Protocol, HoldsReservation
<1>9. operations[r.key] # None /\ process'[r.key] # "running"
  BY <1>1, OperationTyped DEF Bounds, Inv, TypeOK, Protocol, HoldsReservation, StartsAreCounted, UnderWay
<1>10. KnownInterruption'
  <2>1. ASSUME NEW k \in Keys, k # r.key PROVE operations'[k] = operations[k] /\ process'[k] = process[k]
    BY <1>1, <1>3, <2>1 DEF Inv, TypeOK
  <2> QED  BY <2>1, <1>9 DEF Inv, Protocol, KnownInterruption
<1>11. StartsAreCounted'
  <2>1. ASSUME NEW k \in Keys PROVE /\ operations'[k] = None => operations[k] = None /\ k # r.key
                                    /\ k # r.key => process'[k] = process[k]
    BY <1>1, <1>3, <1>6, <1>9, <2>1 DEF Inv, TypeOK
  <2>2. \A k \in Keys : operations'[k] = None => starts'[k] = 0 /\ process'[k] = "none"
    BY <2>1, <1>2 DEF Inv, Protocol, StartsAreCounted
  <2>3. ASSUME NEW d \in Callers, UnderWay(d)' PROVE call'[d] = call[d] /\ process'[call[d].req.key] = process[call[d].req.key]
    BY <2>1, <2>3, <1>5 DEF Inv, Protocol, CallsHaveRequests, UnderWay, Requests
  <2> QED  BY <2>2, <2>3, <1>2 DEF Inv, Protocol, StartsAreCounted, UnderWay
<1> QED  BY <1>7, <1>8, <1>10, <1>11 DEF Protocol

LEMMA BeginStep == ASSUME Bounds, Inv, NEW c \in Callers, BeginVerification(c) PROVE Protocol'
<1> DEFINE r == call[c].req
<1>1. CASE UNCHANGED operations /\ Leave(c)
  BY <1>1, LeaveIsQuiet DEF BeginVerification, commands
<1>2. CASE Reservable(r) /\ operations' = [operations EXCEPT ![r.key] = Operation("pending", r)] /\ Go(c, "prepared")
  <2>1. r \in Requests /\ r.key \in Keys /\ operations[r.key] = None
    BY <1>2 DEF BeginVerification, Inv, Protocol, CallsHaveRequests, Requests, Reservable
  <2>2. UNCHANGED <<process, starts>>
    BY DEF BeginVerification, commands
  <2>3. \A d \in Callers : call'[d].req = call[d].req /\ call'[d].pc = IF d = c THEN "prepared" ELSE call[d].pc
    BY <1>2, GoFields DEF Inv
  <2>4. \A d \in Callers : UnderWay(d) => d # c /\ call[d].req.key # r.key
    BY <2>1, OperationTyped DEF Bounds, BeginVerification, Inv, Protocol, CallsHaveRequests,
                                HoldsReservation, UnderWay
  <2>5. \A d \in Callers : UnderWay(d)' <=> d = c \/ UnderWay(d)
    BY <2>3 DEF UnderWay
  <2>6. \A d \in Callers : UnderWay(d) => call[d].req.key \in Keys
    BY DEF Inv, Protocol, CallsHaveRequests, UnderWay, Requests
  <2>7. \A k \in Keys : operations'[k] = IF k = r.key THEN Operation("pending", r) ELSE operations[k]
    BY <1>2, <2>1 DEF Inv, TypeOK
  <2>8. Operation("pending", r) # None /\ Operation("pending", r).state = "pending"
    BY <2>1, OperationTyped DEF Bounds
  <2>9. CallsHaveRequests' /\ HoldsReservation' /\ OneHolder'
    BY <2>1, <2>3, <2>4, <2>5, <2>6, <2>7 DEF Inv, Protocol, CallsHaveRequests, HoldsReservation, OneHolder
  <2>10. StartsAreCounted'
    BY <2>1, <2>2, <2>3, <2>7, <2>8 DEF Inv, Protocol, StartsAreCounted
  <2>11. OneExecution' /\ KnownInterruption'
    BY <2>2, <2>7, <2>8 DEF Inv, Protocol, OneExecution, KnownInterruption
  <2> QED  BY <2>9, <2>10, <2>11 DEF Protocol
<1> QED  BY <1>1, <1>2 DEF BeginVerification

\* The command is started once: whoever is permitted has not started it.
LEMMA LaunchStep == ASSUME Bounds, Inv, NEW c \in Callers, Launch(c) PROVE Protocol'
<1> DEFINE k == call[c].req.key
<1>1. call[c].pc = "permitted" /\ UnderWay(c) /\ k \in Keys
  BY DEF Launch, UnderWay, Inv, Protocol, CallsHaveRequests, Requests
<1>2. /\ process' = [process EXCEPT ![k] = "running"] /\ starts' = [starts EXCEPT ![k] = @ + 1]
      /\ Go(c, "running") /\ UNCHANGED operations
  BY DEF Launch, results
<1>3. \A d \in Callers : call'[d].req = call[d].req /\ call'[d].pc = IF d = c THEN "running" ELSE call[d].pc
  BY <1>2, GoFields DEF Inv
<1>4. starts[k] = 0 /\ operations[k] = Operation("pending", call[c].req)
  BY <1>1 DEF Inv, Protocol, StartsAreCounted, HoldsReservation
<1>5. operations[k] # None /\ operations[k].state = "pending"
  BY <1>1, <1>4, OperationTyped DEF Bounds, Inv, Protocol, CallsHaveRequests
<1>6. starts' = [starts EXCEPT ![k] = 1]
  BY <1>2, <1>4
<1>7. CallsHaveRequests' /\ HoldsReservation' /\ OneHolder'
  BY <1>1, <1>2, <1>3 DEF UnderWay, Inv, Protocol, CallsHaveRequests, HoldsReservation, OneHolder
<1>8. \A j \in Keys : /\ process'[j] = IF j = k THEN "running" ELSE process[j]
                      /\ starts'[j] = IF j = k THEN 1 ELSE starts[j]
  BY <1>1, <1>2, <1>6 DEF Inv, TypeOK
<1>9. OneExecution' /\ KnownInterruption'
  BY <1>2, <1>5, <1>8 DEF Inv, Protocol, OneExecution, KnownInterruption
<1>10. \A d \in Callers : UnderWay(d) /\ d # c => call[d].req.key \in Keys \ {k}
  BY <1>1 DEF UnderWay, Inv, Protocol, OneHolder, CallsHaveRequests, Requests
<1>11. StartsAreCounted'
  BY <1>1, <1>2, <1>3, <1>5, <1>8, <1>10 DEF UnderWay, Inv, Protocol, StartsAreCounted
<1> QED  BY <1>7, <1>9, <1>11 DEF Protocol

\* The command's end is seen by the call that started it.
LEMMA FinishStep == ASSUME Bounds, Inv, NEW c \in Callers, NEW exit \in {0, 1}, Finish(c, exit) PROVE Protocol'
<1> DEFINE k == call[c].req.key
<1>1. call[c].pc = "running" /\ UnderWay(c) /\ k \in Keys /\ starts[k] = 1
  BY DEF Finish, UnderWay, Inv, Protocol, CallsHaveRequests, StartsAreCounted, Requests
<1>2. process' = [process EXCEPT ![k] = "gone"] /\ UNCHANGED <<operations, starts>>
  BY DEF Finish, results
<1>3. \A d \in Callers : /\ d # c => call'[d] = call[d]
                         /\ d = c => \/ call'[d].pc = "idle"
                                     \/ call'[d].pc = "ended" /\ call'[d].req = call[c].req
  BY DEF Finish, Inv, TypeOK, Calls, Idle
<1>4. \A d \in Callers : UnderWay(d)' => UnderWay(d) /\ call'[d].req = call[d].req
  BY <1>1, <1>3 DEF UnderWay
<1>5. CallsHaveRequests' /\ HoldsReservation' /\ OneHolder' /\ OneExecution'
  BY <1>1, <1>2, <1>3, <1>4 DEF UnderWay, Inv, Protocol, CallsHaveRequests, HoldsReservation, OneHolder,
                                OneExecution
<1>6. \A j \in Keys : process'[j] = IF j = k THEN "gone" ELSE process[j]
  BY <1>1, <1>2 DEF Inv, TypeOK
<1>7. \A d \in Callers : UnderWay(d) /\ d # c => call[d].req.key \in Keys \ {k}
  BY <1>1 DEF UnderWay, Inv, Protocol, OneHolder, CallsHaveRequests, Requests
<1>8. operations[k] # None
  BY <1>1, OperationTyped DEF Bounds, Inv, Protocol, CallsHaveRequests, HoldsReservation
<1>9. StartsAreCounted' /\ KnownInterruption'
  BY <1>1, <1>2, <1>3, <1>6, <1>7, <1>8 DEF UnderWay, Inv, Protocol, StartsAreCounted, KnownInterruption
<1> QED  BY <1>5, <1>9 DEF Protocol

LEMMA CompleteStep == ASSUME Bounds, Inv, NEW c \in Callers, CompleteVerification(c) PROVE Protocol'
<1> DEFINE r == call[c].req
<1>1. Leave(c) /\ UNCHANGED <<process, starts>> /\ UnderWay(c)
  BY DEF CompleteVerification, UnderWay, commands
<1>2. CASE UNCHANGED operations
  BY <1>1, <1>2, LeaveIsQuiet
<1>3. CASE operations' = [operations EXCEPT ![r.key] = Operation("completed", r)]
  <2>1. r \in Requests /\ r.key \in Keys
    BY <1>1 DEF Inv, Protocol, CallsHaveRequests, UnderWay, Requests
  <2>2. \A d \in Callers : IF d = c THEN call'[d].pc = "idle" ELSE call'[d] = call[d]
    BY <1>1, LeaveFields DEF Inv
  <2>3. \A d \in Callers : UnderWay(d)' => /\ d # c /\ UnderWay(d) /\ call'[d] = call[d]
                                           /\ call[d].req.key \in Keys \ {r.key}
    BY <1>1, <2>2 DEF UnderWay, Inv, Protocol, OneHolder, CallsHaveRequests, Requests
  <2>4. \A j \in Keys : operations'[j] = IF j = r.key THEN Operation("completed", r) ELSE operations[j]
    BY <1>3, <2>1 DEF Inv, TypeOK
  <2>5. Operation("completed", r) # None /\ Operation("completed", r).state = "completed"
    BY <2>1, OperationTyped DEF Bounds
  <2>6. CallsHaveRequests' /\ HoldsReservation' /\ OneHolder'
    BY <2>2, <2>3, <2>4 DEF Inv, Protocol, CallsHaveRequests, HoldsReservation, OneHolder
  <2>7. StartsAreCounted' /\ OneExecution' /\ KnownInterruption'
    BY <1>1, <2>2, <2>3, <2>4, <2>5 DEF UnderWay, Inv, Protocol, StartsAreCounted, OneExecution,
                                        KnownInterruption
  <2> QED  BY <2>6, <2>7 DEF Protocol
<1> QED  BY <1>2, <1>3 DEF CompleteVerification, results

LEMMA CallStep == ASSUME Bounds, Inv, NEW c \in Callers, Advance(c) PROVE Protocol'
<1>1. CASE Request(c)
  <2>1. CASE Leave(c)
    BY <1>1, <2>1, LeaveIsQuiet DEF Request, results, commands
  <2>2. CASE call' = [call EXCEPT ![c].pc = "admitting", ![c].job = TRUE]
    <3>1. \A d \in Callers : d # c => call'[d] = call[d]
      BY <2>2 DEF Inv, TypeOK
    <3>2. call'[c].pc = "admitting" /\ call'[c].req = call[c].req /\ call[c].req \in Requests
      BY <1>1, <2>2 DEF Request, Inv, TypeOK, Calls, Protocol, CallsHaveRequests
    <3> QED  BY <1>1, <3>1, <3>2, Quiet DEF Request, UnderWay, results, commands
  <2> QED  BY <1>1, <2>1, <2>2 DEF Request
<1>2. CASE Execute(c)
  <2>1. CASE call[c].cancelled
    BY <1>2, <2>1, InterruptStep DEF Execute, UnderWay
  <2>2. CASE Leave(c) /\ ~call[c].cancelled
    BY <1>2, <2>2, LeaveIsQuiet DEF Execute, results, commands
  <2>3. CASE Go(c, "permitted") /\ ~call[c].cancelled
    <3>1. \A d \in Callers : call'[d].req = call[d].req /\ call'[d].pc = IF d = c THEN "permitted" ELSE call[d].pc
      BY <2>3, GoFields DEF Inv
    <3> QED  BY <1>2, <2>3, <3>1, Quiet DEF Execute, results, commands
  <2> QED  BY <1>2, <2>1, <2>2, <2>3 DEF Execute
<1>3. CASE LaunchRefused(c)
  BY <1>3, InterruptStep, LeaveIsQuiet DEF LaunchRefused, UnderWay, results, commands
<1>4. CASE Terminate(c)
  BY <1>4, InterruptStep, LeaveIsQuiet DEF Terminate, UnderWay, results, commands
<1> QED  BY <1>1, <1>2, <1>3, <1>4, BeginStep, LaunchStep, FinishStep, CompleteStep DEF Advance

\* Calls begin and are cancelled, servers are closed and die.
LEMMA OtherStep ==
  ASSUME Inv, \/ \E c \in Callers : Cancel(c) \/ \E r \in Requests : Access(c, r) \/ Run(c, r)
              \/ \E s \in Servers : Close(s) \/ Crash(s)
  PROVE  Protocol'
<1>1. ASSUME NEW c \in Callers, NEW r \in Requests, Access(c, r) \/ Run(c, r) PROVE Protocol'
  <2>1. \A d \in Callers : d # c => call'[d] = call[d]
    BY <1>1 DEF Access, Run, Inv, TypeOK
  <2>2. call'[c].pc \in {"looked", "admitting"} /\ call'[c].req = r
    <3>1. call[c] \in Calls
      BY DEF Inv, TypeOK
    <3>2. CASE Access(c, r)
      <4>1. call'[c] = [call[c] EXCEPT !.pc = "looked", !.req = r, !.seen = LookupVerification(r)]
        BY <3>2 DEF Access, Inv, TypeOK
      <4> QED  BY <3>1, <4>1 DEF Calls
    <3>3. CASE Run(c, r)
      <4>1. call'[c] = [call[c] EXCEPT !.pc = "admitting", !.req = r]
        BY <3>3 DEF Run, Inv, TypeOK
      <4> QED  BY <3>1, <4>1 DEF Calls
    <3> QED  BY <1>1, <3>2, <3>3
  <2> QED  BY <1>1, <2>1, <2>2, Quiet DEF Access, Run, UnderWay, results, commands
<1>2. ASSUME NEW c \in Callers, Cancel(c) PROVE Protocol'
  <2>1. \A d \in Callers : call'[d].pc = call[d].pc /\ call'[d].req = call[d].req
    BY <1>2 DEF Cancel, Inv, TypeOK, Calls
  <2> QED  BY <1>2, <2>1, Quiet DEF Cancel, results, commands
<1>3. ASSUME NEW s \in Servers, Close(s) PROVE Protocol'
  <2>1. \A d \in Callers : call'[d].pc = call[d].pc /\ call'[d].req = call[d].req
    BY <1>3 DEF Close, Inv, TypeOK, Calls
  <2> QED  BY <1>3, <2>1, Quiet DEF Close, results, commands
<1>4. ASSUME NEW s \in Servers, Crash(s) PROVE Protocol'
  <2>1. \A d \in Callers : call'[d] = call[d] \/ call'[d].pc = "idle"
    BY <1>4 DEF Crash, Idle
  <2> QED  BY <1>4, <2>1, Quiet DEF Crash, UnderWay, results, commands
<1> QED  BY <1>1, <1>2, <1>3, <1>4

-----------------------------------------------------------------------------
LEMMA InitInv == ASSUME Bounds PROVE Init => Inv
<1> SUFFICES ASSUME Init PROVE Inv
  OBVIOUS
<1>1. \A c \in Callers : call[c].pc = "idle"
  BY DEF Init, Idle
<1>2. Protocol
  BY <1>1 DEF Init, Protocol, CallsHaveRequests, HoldsReservation, OneHolder, StartsAreCounted, OneExecution,
              KnownInterruption, UnderWay
<1> QED  BY <1>2, InitTypeOK DEF Inv

LEMMA InvStep == ASSUME Bounds PROVE Inv /\ [Next]_vars => Inv'
<1> SUFFICES ASSUME Inv, [Next]_vars PROVE Inv'
  OBVIOUS
<1>1. TypeOK'
  BY NextTyped DEF Inv, Protocol
<1>2. CASE UNCHANGED vars
  <2>1. UNCHANGED <<operations, process, starts, call>>
    BY <1>2 DEF vars, results, commands
  <2> QED  BY <1>1, <2>1, Stutter DEF Inv
<1>3. ASSUME Surroundings \/ Worker PROVE Protocol'
  BY <1>3, SurroundingsStep, WorkerStep
<1>4. ASSUME NEW c \in Callers, Advance(c) PROVE Protocol'
  BY <1>4, CallStep
<1> QED  BY <1>1, <1>2, <1>3, <1>4, OtherStep DEF Next, Inv

LEMMA Invariance == ASSUME Bounds PROVE Spec => []Inv
  BY InitInv, InvStep, PTL DEF Spec

\* A reserved check is executed at most once, whatever callers retry, servers
\* die and clean-ups fail (ExecuteVerification, "must never execute it again"),
\* and an interruption is recorded only of a command that is not running.
THEOREM ExecutedOnce == ASSUME Bounds PROVE Spec => [](OneExecution /\ KnownInterruption)
<1>1. Inv => OneExecution /\ KnownInterruption
  BY DEF Inv, Protocol
<1> QED  BY <1>1, Invariance, PTL


\* Trusted evidence enters the record only from CompleteVerification, which
\* makes every check of the reservation again: the revision is the newest, the
\* checkout holds its tree, lease and grant are in force, and one command ran.
THEOREM EvidenceOfCurrent == ASSUME Bounds PROVE Spec => EvidenceIsCurrent
<1>1. ASSUME NEW c \in Callers, Inv, CompleteVerification(c) PROVE EntersCurrent
  <2> DEFINE r == call[c].req
  <2>1. ASSUME NEW e \in evidence' \ evidence
        PROVE  /\ e.rev = Len(history) /\ checkout = history[e.rev].content
               /\ worker /\ lease = history[e.rev].lease /\ grants[e.grant] = "valid"
               /\ starts[e.key] = 1 /\ process[e.key] = "gone"
    <3>1. Recordable(r) /\ e = Evidence(c)
      BY <1>1, <2>1 DEF CompleteVerification, results
    <3>2. e.rev = r.rev /\ e.key = r.key /\ e.grant = r.grant
      BY <3>1 DEF Evidence
    <3>3. starts[r.key] = 1 /\ process[r.key] = "gone"
      BY <1>1 DEF CompleteVerification, Inv, Protocol, StartsAreCounted
    <3> QED
      BY <3>1, <3>2, <3>3 DEF Recordable, MayVerify, ActiveAttempt, RunnerAuth, CurrentRevision, ObserveRevision
  <2> QED  BY <2>1 DEF EntersCurrent
<1>2. ASSUME NEW k \in Keys, NEW n \in 1 .. MaxRevision, NEW exit \in {0, 1}, SubmitEvidence(k, n, exit)
      PROVE  EntersCurrent
  BY <1>2 DEF SubmitEvidence, EntersCurrent
<1>3. ASSUME UNCHANGED evidence PROVE EntersCurrent
  BY <1>3 DEF EntersCurrent
<1>4. ASSUME NEW c \in Callers, InterruptVerification(c) PROVE UNCHANGED evidence
  BY <1>4 DEF InterruptVerification
<1>5. ASSUME Surroundings \/ PublishAttemptRevision \/ UNCHANGED vars PROVE EntersCurrent
  BY <1>3, <1>5 DEF Surroundings, TakeLease, LoseLease, LoseWorker, Edit, GrantVerification,
                    RevokeVerification, OrphanEnds,
                    PublishAttemptRevision, vars, results
<1>6. ASSUME NEW c \in Callers, Advance(c), Inv PROVE EntersCurrent
  BY <1>1, <1>3, <1>4, <1>6 DEF Advance, Request, BeginVerification, Execute, Launch, LaunchRefused, Finish,
                                Terminate, results
<1>7. ASSUME \/ \E c \in Callers : Cancel(c) \/ \E r \in Requests : Access(c, r) \/ Run(c, r)
             \/ \E s \in Servers : Close(s) \/ Crash(s)
      PROVE  EntersCurrent
  BY <1>3, <1>7 DEF Cancel, Access, Run, Close, Crash, results
<1>8. Inv /\ [Next]_vars => [EntersCurrent]_vars
  BY <1>2, <1>5, <1>6, <1>7 DEF Next, Worker
<1> QED  BY <1>8, Invariance, PTL DEF Spec, EvidenceIsCurrent

\* What is recorded under a key as completed, interrupted or reported stays,
\* and so does its evidence: whoever asks again reads the same result.
THEOREM ResultsAreFinal == ASSUME Bounds PROVE Spec => ResultIsFinal
<1>1. ASSUME UNCHANGED results PROVE ResultsStay
  BY <1>1 DEF results, ResultsStay
<1>2. ASSUME Inv, NEW k \in Keys,
             operations[k] \in {None, Operation("pending", None)} \cup {Operation("pending", r) : r \in Requests},
             NEW op, operations' = [operations EXCEPT ![k] = op],
             \A e \in (evidence \ evidence') \cup (evidence' \ evidence) : e.key = k
      PROVE  ResultsStay
  <2>1. operations[k] # None => operations[k].state = "pending"
    BY <1>2 DEF Operation
  <2>2. \A j \in Keys \ {k} : operations'[j] = operations[j]
    BY <1>2 DEF Inv, TypeOK
  <2>3. \A j \in Keys \ {k} : {e \in evidence' : e.key = j} = {e \in evidence : e.key = j}
    BY <1>2
  <2> QED  BY <2>1, <2>2, <2>3 DEF ResultsStay
<1>3. ASSUME Inv, NEW k \in Keys, NEW n \in 1 .. MaxRevision, NEW exit \in {0, 1}, SubmitEvidence(k, n, exit)
      PROVE  ResultsStay
  <2>1. evidence' = evidence \cup {[key |-> k, rev |-> n, grant |-> None, exit |-> exit, trusted |-> FALSE]}
    BY <1>3 DEF SubmitEvidence
  <2>2. \A e \in (evidence \ evidence') \cup (evidence' \ evidence) : e.key = k
    BY <2>1
  <2>3. operations' = [operations EXCEPT ![k] = Operation("reported", None)] /\ operations[k] = None
    BY <1>3 DEF SubmitEvidence
  <2> QED  BY <1>2, <1>3, <2>2, <2>3
<1>4. ASSUME Bounds, Inv, NEW c \in Callers, InterruptVerification(c), UnderWay(c) PROVE ResultsStay
  <2>1. call[c].req.key \in Keys /\ call[c].req \in Requests /\ UNCHANGED evidence
    BY <1>4 DEF InterruptVerification, UnderWay, Inv, Protocol, CallsHaveRequests, Requests
  <2>2. CASE UNCHANGED operations
    BY <1>1, <2>1, <2>2 DEF results
  <2>3. CASE operations' = [operations EXCEPT ![call[c].req.key] = Operation("interrupted", call[c].req)]
    BY <1>2, <1>4, <2>1, <2>3 DEF Inv, Protocol, HoldsReservation
  <2> QED  BY <1>4, <2>2, <2>3 DEF InterruptVerification
<1>5. ASSUME Bounds, Inv, NEW c \in Callers, BeginVerification(c) PROVE ResultsStay
  <2>1. call[c].req.key \in Keys /\ UNCHANGED evidence
    BY <1>5 DEF BeginVerification, Inv, Protocol, CallsHaveRequests, Requests
  <2> QED  BY <1>1, <1>2, <1>5, <2>1 DEF BeginVerification, Reservable, results
<1>6. ASSUME Bounds, Inv, NEW c \in Callers, CompleteVerification(c) PROVE ResultsStay
  <2>1. call[c].req.key \in Keys /\ call[c].req \in Requests
    BY <1>6 DEF CompleteVerification, Inv, Protocol, CallsHaveRequests, Requests
  <2>2. CASE Recordable(call[c].req)
    <3>1. operations' = [operations EXCEPT ![call[c].req.key] = Operation("completed", call[c].req)]
      BY <1>6, <2>2 DEF CompleteVerification
    <3>2. evidence' = evidence \cup {Evidence(c)} /\ Evidence(c).key = call[c].req.key
      BY <1>6, <2>2 DEF CompleteVerification, Evidence
    <3>3. operations[call[c].req.key] = Operation("pending", call[c].req)
      BY <2>2 DEF Recordable
    <3> QED  BY <1>2, <1>6, <2>1, <3>1, <3>2, <3>3
  <2>3. CASE ~Recordable(call[c].req)
    BY <1>1, <1>6, <2>3 DEF CompleteVerification
  <2> QED  BY <2>2, <2>3
<1>7. ASSUME Surroundings \/ PublishAttemptRevision \/ UNCHANGED vars PROVE ResultsStay
  BY <1>1, <1>7 DEF Surroundings, TakeLease, LoseLease, LoseWorker, Edit, GrantVerification,
                    RevokeVerification, OrphanEnds,
                    PublishAttemptRevision, vars
<1>8. ASSUME Bounds, Inv, NEW c \in Callers, Advance(c) PROVE ResultsStay
  BY <1>1, <1>4, <1>5, <1>6, <1>8 DEF Advance, Request, Execute, Launch, LaunchRefused, Finish, Terminate,
                                      UnderWay
<1>9. ASSUME \/ \E c \in Callers : Cancel(c) \/ \E r \in Requests : Access(c, r) \/ Run(c, r)
             \/ \E s \in Servers : Close(s) \/ Crash(s)
      PROVE  ResultsStay
  BY <1>1, <1>9 DEF Cancel, Access, Run, Close, Crash
<1>10. Inv /\ [Next]_vars => [ResultsStay]_vars
  BY <1>3, <1>7, <1>8, <1>9 DEF Next, Worker
<1> QED  BY <1>10, Invariance, PTL DEF Spec, ResultIsFinal

-----------------------------------------------------------------------------
(* The acceptance.                                                         *)

\* One owner applies at a time, for a decision about what it accepts.
OneApplies ==
    /\ \A o, p \in Owners : phase[o] # "idle" /\ phase[p] # "idle" => o = p
    /\ \A o \in Owners : phase[o] # "idle" =>
          /\ args[o] \in A!Calls /\ decisions[args[o].decision] # None
          /\ decisions[args[o].decision].input = args[o].input
    /\ \A o \in Owners : phase[o] \notin {"idle", "locked"} => terminal # None

\* A decision was made about an approval of the checklist it would write.
DecidedAsReviewed == \A d \in Decisions : decisions[d] # None =>
    /\ decisions[d].input.review.outcome = "approve"
    /\ decisions[d].outcome = [version |-> decisions[d].input.review.seen, marker |-> d]

\* The task is retired as it was decided.
RetiredAsDecided == terminal # None =>
    /\ decisions[terminal.decision] # None
    /\ terminal.input = decisions[terminal.decision].input
    /\ terminal.outcome = decisions[terminal.decision].outcome

\* What was checked before the file is written still holds.
PermittedHolds == \A o \in Owners : phase[o] = "permitted" =>
    /\ terminal.input.review.rev = rev /\ rev \in checked \cap landed
    /\ policy = decisions[terminal.decision].policy /\ Policies[policy].allow
    /\ Policies[policy].approval => terminal.decision \in approvals

AcceptanceInv == A!TypeOK /\ OneApplies /\ DecidedAsReviewed /\ RetiredAsDecided /\ A!MarkerIsRecorded /\ PermittedHolds

-----------------------------------------------------------------------------
\* Nobody applies and nothing is decided at first.
LEMMA AcceptanceInit == ASSUME A!Bounds, A!Init PROVE AcceptanceInv
<1>1. A!TypeOK
  BY DEF A!Bounds, A!Init, A!TypeOK, A!Revisions, A!Versions
<1> QED BY <1>1 DEF A!Init, AcceptanceInv, OneApplies, DecidedAsReviewed, RetiredAsDecided,
                    A!MarkerIsRecorded, PermittedHolds

\* What happens around the acceptance.
LEMMA SurroundingsKeep == ASSUME A!Bounds, AcceptanceInv, A!Surroundings PROVE AcceptanceInv'
<1> USE DEF AcceptanceInv, A!verified, A!reviewed, A!decided
<1>1. A!TypeOK'
  <2>1. CASE A!Publish \/ A!Verify \/ A!Land
    <3>1. rev' \in A!Revisions /\ clean' \in BOOLEAN /\ checked' \subseteq A!Revisions /\ landed' \subseteq A!Revisions
      <4>1. rev \in A!Revisions /\ MaxRevision \in Nat /\ checked \subseteq A!Revisions /\ landed \subseteq A!Revisions
        BY DEF A!TypeOK, A!Bounds
      <4>2. CASE A!Publish
        BY <4>1, <4>2 DEF A!Publish, A!Revisions
      <4>3. CASE A!Verify \/ A!Land
        BY <4>1, <4>3 DEF A!Verify, A!Land, A!TypeOK
      <4> QED BY <2>1, <4>2, <4>3
    <3>2. UNCHANGED <<current, A!reviewed, A!decided, consumed, terminal, file, phase, args>>
      BY <2>1 DEF A!Publish, A!Verify, A!Land
    <3> QED BY <3>1, <3>2 DEF A!TypeOK
  <2>2. CASE A!LoseWorker \/ A!Dirties
    BY <2>2 DEF A!LoseWorker, A!Dirties, A!TypeOK
  <2>3. CASE A!EditTask \/ A!MoveElsewhere
    <3>1. file' \in [version : A!Versions, marker : Decisions \cup {None}, done : BOOLEAN]
      <4>1. file.version \in 0 .. MaxVersion /\ MaxVersion \in Nat /\ DOMAIN file = {"version", "marker", "done"}
        BY DEF A!TypeOK, A!Versions, A!Bounds
      <4>2. CASE A!EditTask
        <5>1. file.version + 1 \in A!Versions
          BY <4>1, <4>2 DEF A!EditTask, A!Versions
        <5> QED BY <4>2, <5>1 DEF A!EditTask, A!TypeOK
      <4>3. CASE A!MoveElsewhere
        BY <4>3 DEF A!MoveElsewhere, A!TypeOK
      <4> QED BY <2>3, <4>2, <4>3
    <3>2. UNCHANGED <<A!verified, A!reviewed, A!decided, consumed, terminal, phase, args>>
      BY <2>3 DEF A!EditTask, A!MoveElsewhere
    <3> QED BY <3>1, <3>2 DEF A!TypeOK
  <2> QED BY <2>1, <2>2, <2>3 DEF A!Surroundings
<1>2. UNCHANGED <<decisions, terminal, phase, args, approvals, policy>> /\ file'.marker = file.marker
  BY DEF AcceptanceInv, A!TypeOK, A!Surroundings, A!Publish, A!Verify, A!Land, A!LoseWorker, A!Dirties,
         A!EditTask,
         A!MoveElsewhere, A!verified, A!reviewed, A!decided
<1>3. PermittedHolds'
  <2>1. CASE ~A!AuthorityFree
    <3>1. rev' = rev /\ checked' = checked /\ landed \subseteq landed'
      BY <2>1 DEF A!Surroundings, A!Publish, A!Verify, A!Land, A!LoseWorker, A!Dirties, A!EditTask,
                  A!MoveElsewhere, A!verified
    <3> QED BY <1>2, <3>1 DEF AcceptanceInv, PermittedHolds
  <2>2. CASE A!AuthorityFree
    BY <1>2, <2>2 DEF A!AuthorityFree, PermittedHolds
  <2> QED BY <2>1, <2>2
<1> QED BY <1>1, <1>2, <1>3 DEF AcceptanceInv, OneApplies, DecidedAsReviewed, RetiredAsDecided,
                                A!MarkerIsRecorded

\* A step of the reviewers, the policy or the decisions, which a closing in
\* progress excludes.
LEMMA AuthoriseKeeps == ASSUME A!Bounds, AcceptanceInv, A!Authorise PROVE AcceptanceInv'
<1>1. CASE \E r \in Reviewers : \/ A!GrantReview(r) \/ A!RevokeReview(r)
                                \/ \E outcome \in {"approve", "request-changes"} : A!ProposeReview(r, outcome)
  <2>1. PICK r \in Reviewers : \/ A!GrantReview(r) \/ A!RevokeReview(r)
                               \/ \E outcome \in {"approve", "request-changes"} : A!ProposeReview(r, outcome)
    BY <1>1
  <2>2. reviewers' \in [Reviewers -> A!Versions \cup {None}] /\ reviews' \subseteq A!ReviewRows
    <3>1. CASE A!GrantReview(r) \/ A!RevokeReview(r)
      BY <3>1 DEF A!GrantReview, A!RevokeReview, AcceptanceInv, A!TypeOK
    <3>2. ASSUME NEW outcome \in {"approve", "request-changes"}, A!ProposeReview(r, outcome)
          PROVE  reviewers' \in [Reviewers -> A!Versions \cup {None}] /\ reviews' \subseteq A!ReviewRows
      <4>1. [reviewer |-> r, rev |-> rev, seen |-> A!Observed, outcome |-> outcome] \in A!ReviewRows
        BY DEF A!ReviewRows, AcceptanceInv, A!TypeOK, A!Observed
      <4> QED BY <3>2, <4>1 DEF A!ProposeReview, AcceptanceInv, A!TypeOK
    <3> QED BY <2>1, <3>1, <3>2
  <2>3. UNCHANGED <<A!verified, A!decided, consumed, terminal, file, phase, args>>
    BY <2>1 DEF A!GrantReview, A!RevokeReview, A!ProposeReview
  <2> QED BY <2>2, <2>3 DEF AcceptanceInv, A!TypeOK, OneApplies, DecidedAsReviewed, RetiredAsDecided,
                            A!MarkerIsRecorded, PermittedHolds,
                            A!verified, A!decided
<1>2. CASE \E p \in DOMAIN Policies : A!ConfigureNativePolicy(p)
  BY <1>2 DEF A!ConfigureNativePolicy, A!AuthorityFree, AcceptanceInv, A!TypeOK, OneApplies,
              DecidedAsReviewed, RetiredAsDecided,
              A!MarkerIsRecorded, PermittedHolds, A!verified, A!reviewed
<1>3. CASE \E d \in Decisions : A!ApproveNativePolicy(d) \/ A!Lapse(d)
  BY <1>3 DEF A!ApproveNativePolicy, A!Lapse, A!AuthorityFree, AcceptanceInv, A!TypeOK, OneApplies,
              DecidedAsReviewed, RetiredAsDecided,
              A!MarkerIsRecorded, PermittedHolds, A!verified, A!reviewed
<1>4. ASSUME NEW d \in Decisions, NEW in \in A!Inputs, A!EvaluateNativePolicy(d, in) PROVE AcceptanceInv'
  <2> DEFINE row == [input |-> in, policy |-> policy, outcome |-> A!Outcome(d)]
  <2>1. /\ decisions[d] = None /\ policy # None /\ A!TaskFree /\ A!AuthorityFree /\ terminal = None
        /\ in.review.outcome = "approve" /\ file.version = in.review.seen /\ decisions' = [decisions EXCEPT ![d] = row]
        /\ UNCHANGED <<A!verified, A!reviewed, policy, used, approvals, lapsed, consumed, terminal, file, phase, args>>
    BY <1>4 DEF A!EvaluateNativePolicy, A!AcceptanceCurrent, A!ReviewCurrent, A!Observed
  <2>2. row \in A!DecisionRows /\ row # None
    <3>1. in \in A!InputRows /\ policy \in DOMAIN Policies /\ A!Outcome(d) \in A!Outcomes
      BY <1>4, <2>1 DEF A!Inputs, A!InputRows, AcceptanceInv, A!TypeOK, A!Outcome, A!Outcomes
    <3>2. row \in A!DecisionRows
      BY <3>1 DEF A!DecisionRows
    <3> QED BY <3>2 DEF A!Bounds
  <2> HIDE DEF row
  <2>3. decisions' \in [Decisions -> A!DecisionRows \cup {None}] /\ decisions'[d] = row
        /\ \A c \in Decisions \ {d} : decisions'[c] = decisions[c]
    BY <2>1, <2>2 DEF AcceptanceInv, A!TypeOK
  <2>4. A!TypeOK'
    BY <2>1, <2>2, <2>3 DEF AcceptanceInv, A!TypeOK, A!verified, A!reviewed
  <2>5. row.input = in /\ row.outcome = [version |-> in.review.seen, marker |-> d]
    BY <2>1 DEF row, A!Outcome
  <2>6. DecidedAsReviewed'
    BY <2>1, <2>3, <2>5 DEF AcceptanceInv, DecidedAsReviewed
  <2>7. OneApplies' /\ RetiredAsDecided' /\ A!MarkerIsRecorded' /\ PermittedHolds'
    BY <2>1 DEF AcceptanceInv, A!TaskFree, OneApplies, RetiredAsDecided, A!MarkerIsRecorded, PermittedHolds
  <2> QED BY <2>4, <2>6, <2>7 DEF AcceptanceInv
<1> QED BY <1>1, <1>2, <1>3, <1>4 DEF A!Authorise

\* Retiring the task: what was decided becomes what is recorded.
LEMMA BeginKeeps ==
    ASSUME A!Bounds, AcceptanceInv, NEW o \in Owners, A!BeginNativeAcceptance(o)
    PROVE  AcceptanceInv' /\ (terminal # None => UNCHANGED <<terminal, consumed>>)
<1> DEFINE in  == args[o].input
           d   == args[o].decision
           row == [input |-> in, decision |-> d, outcome |-> decisions[d].outcome, state |-> "closing"]
<1>1. /\ phase[o] = "locked" /\ A!AuthorityFree /\ A!Step(o, "begun")
      /\ UNCHANGED <<A!verified, A!reviewed, A!decided, file, args, crashes>>
      /\ \/ terminal # None /\ UNCHANGED <<consumed, terminal>>
         \/ terminal = None /\ file.marker = None /\ consumed' = [consumed EXCEPT ![d] = in.key] /\ terminal' = row
  BY DEF A!BeginNativeAcceptance, A!Resumable, A!Retirable, A!Preparable
<1>2. /\ in \in A!InputRows /\ d \in Decisions /\ decisions[d] # None /\ decisions[d].input = in
      /\ decisions[d] \in A!DecisionRows
  BY <1>1 DEF AcceptanceInv, OneApplies, A!TypeOK, A!Calls
<1>3. row \in A!Terminals /\ row # None
  <2>1. decisions[d].outcome \in A!Outcomes
    BY <1>2 DEF A!DecisionRows
  <2>2. row \in A!Terminals
    BY <1>2, <2>1 DEF A!Terminals
  <2> QED BY <2>2 DEF A!Bounds
<1>4. terminal' \in A!Terminals /\ terminal' # None /\ consumed' \in [Decisions -> Keys \cup {None}]
  <2>1. in.key \in Keys
    BY <1>2 DEF A!InputRows
  <2> HIDE DEF row, in, d
  <2> QED BY <1>1, <1>3, <2>1 DEF AcceptanceInv, A!TypeOK
<1>5. A!TypeOK'
  BY <1>1, <1>4 DEF AcceptanceInv, A!TypeOK, A!Step, A!verified, A!reviewed, A!decided
<1>6. OneApplies' /\ DecidedAsReviewed'
  BY <1>1, <1>4 DEF AcceptanceInv, A!TypeOK, OneApplies, DecidedAsReviewed, A!Step, A!decided
<1>7. RetiredAsDecided' /\ A!MarkerIsRecorded'
  <2>1. CASE UNCHANGED terminal
    BY <1>1, <2>1 DEF AcceptanceInv, RetiredAsDecided, A!MarkerIsRecorded, A!decided
  <2>2. CASE terminal' = row /\ file.marker = None
    <3>1. terminal'.input = in /\ terminal'.decision = d /\ terminal'.outcome = decisions[d].outcome
      BY <2>2
    <3> HIDE DEF row, in, d
    <3> QED BY <1>1, <1>2, <2>2, <3>1 DEF RetiredAsDecided, A!MarkerIsRecorded, A!decided
  <2> QED BY <1>1, <2>1, <2>2
<1>8. PermittedHolds'
  BY <1>1 DEF A!AuthorityFree, PermittedHolds, A!Step, AcceptanceInv, A!TypeOK
<1> QED BY <1>1, <1>5, <1>6, <1>7, <1>8 DEF AcceptanceInv

\* The checks are made, and hold as long as the transaction lasts.
LEMMA ContinueKeeps == ASSUME AcceptanceInv, NEW o \in Owners, A!ContinueNativeAcceptance(o) PROVE AcceptanceInv'
<1>1. /\ phase[o] = "begun" /\ A!AuthorityFree /\ A!Permitted(o) /\ A!Step(o, "permitted")
      /\ UNCHANGED <<A!verified, A!reviewed, A!decided, consumed, terminal, file, args, crashes>>
  BY DEF A!ContinueNativeAcceptance
<1>2. A!TypeOK' /\ OneApplies' /\ DecidedAsReviewed' /\ RetiredAsDecided' /\ A!MarkerIsRecorded'
  BY <1>1 DEF AcceptanceInv, A!TypeOK, OneApplies, DecidedAsReviewed, RetiredAsDecided, A!MarkerIsRecorded,
              A!Step,
              A!verified, A!reviewed, A!decided
<1>3. PermittedHolds'
  <2>1. /\ terminal.input.review.rev = rev /\ rev \in checked \cap landed
        /\ policy = decisions[terminal.decision].policy /\ Policies[policy].allow
        /\ Policies[policy].approval => terminal.decision \in approvals
    BY <1>1 DEF A!Permitted, A!AcceptanceCurrent, A!ReviewCurrent, A!PolicyCurrent, A!Landed
  <2> QED BY <1>1, <2>1 DEF PermittedHolds, A!verified, A!decided
<1> QED BY <1>2, <1>3 DEF AcceptanceInv

\* What the record says was prepared from the reviewed checklist.
LEMMA RecordedAsReviewed ==
    ASSUME AcceptanceInv, terminal # None
    PROVE  /\ terminal.decision \in Decisions /\ terminal.input.review.outcome = "approve"
           /\ terminal.outcome.version = terminal.input.review.seen
           /\ terminal.outcome.marker = terminal.decision
<1> DEFINE d == terminal.decision
<1>1. d \in Decisions
  BY DEF AcceptanceInv, A!TypeOK, A!Terminals
<1>2. decisions[d] # None /\ terminal.outcome = decisions[d].outcome /\ terminal.input = decisions[d].input
  BY DEF AcceptanceInv, RetiredAsDecided
<1>3. /\ decisions[d].input.review.outcome = "approve"
      /\ decisions[d].outcome = [version |-> decisions[d].input.review.seen, marker |-> d]
  BY <1>1, <1>2 DEF AcceptanceInv, DecidedAsReviewed
<1> HIDE DEF d
<1>4. terminal.outcome.version = terminal.input.review.seen /\ terminal.outcome.marker = d
  BY <1>2, <1>3
<1> QED BY <1>1, <1>2, <1>3, <1>4 DEF d

\* The file becomes what was prepared.
LEMMA SaveKeeps == ASSUME AcceptanceInv, NEW o \in Owners, A!SaveTask(o) PROVE AcceptanceInv'
<1>1. /\ phase[o] = "permitted" /\ terminal # None /\ A!Step(o, "saved")
      /\ file' = [file EXCEPT !.version = terminal.outcome.version, !.marker = terminal.outcome.marker]
      /\ UNCHANGED <<A!verified, A!reviewed, A!decided, consumed, terminal, args, crashes>>
  BY DEF A!SaveTask, AcceptanceInv, OneApplies
<1>2. terminal \in A!Terminals /\ terminal.decision \in Decisions /\ terminal.outcome \in A!Outcomes
  BY <1>1 DEF AcceptanceInv, A!TypeOK, A!Terminals
<1>3. terminal.outcome.marker = terminal.decision
  BY <1>1, RecordedAsReviewed
<1>4. file' \in [version : A!Versions, marker : Decisions \cup {None}, done : BOOLEAN] /\ file'.marker = terminal.decision
  <2>1. terminal.outcome.version \in A!Versions
    BY <1>2 DEF A!Outcomes
  <2> QED BY <1>1, <1>2, <1>3, <2>1 DEF AcceptanceInv, A!TypeOK
<1>5. A!TypeOK'
  BY <1>1, <1>4 DEF AcceptanceInv, A!TypeOK, A!Step, A!verified, A!reviewed, A!decided
<1>6. OneApplies' /\ DecidedAsReviewed' /\ RetiredAsDecided' /\ PermittedHolds' /\ A!MarkerIsRecorded'
  BY <1>1, <1>4 DEF AcceptanceInv, A!TypeOK, OneApplies, DecidedAsReviewed, RetiredAsDecided,
                    A!MarkerIsRecorded, PermittedHolds,
                    A!Step, A!verified, A!decided
<1> QED BY <1>5, <1>6 DEF AcceptanceInv

\* The move, and every way an owner stops.
LEMMA StopKeeps ==
    ASSUME A!Bounds, AcceptanceInv, NEW o \in Owners, phase[o] # "idle",
           A!Return(o) \/ (phase[o] = "saved" /\ A!Step(o, "moved") /\ UNCHANGED args),
           UNCHANGED <<A!verified, A!reviewed, A!decided, consumed>>, UNCHANGED file \/ file' = [file EXCEPT !.done = TRUE],
           UNCHANGED terminal \/ (terminal # None /\ terminal' = [terminal EXCEPT !.state = "closed"])
    PROVE  AcceptanceInv'
<1>1. /\ terminal' \in A!Terminals \cup {None} /\ (terminal' # None <=> terminal # None)
      /\ terminal # None => /\ terminal'.input = terminal.input /\ terminal'.decision = terminal.decision
                            /\ terminal'.outcome = terminal.outcome
  <2>1. CASE UNCHANGED terminal
    BY <2>1 DEF AcceptanceInv, A!TypeOK
  <2>2. CASE terminal # None /\ terminal' = [terminal EXCEPT !.state = "closed"]
    <3>1. terminal \in A!Terminals
      BY <2>2 DEF AcceptanceInv, A!TypeOK
    <3>2. terminal' \in A!Terminals
      BY <2>2, <3>1 DEF A!Terminals
    <3>3. terminal'.input = terminal.input /\ terminal'.decision = terminal.decision /\ terminal'.outcome = terminal.outcome
      BY <2>2, <3>1 DEF A!Terminals
    <3> QED BY <2>2, <3>2, <3>3 DEF A!Bounds
  <2> QED BY <2>1, <2>2
<1>2. /\ phase' \in [Owners -> {"idle", "locked", "begun", "permitted", "saved", "moved"}]
      /\ args' \in [Owners -> A!Calls \cup {None}]
      /\ \A p \in Owners : phase'[p] # "idle" => p = o /\ phase'[p] = "moved" /\ args'[p] = args[p] /\ phase[p] = "saved"
  <2>1. \A p \in Owners : p # o => phase[p] = "idle"
    BY DEF AcceptanceInv, OneApplies
  <2> QED BY <2>1 DEF AcceptanceInv, A!TypeOK, A!Return, A!Step
<1>3. file' \in [version : A!Versions, marker : Decisions \cup {None}, done : BOOLEAN] /\ file'.marker = file.marker
  BY DEF AcceptanceInv, A!TypeOK
<1>4. A!TypeOK'
  BY <1>1, <1>2, <1>3 DEF AcceptanceInv, A!TypeOK, A!verified, A!reviewed, A!decided
<1>5. OneApplies' /\ PermittedHolds'
  BY <1>1, <1>2 DEF AcceptanceInv, OneApplies, PermittedHolds, A!decided
<1>6. DecidedAsReviewed' /\ RetiredAsDecided' /\ A!MarkerIsRecorded'
  BY <1>1, <1>3 DEF AcceptanceInv, DecidedAsReviewed, RetiredAsDecided, A!MarkerIsRecorded, A!decided
<1> QED BY <1>4, <1>5, <1>6 DEF AcceptanceInv

\* The task's lock is taken for a decision about this very input.
LEMMA ApplyKeeps ==
    ASSUME AcceptanceInv, NEW o \in Owners, NEW in \in A!Inputs, NEW d \in Decisions, A!Apply(o, in, d)
    PROVE  AcceptanceInv'
<1>1. [input |-> in, decision |-> d] \in A!Calls
  BY DEF A!Calls, A!Inputs, A!InputRows, AcceptanceInv, A!TypeOK
<1> QED BY <1>1 DEF A!Apply, A!TaskFree, A!Step, AcceptanceInv, A!TypeOK, OneApplies, DecidedAsReviewed,
                    RetiredAsDecided, A!MarkerIsRecorded,
                    PermittedHolds, A!verified, A!reviewed, A!decided

\* An owner that has found the file closed records it.
LEMMA FinishKeeps ==
    ASSUME A!Bounds, AcceptanceInv, NEW o \in Owners, A!Repair(o) \/ A!Record(o)
    PROVE  AcceptanceInv' /\ A!Closed /\ terminal # None /\ A!Finish(o)
<1>1. /\ phase[o] \in {"begun", "moved"} /\ A!Closed /\ A!Finish(o) /\ terminal # None
      /\ UNCHANGED <<A!verified, A!reviewed, A!decided, consumed, file, crashes>>
  BY DEF A!Repair, A!Record, A!Recordable, A!Finish, AcceptanceInv, OneApplies
<1> QED BY <1>1, StopKeeps DEF A!Finish

\* Every step keeps the invariant.
LEMMA AcceptanceStep == ASSUME A!Bounds, AcceptanceInv, [A!Next]_(A!vars) PROVE AcceptanceInv'
<1>1. ASSUME NEW o \in Owners, A!Advance(o) \/ A!Crash(o) PROVE AcceptanceInv'
  <2>1. CASE A!MoveTask(o)
    <3>1. phase[o] # "idle"
      BY <2>1 DEF A!MoveTask
    <3> QED BY <2>1, <3>1, StopKeeps DEF A!MoveTask
  <2>2. CASE A!Refuse(o) \/ A!Crash(o)
    <3>1. phase[o] # "idle" /\ A!Return(o) /\ UNCHANGED <<A!verified, A!reviewed, A!decided, consumed, terminal, file>>
      BY <2>2 DEF A!Refuse, A!Crash
    <3> QED BY <3>1, StopKeeps
  <2> QED BY <1>1, <2>1, <2>2, BeginKeeps, ContinueKeeps, SaveKeeps, FinishKeeps DEF A!Advance
<1>2. CASE UNCHANGED A!vars
  BY <1>2 DEF A!vars, A!verified, A!reviewed, A!decided, AcceptanceInv, A!TypeOK, OneApplies,
              DecidedAsReviewed, RetiredAsDecided,
              A!MarkerIsRecorded, PermittedHolds
<1> QED BY <1>1, <1>2, SurroundingsKeep, AuthoriseKeeps, ApplyKeeps DEF A!Next

-----------------------------------------------------------------------------
\* SaveTask is the only step that puts a marker into the file, and what
\* ContinueNativeAcceptance checked still holds then.
LEMMA WriteIsReviewed ==
    ASSUME AcceptanceInv, NEW o \in Owners, A!SaveTask(o)
    PROVE  LET p == terminal.input.review IN
           /\ p.outcome = "approve" /\ p.rev = rev /\ rev \in checked \cap landed
           /\ file'.version = p.seen
           /\ policy = decisions[terminal.decision].policy /\ Policies[policy].allow
           /\ Policies[policy].approval => terminal.decision \in approvals
<1>1. /\ terminal # None /\ phase[o] = "permitted" /\ DOMAIN file = {"version", "marker", "done"}
      /\ file' = [file EXCEPT !.version = terminal.outcome.version, !.marker = terminal.outcome.marker]
  BY DEF A!SaveTask, AcceptanceInv, OneApplies, A!TypeOK
<1>2. /\ terminal.input.review.outcome = "approve"
      /\ terminal.outcome.version = terminal.input.review.seen
  BY <1>1, RecordedAsReviewed
<1>3. /\ terminal.input.review.rev = rev /\ rev \in checked \cap landed
      /\ policy = decisions[terminal.decision].policy /\ Policies[policy].allow
      /\ (Policies[policy].approval => terminal.decision \in approvals)
  BY <1>1 DEF AcceptanceInv, PermittedHolds
<1> QED BY <1>1, <1>2, <1>3

\* Nothing else touches the marker, and only an owner that has begun touches
\* the record.
LEMMA OthersLeave ==
    ASSUME AcceptanceInv, [A!Next]_(A!vars)
    PROVE  /\ file'.marker = file.marker \/ \E o \in Owners : A!SaveTask(o)
           /\ UNCHANGED <<terminal, consumed>> \/ \E o \in Owners : A!BeginNativeAcceptance(o) \/ A!Repair(o) \/ A!Record(o)
<1>1. CASE A!Surroundings \/ A!Authorise \/ UNCHANGED A!vars
  <2>1. UNCHANGED <<terminal, consumed>>
    BY <1>1 DEF A!Surroundings, A!Publish, A!Verify, A!Land, A!LoseWorker, A!Dirties, A!EditTask,
                A!MoveElsewhere, A!Authorise, A!GrantReview,
                A!RevokeReview, A!ProposeReview, A!ConfigureNativePolicy, A!ApproveNativePolicy, A!Lapse,
                 A!EvaluateNativePolicy, A!vars
  <2>2. file'.marker = file.marker
    BY <1>1 DEF A!Surroundings, A!Publish, A!Verify, A!Land, A!LoseWorker, A!Dirties, A!EditTask,
                A!MoveElsewhere, A!Authorise, A!GrantReview,
                A!RevokeReview, A!ProposeReview, A!ConfigureNativePolicy, A!ApproveNativePolicy, A!Lapse,
                 A!EvaluateNativePolicy, A!vars,
                AcceptanceInv, A!TypeOK
  <2> QED BY <2>1, <2>2
<1>2. ASSUME NEW o \in Owners, A!Advance(o) \/ A!Crash(o) \/ \E in \in A!Inputs, d \in Decisions : A!Apply(o, in, d)
      PROVE  /\ file'.marker = file.marker \/ A!SaveTask(o)
             /\ UNCHANGED <<terminal, consumed>> \/ A!BeginNativeAcceptance(o) \/ A!Repair(o) \/ A!Record(o)
  <2>1. CASE A!BeginNativeAcceptance(o) \/ A!Repair(o) \/ A!Record(o)
    BY <2>1 DEF A!BeginNativeAcceptance, A!Repair, A!Record, A!Finish
  <2>2. CASE \/ A!ContinueNativeAcceptance(o) \/ A!SaveTask(o) \/ A!Refuse(o) \/ A!Crash(o)
             \/ \E in \in A!Inputs, d \in Decisions : A!Apply(o, in, d)
    BY <2>2 DEF A!ContinueNativeAcceptance, A!SaveTask, A!Refuse, A!Crash, A!Apply
  <2>3. CASE A!MoveTask(o)
    BY <2>3 DEF A!MoveTask, AcceptanceInv, A!TypeOK
  <2> QED BY <1>2, <2>1, <2>2, <2>3 DEF A!Advance
<1> QED BY <1>1, <1>2 DEF A!Next

\* The file never shows an acceptance that BeginNativeAcceptance has not saved
\* first, and SaveTask writes it only while ContinueNativeAcceptance's checks
\* hold: the revision is the current one, verified, landed and approved.
THEOREM AcceptedAsReviewed == ASSUME A!Bounds PROVE A!Spec => []A!MarkerIsRecorded /\ A!WrittenAsReviewed
<1> DEFINE W == file.marker = None /\ file'.marker # None =>
               LET p == terminal.input.review IN
               /\ p.outcome = "approve" /\ p.rev = rev /\ rev \in checked \cap landed
               /\ file'.version = p.seen
               /\ policy = decisions[terminal.decision].policy /\ Policies[policy].allow
               /\ Policies[policy].approval => terminal.decision \in approvals
<1>1. AcceptanceInv /\ [A!Next]_(A!vars) => [W]_(A!vars)
  BY OthersLeave, WriteIsReviewed
<1>2. A!Init => AcceptanceInv
  BY AcceptanceInit
<1>3. AcceptanceInv /\ [A!Next]_(A!vars) => AcceptanceInv'
  BY AcceptanceStep
<1>4. AcceptanceInv => A!MarkerIsRecorded
  BY DEF AcceptanceInv
<1> HIDE DEF W
<1> QED BY <1>1, <1>2, <1>3, <1>4, PTL DEF A!Spec, A!WrittenAsReviewed, W

\* The record of BeginNativeAcceptance and what it consumed are never replaced,
\* whoever dies or applies again, and it becomes closed only by a Finish that
\* has seen the prepared file in its final place.
THEOREM RetiredOnce == ASSUME A!Bounds PROVE A!Spec => A!RetiredForGood /\ A!ClosedIsSeen
<1> DEFINE R == terminal # None => /\ terminal' \in {terminal, [terminal EXCEPT !.state = "closed"]}
                                   /\ consumed' = consumed
           C == terminal # None /\ terminal.state = "closing" /\ terminal'.state = "closed" =>
               file = [version |-> terminal.outcome.version, marker |-> terminal.decision, done |-> TRUE]
<1>1. ASSUME AcceptanceInv, [A!Next]_(A!vars) PROVE R /\ C
  <2>1. CASE UNCHANGED <<terminal, consumed>>
    BY <2>1
  <2>2. ASSUME NEW o \in Owners, A!BeginNativeAcceptance(o) PROVE R /\ C
    <3>1. terminal # None => UNCHANGED <<terminal, consumed>>
      BY <1>1, <2>2, BeginKeeps
    <3> QED BY <3>1
  <2>3. ASSUME NEW o \in Owners, A!Repair(o) \/ A!Record(o) PROVE R /\ C
    <3>1. /\ A!Closed /\ terminal # None /\ terminal' = [terminal EXCEPT !.state = "closed"] /\ consumed' = consumed
      BY <1>1, <2>3, FinishKeeps DEF A!Finish
    <3>3. terminal.outcome.marker = terminal.decision
      BY <1>1, <3>1, RecordedAsReviewed
    <3>4. file \in [version : A!Versions, marker : Decisions \cup {None}, done : BOOLEAN]
      BY <1>1 DEF AcceptanceInv, A!TypeOK
    <3>5. file.done = TRUE /\ file.version = terminal.outcome.version /\ file.marker = terminal.decision
      BY <3>1, <3>3, <3>4 DEF A!Closed, A!Exact
    <3> QED BY <3>1, <3>4, <3>5
  <2> QED BY <1>1, <2>1, <2>2, <2>3, OthersLeave
<1>2. A!Init => AcceptanceInv
  BY AcceptanceInit
<1>3. AcceptanceInv /\ [A!Next]_(A!vars) => AcceptanceInv'
  BY AcceptanceStep
<1> HIDE DEF R, C
<1>4. AcceptanceInv /\ [A!Next]_(A!vars) => [R]_(A!vars) /\ [C]_(A!vars)
  BY <1>1
<1> QED BY <1>2, <1>3, <1>4, PTL DEF A!Spec, A!RetiredForGood, A!ClosedIsSeen, R, C

\* What the run checks of both: CompleteVerification records evidence and
\* SaveTask writes the task file only about what is current then.
THEOREM WritesKeepUp == ASSUME Bounds, A!Bounds PROVE Spec /\ A!Spec => WritesAreCurrent
<1>1. Spec => EvidenceIsCurrent
  BY EvidenceOfCurrent
<1>2. A!Spec => A!WrittenAsReviewed
  BY AcceptedAsReviewed, PTL
<1> QED BY <1>1, <1>2 DEF WritesAreCurrent

=============================================================================
