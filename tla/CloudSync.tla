----------------------------- MODULE CloudSync -----------------------------
(***************************************************************************)
(* Synchronisation of a project with the control plane: the commands of    *)
(* planning/cloud.go, the client's durable queue (cloudsync/client.go,     *)
(* http.go, project.go) and the service's exchange (service/sync_http.go,  *)
(* envelopeworker/postgres.go and pull.go).                                *)
(*                                                                         *)
(* One command runs at a time, under project.lock, and may die between any *)
(* two writes.  Requests may be lost, served late, served twice or served  *)
(* in part; a reply may be lost.                                            *)
(***************************************************************************)
EXTENDS Naturals, FiniteSets, FiniteSetsExt, Sequences

CONSTANTS
    MaxGeneration, MaxTask,     \* connection changes and task changes
    MaxPublished,               \* envelopes the service publishes for the client
    MaxBatch, MaxPage,          \* rows of a request and of a reply
    MaxCrashes,
    None

\* What instances have to provide.
Bounds == /\ MaxGeneration \in Nat \ {0} /\ MaxTask \in Nat /\ MaxPublished \in Nat
          /\ MaxBatch \in Nat \ {0} /\ MaxPage \in Nat \ {0} /\ MaxCrashes \in Nat

VARIABLES
    task,       \* the task's present status
    generation, archived, cursor,   \* connection.json, its history directory, its delivery cursor
    outbox, saved,                  \* immutable rows; state.json: [next, ack]
    inbox,                          \* envelopes received from the service
    pc, cmd, mem, goal, todo, asked, page,  \* the running command and its memory
    requests, reply,                \* the network: what was ever asked, an answer under way
    stored, published,              \* the service's inbox identities and its outbox
    crashes

connection == <<generation, archived, cursor>>
process    == <<pc, cmd, mem, goal, todo, asked, page>>
network    == <<requests, reply>>
vars == <<task, connection, outbox, saved, inbox, process, network, stored, published, crashes>>

Connected(g) == g % 2 = 1
Registrations == {<<"registration", g>> : g \in 1 .. MaxGeneration}
Keys == Registrations \cup {<<"task", t>> : t \in 0 .. MaxTask}
Seqs(rows) == {r.seq : r \in rows}

\* The end of the gap-free sequences above n.
Contiguous(n, S) == Max({m \in {n} \cup S : \A i \in n + 1 .. m : i \in S})

-----------------------------------------------------------------------------
(* The client.  Open recovers the sequence from the rows, which are        *)
(* durable before the state that counts them.                              *)

RecoveredNext == Max({0} \cup Seqs(outbox)) + 1

\* Rows that are not the sequence 1, 2, ..., or that the state is ahead of, are
\* refused for ever.
Openable == /\ Seqs(outbox) = 1 .. Cardinality(outbox)
            /\ saved.ack <= Cardinality(outbox) /\ saved.next <= Cardinality(outbox) + 1

Goto(s) == pc' = s

\* The process ends, by itself or not; its memory and its connection go.
Return == /\ pc' = "idle" /\ cmd' = None /\ mem' = None /\ goal' = 0 /\ todo' = <<>>
          /\ asked' = None /\ page' = None /\ reply' = None

\* queueCloudTransitions replays every archived generation before the current
\* one, queueCloudTasks the present status of the tasks.
\* Mutant: only the current generation is queued.
TransitionsLatest(g) == <<<<"registration", g>>>>

Transitions(g) == [i \in 1 .. archived |-> <<"registration", i>>] \o <<<<"registration", g>>>>

\* Mutant: a row the state does not count is discarded.
StartDiscarding(c, g, keys, s) ==
    /\ pc = "idle" /\ Openable /\ g <= MaxGeneration
    /\ outbox' = {r \in outbox : r.seq < saved.next} /\ mem' = saved
    /\ cmd' = c /\ goal' = g /\ todo' = keys /\ Goto(s)
    /\ UNCHANGED <<task, connection, saved, inbox, asked, page, network, stored, published, crashes>>

Start(c, g, keys, s) ==
    /\ pc = "idle" /\ Openable /\ g <= MaxGeneration
    /\ cmd' = c /\ goal' = g /\ todo' = keys /\ Goto(s)
    /\ mem' = [next |-> RecoveredNext, ack |-> saved.ack]
    /\ saved' = [next |-> RecoveredNext, ack |-> saved.ack]
    /\ UNCHANGED <<task, connection, outbox, inbox, asked, page, network, stored, published, crashes>>

\* A new generation is announced in the queue before it is published.
ProjectConnect ==
    LET g == IF Connected(generation) THEN generation ELSE generation + 1
    IN Start("connect", g, Transitions(g), "enqueue")

\* Disconnecting is published first; it may be impossible to sign it now.
ProjectDisconnect ==
    /\ Connected(generation)
    /\ \E keys \in {<<>>, <<<<"registration", generation + 1>>>>} : Start("disconnect", generation + 1, keys, "archive")

ProjectSync ==
    /\ Connected(generation)
    /\ Start("sync", generation, Transitions(generation) \o <<<<"task", task>>>>, "enqueue")

\* Enqueue: a key that has a row keeps it; otherwise the row is created ...
Enqueue ==
    /\ pc = "enqueue" /\ todo # <<>>
    /\ IF \E r \in outbox : r.key = Head(todo)
       THEN todo' = Tail(todo) /\ UNCHANGED <<pc, outbox>>
       ELSE /\ outbox' = outbox \cup {[seq |-> mem.next, key |-> Head(todo)]}
            /\ Goto("created") /\ UNCHANGED todo
    /\ UNCHANGED <<task, connection, saved, inbox, cmd, mem, goal, asked, page, network, stored, published, crashes>>

\* ... and then counted.
SaveNext ==
    /\ pc = "created" /\ Goto("enqueue") /\ todo' = Tail(todo)
    /\ mem' = [mem EXCEPT !.next = @ + 1] /\ saved' = [saved EXCEPT !.next = mem.next + 1]
    /\ UNCHANGED <<task, connection, outbox, inbox, cmd, goal, asked, page, network, stored, published, crashes>>

Enqueued ==
    /\ pc = "enqueue" /\ todo = <<>>
    /\ \/ /\ cmd # "disconnect" /\ Goto(IF cmd = "connect" THEN "archive" ELSE "send")
          /\ UNCHANGED <<cmd, mem, goal, todo, asked, page, reply>>
       \/ cmd = "disconnect" /\ Return
    /\ UNCHANGED <<task, connection, outbox, saved, inbox, requests, stored, published, crashes>>

\* SaveProjectConnection: the old generation is archived once, then replaced.
Archive ==
    /\ pc = "archive" /\ Goto("publish")
    /\ archived' = IF generation = goal \/ generation <= archived THEN archived ELSE generation
    /\ UNCHANGED <<task, generation, cursor, outbox, saved, inbox, cmd, mem, goal, todo, asked, page, network, stored, published, crashes>>

PublishConnection ==
    /\ pc = "publish" /\ generation' = goal
    /\ \/ cmd = "disconnect" /\ Goto("enqueue") /\ UNCHANGED <<cmd, mem, goal, todo, asked, page, reply>>
       \/ cmd = "connect" /\ Return
    /\ UNCHANGED <<task, archived, cursor, outbox, saved, inbox, requests, stored, published, crashes>>

-----------------------------------------------------------------------------
(* The exchange.                                                           *)

Batch == {r \in outbox : r.seq > mem.ack /\ r.seq <= mem.ack + MaxBatch}

Send ==
    /\ pc = "send" /\ Goto("wait")
    /\ asked' = [from |-> mem.ack, rows |-> Batch, cursor |-> cursor] /\ requests' = requests \cup {asked'}
    /\ UNCHANGED <<task, connection, outbox, saved, inbox, cmd, mem, goal, todo, page, reply, stored, published, crashes>>

\* Accept: an identity that is known is a duplicate, a sequence that belongs
\* to another event is refused.  Confirmed: only the very row is acknowledged.
Acceptable(r) == \A s \in stored : s.key # r.key /\ s.seq # r.seq

Confirmed(q, rows) == q.rows \subseteq rows

\* Pull continues the snapshot of the delivery cursor, or takes a new one.
Pull(c) ==
    LET snapshot == IF c.snapshot = 0 THEN published ELSE c.snapshot
        last     == Min({snapshot, c.after + MaxPage})
    IN [envelopes |-> c.after + 1 .. last,
        cursor    |-> [after |-> last, snapshot |-> IF last < snapshot THEN snapshot ELSE 0]]

\* The service handles a request up to some row, each in a transaction of its
\* own; it answers only when all of them are confirmed.
Exchange(q, n) ==
    /\ stored' = stored \cup {r \in q.rows : r.seq <= n /\ Acceptable(r)}
    /\ reply' = IF pc = "wait" /\ q = asked /\ Confirmed(q, stored')
                THEN [ack |-> Contiguous(q.from, Seqs(q.rows)), page |-> Pull(q.cursor)]
                ELSE reply
    /\ UNCHANGED <<task, connection, outbox, saved, inbox, process, requests, published, crashes>>

PublishEnvelope == /\ published < MaxPublished /\ published' = published + 1
                   /\ UNCHANGED <<task, connection, outbox, saved, inbox, process, network, stored, crashes>>

\* The transport checks what is acknowledged against what it asked.
TakeReply ==
    /\ pc = "wait" /\ reply # None /\ page' = reply /\ Goto("receive")
    /\ UNCHANGED <<task, connection, outbox, saved, inbox, cmd, mem, goal, todo, asked, network, stored, published, crashes>>

\* A refusal, an outage or the deadline: only the failure is recorded.
ExchangeFails ==
    /\ pc \in {"send", "wait"} /\ Return
    /\ UNCHANGED <<task, connection, outbox, saved, inbox, requests, stored, published, crashes>>

\* Receive stores one envelope after the other; one it has is a duplicate.
Receive ==
    LET left == page.page.envelopes \ inbox IN
    /\ pc = "receive" /\ left # {} /\ inbox' = inbox \cup {Min(left)}
    /\ UNCHANGED <<task, connection, outbox, saved, process, network, stored, published, crashes>>

Acknowledge ==
    /\ pc = "receive" /\ page.page.envelopes \subseteq inbox
    /\ mem' = [mem EXCEPT !.ack = Max({@, page.ack})] /\ saved' = [saved EXCEPT !.ack = Max({@, page.ack})]
    /\ Goto("record")
    /\ UNCHANGED <<task, connection, outbox, inbox, cmd, goal, todo, asked, page, network, stored, published, crashes>>

RecordCursor ==
    /\ pc = "record" /\ cursor' = page.page.cursor /\ Return
    /\ UNCHANGED <<task, generation, archived, outbox, saved, inbox, requests, stored, published, crashes>>

-----------------------------------------------------------------------------
TaskChanges == /\ task < MaxTask /\ task' = task + 1
               /\ UNCHANGED <<connection, outbox, saved, inbox, process, network, stored, published, crashes>>

Crash == /\ pc # "idle" /\ crashes < MaxCrashes /\ crashes' = crashes + 1 /\ Return
         /\ UNCHANGED <<task, connection, outbox, saved, inbox, requests, stored, published>>

Init == /\ task = 0 /\ generation = 0 /\ archived = 0 /\ cursor = [after |-> 0, snapshot |-> 0]
        /\ outbox = {} /\ saved = [next |-> 1, ack |-> 0] /\ inbox = {}
        /\ pc = "idle" /\ cmd = None /\ mem = None /\ goal = 0 /\ todo = <<>> /\ asked = None /\ page = None
        /\ requests = {} /\ reply = None /\ stored = {} /\ published = 0 /\ crashes = 0

Client == \/ Enqueue \/ SaveNext \/ Enqueued \/ Archive \/ PublishConnection \/ Send
          \/ TakeReply \/ Receive \/ Acknowledge \/ RecordCursor

Commands == ProjectConnect \/ ProjectDisconnect \/ ProjectSync

Next == \/ Client \/ Commands \/ ExchangeFails \/ Crash \/ TaskChanges
        \/ PublishEnvelope
        \/ \E q \in requests : \E n \in q.from .. q.from + MaxBatch : Exchange(q, n)

Spec == Init /\ [][Next]_vars

\* The owner synchronises again and again, a request that is sent again and
\* again is served in full, and its reply does arrive from time to time.
Served == \E q \in requests : q = asked /\ pc = "wait" /\ Exchange(q, q.from + MaxBatch)
FairSpec == Spec /\ SF_vars(ProjectSync) /\ WF_vars(Client) /\ SF_vars(Served) /\ SF_vars(TakeReply) /\ SF_vars(Send)

-----------------------------------------------------------------------------
(* Properties.                                                             *)

TypeOK ==
    /\ generation \in 0 .. MaxGeneration /\ archived \in 0 .. MaxGeneration
    /\ cursor \in [after : 0 .. MaxPublished, snapshot : 0 .. MaxPublished]
    /\ \A r \in outbox \cup stored : r.key \in Keys /\ r.seq \in Nat
    /\ saved.next \in Nat \ {0} /\ saved.ack \in Nat /\ inbox \subseteq 1 .. MaxPublished
    /\ pc \in {"idle", "enqueue", "created", "archive", "publish", "send", "wait", "receive", "record"}

\* The queue survives a death between the creation of a row and the save that
\* counts it: it stays the sequence 1, 2, ... with one row for each key, or no
\* command could ever open it again.
QueueStaysOpenable == Openable /\ \A r, s \in outbox : r.key = s.key \/ r.seq = s.seq => r = s

\* A row the client no longer sends is held by the service, row for row.
AcknowledgedIsStored == \A r \in outbox : r.seq <= saved.ack => r \in stored

\* No tombstone is dropped: when a request leaves, every generation of the
\* connection so far has its row, also a disconnection nobody could sign.
NoTombstoneDropped == pc \in {"send", "wait"} =>
    \A g \in 1 .. generation : \E r \in outbox : r.key = <<"registration", g>>

\* The generations of the connection are queued in their order, as the
\* comment above queueCloudTransitions says.
TombstonesInOrder == \A r \in outbox : r.key \in Registrations =>
    \A g \in 1 .. r.key[2] - 1 : \E s \in outbox : s.key = <<"registration", g>> /\ s.seq < r.seq

\* The recorded delivery cursor is behind what was received: whatever dies or
\* is answered late, no envelope is skipped.
CursorBehindInbox == 1 .. cursor.after \subseteq inbox

\* The exchange implements the queue it promises: the service holds a prefix
\* of what was queued and confirms no more than that.
Key(rows, n) == (CHOOSE r \in rows : r.seq = n).key
EventsQueued == [n \in 1 .. Cardinality(outbox) |-> Key(outbox, n)]
EventsHeld   == [n \in 1 .. Contiguous(0, Seqs(stored)) |-> Key(stored, n)]
Queue == INSTANCE DurableQueue WITH Events <- Keys, sent <- EventsQueued, held <- EventsHeld, done <- saved.ack
ImplementsDurableQueue == Queue!Spec

\* A connection that stays is brought up to date: every row ends up with the
\* service and every published envelope with the client.
BothCatchUp == <>[](Connected(generation)) => <>[](outbox \subseteq stored /\ 1 .. published \subseteq inbox)

=============================================================================
