---------------------------- MODULE CloudProofs ----------------------------
(***************************************************************************)
(* What is exchanged with others, for any number of tasks, pages, crashes, *)
(* envelopes, signers, deliveries and frames: the client and the service   *)
(* agree on a queue that loses and repeats nothing, the inbox the          *)
(* service's envelopes arrive in remembers whatever it has answered, the   *)
(* GitHub App bridge proposes and posts what it was told once, and the MCP *)
(* server accounts for every frame.                                        *)
(***************************************************************************)
EXTENDS CloudSync, FiniteSetTheorems, FunctionTheorems, WellFoundedInduction, TLAPS

CONSTANTS
    Envelopes, Signers, Cursors, ReplayFloor, MaxOpens, MaxFailures,            \* of the inbox
    Deliveries, Bodies, Repos, Projects, StatusKeys, CheckStates,               \* of the bridge
    Kinds, Tools, Profiles, Slots, MaxFrames,                                   \* of the server
    Agent, Lifetime, Safety, Window, MaxInterval, MaxTime, MaxSessions, MaxRequests    \* of the device

VARIABLES
    files, disk, trusted, copy, index, reserved, pending, fallback, writing, answered, barred, opens, failures,
    deliveries, proposals, checks, acks, bindings, config, tenant, remote, told, posted, op,
    profile, frames, eof, drains, auth, cancelled, hand, read, owed, initialized, main, calls, encoding, open, watch, timer,
    failed, answers, ran,
    time, standing, approval, flow, bearers, net, keychain, metadata, proc, asks

\* The inbox of the envelopes, beside the exchange.
I == INSTANCE CloudInbox WITH mem <- copy

\* The GitHub App bridge and the MCP server, which share nothing with either.
G == INSTANCE GithubApp WITH
    inbox <- deliveries, outbox <- checks, saved <- bindings, answered <- told, Keys <- StatusKeys, States <- CheckStates
N == INSTANCE NativeServer WITH pending <- owed, writing <- encoding

\* A device on which one process of the client, the agent, runs at a time.
Processes == {Agent}
D == INSTANCE DeviceAuth WITH now <- time, live <- standing, sessions <- bearers, requests <- asks

\* No cursor passes what did not arrive: neither the client's delivery cursor
\* nor a stream's; and what was answered is durable, one envelope per identity.
InboxIsConsistent == /\ CursorBehindInbox
                     /\ I!CursorWithoutGap /\ I!AnsweredIsDurable /\ I!OneEnvelopePerIdentity

\* A delivery that was answered has its row and its proposal, and a key is
\* posted as one status, to the project its repository is assigned to.
BridgeKeepsFaith == G!BridgeKeepsFaith

\* The pending count is that of the frames under way, no frame is answered
\* twice, and no tool outside the profile's catalogue runs.
FramesAccountedFor == N!FramesAccountedFor

\* A device is not locked out by what is lost, late or repeated, and at most one
\* of its bearers is accepted, none after a logout the service confirmed.
DeviceKeepsAccess == D!NeverLockedOut /\ D!OneBearer

-----------------------------------------------------------------------------
(* The exchange.                                                           *)

\* What the sequences, pages and cursors of a run can be.
Queued  == Cardinality(outbox)
Positions == [after : 0 .. MaxPublished, snapshot : 0 .. MaxPublished]
Answers == [ack : Nat, page : [envelopes : SUBSET (1 .. MaxPublished), cursor : Positions]]

Typed ==
    /\ TypeOK /\ task \in 0 .. MaxTask /\ saved \in [next : Nat, ack : Nat]
    /\ todo \in Seq(Keys) /\ published \in 0 .. MaxPublished
    /\ pc # "idle" => mem \in [next : Nat, ack : Nat] /\ cmd \in {"connect", "disconnect", "sync"}
    /\ \A q \in requests : q.from \in Nat /\ q.cursor \in Positions

\* The rows are the sequence 1, 2, ... with one row for each key.
QueueIsWhole ==
    /\ IsFiniteSet(outbox) /\ Seqs(outbox) = 1 .. Queued
    /\ \A r, s \in outbox : r.key = s.key \/ r.seq = s.seq => r = s

\* What the running command remembers of the queue; a row it has just created
\* is not counted yet.
MemoryIsTrue ==
    /\ saved.next <= Queued + 1
    /\ pc # "idle" => mem.ack = saved.ack /\ mem.next = IF pc = "created" THEN Queued ELSE Queued + 1
    /\ pc = "created" => todo # <<>> /\ \E r \in outbox : r.key = Head(todo)

\* The service holds the rows up to some h, and nobody counts on more.
HeldUpTo(h) ==
    /\ stored = {r \in outbox : r.seq <= h} /\ saved.ack <= h
    /\ \A q \in requests : q.from <= h
    /\ reply # None => reply.ack <= h
    /\ pc \in {"receive", "record"} => page.ack <= h

ServiceHoldsPrefix == \E h \in 0 .. Queued : HeldUpTo(h)

\* A request is a run of rows.
RequestsAreRuns == \A q \in requests : \E to \in q.from .. Queued :
    q.rows = {r \in outbox : q.from < r.seq /\ r.seq <= to}

\* A page continues the recorded cursor.
PageIsTrue(a) == /\ a \in Answers
                 /\ 1 .. a.page.cursor.after \subseteq 1 .. cursor.after \cup a.page.envelopes

DeliveryIsTrue ==
    /\ CursorBehindInbox
    /\ pc = "wait" => asked \in requests /\ asked.cursor = cursor
    /\ reply # None => PageIsTrue(reply)
    /\ pc \in {"receive", "record"} => PageIsTrue(page)
    /\ pc = "record" => page.page.envelopes \subseteq inbox

\* Every generation but the current one is archived before the next is published.
HistoryIsKept ==
    /\ generation <= archived + 1 /\ archived <= generation
    /\ pc # "idle" => goal \in {generation, generation + 1} /\ goal <= MaxGeneration
    /\ pc = "publish" => goal = generation \/ archived = generation

\* A command that is going to send has queued every generation, or will.
Lists(s, x) == \E i \in DOMAIN s : s[i] = x

TombstonesQueued == cmd = "sync" /\ pc \in {"enqueue", "created"} =>
    \A g \in 1 .. generation : \/ \E r \in outbox : r.key = <<"registration", g>>
                               \/ Lists(todo, <<"registration", g>>)

Inv == /\ Typed /\ QueueIsWhole /\ MemoryIsTrue /\ ServiceHoldsPrefix /\ RequestsAreRuns
       /\ DeliveryIsTrue /\ HistoryIsKept /\ TombstonesQueued /\ NoTombstoneDropped

-----------------------------------------------------------------------------
(* The operators.                                                          *)

\* A set of naturals has a least element, and it is what Min chooses.
LEMMA Least ==
    ASSUME NEW S \in SUBSET Nat, S # {}
    PROVE  Min(S) \in S /\ \A y \in S : Min(S) <= y
<1>1. IsWellFoundedOn({rs \in Nat \X Nat : rs[1] < rs[2]}, Nat)
  BY NatLessThanWellFounded DEF OpToRel
<1>2. PICK x \in S : \A y \in S : ~(<<y, x>> \in {rs \in Nat \X Nat : rs[1] < rs[2]})
  BY <1>1, WFMin
<1>3. ASSUME NEW y \in S PROVE x <= y
  <2>1. <<y, x>> \in Nat \X Nat /\ <<y, x>>[1] = y /\ <<y, x>>[2] = x
    OBVIOUS
  <2> QED BY <1>2, <2>1
<1> QED BY <1>3 DEF Min

\* Max chooses an element that bounds the others.
LEMMA MaxIs ==
    ASSUME NEW S \in SUBSET Nat, NEW x \in S, \A y \in S : y <= x
    PROVE  Max(S) = x
<1>1. \A y \in S : (\A z \in S : y >= z) => y = x
  OBVIOUS
<1>2. Max(S) \in S /\ \A z \in S : Max(S) >= z
  BY DEF Max
<1> QED BY <1>1, <1>2

\* Min chooses an element below the others.
LEMMA MinIs ==
    ASSUME NEW S \in SUBSET Nat, NEW x \in S, \A y \in S : x <= y
    PROVE  Min(S) = x
<1>1. \A y \in S : (\A z \in S : y <= z) => y = x
  OBVIOUS
<1>2. Min(S) \in S /\ \A z \in S : Min(S) <= z
  BY DEF Min
<1> QED BY <1>1, <1>2

LEMMA MaxOfTwo ==
    ASSUME NEW m \in Nat, NEW n \in Nat
    PROVE  Max({m, n}) = IF m <= n THEN n ELSE m
  BY MaxIs

LEMMA MinOfTwo ==
    ASSUME NEW m \in Nat, NEW n \in Nat
    PROVE  Min({m, n}) = IF m <= n THEN m ELSE n
  BY MinIs

\* Sequences without a gap end where they end.
LEMMA ContiguousOf ==
    ASSUME NEW n \in Nat, NEW m \in Nat, n <= m
    PROVE  Contiguous(n, n + 1 .. m) = m
<1> DEFINE S == {k \in {n} \cup n + 1 .. m : \A i \in n + 1 .. k : i \in n + 1 .. m}
<1>1. S \in SUBSET Nat /\ m \in S /\ \A y \in S : y <= m
  OBVIOUS
<1>2. Max(S) = m
  BY <1>1, MaxIs
<1> QED BY <1>2 DEF Contiguous

\* What is listed comes first or in the rest.
LEMMA TodoStep ==
    ASSUME NEW S, NEW s \in Seq(S), s # <<>>
    PROVE  Head(s) \in S /\ Tail(s) \in Seq(S) /\ \A x : Lists(s, x) => x = Head(s) \/ Lists(Tail(s), x)
<1>1. Len(s) \in Nat /\ Len(s) # 0 /\ DOMAIN s = 1 .. Len(s) /\ \A i \in 1 .. Len(s) : s[i] \in S
  OBVIOUS
<1>2. Tail(s) \in Seq(S) /\ Len(Tail(s)) = Len(s) - 1 /\ \A j \in 1 .. Len(s) - 1 : Tail(s)[j] = s[j + 1]
  BY <1>1
<1>3. Head(s) = s[1]
  OBVIOUS
<1>4. ASSUME NEW i \in DOMAIN s, i # 1 PROVE i - 1 \in DOMAIN Tail(s) /\ Tail(s)[i - 1] = s[i]
  BY <1>1, <1>2, <1>4
<1>5. ASSUME NEW i \in DOMAIN s PROVE s[i] = Head(s) \/ Lists(Tail(s), s[i])
  <2>1. CASE i = 1
    BY <1>3, <2>1
  <2>2. CASE i # 1
    BY <1>4, <2>2 DEF Lists
  <2> QED BY <2>1, <2>2
<1>6. ASSUME NEW x, Lists(s, x) PROVE x = Head(s) \/ Lists(Tail(s), x)
  BY <1>5, <1>6 DEF Lists
<1> QED BY <1>1, <1>2, <1>3, <1>6

\* What two lists joined list.
LEMMA Concatenation ==
    ASSUME NEW S, NEW s \in Seq(S), NEW t \in Seq(S)
    PROVE  s \o t \in Seq(S) /\ \A x : Lists(s, x) \/ Lists(t, x) => Lists(s \o t, x)
<1>1. ASSUME NEW i \in DOMAIN s PROVE Lists(s \o t, s[i])
  <2>1. i \in DOMAIN (s \o t) /\ (s \o t)[i] = s[i]
    OBVIOUS
  <2> QED BY <2>1 DEF Lists
<1>2. ASSUME NEW i \in DOMAIN t PROVE Lists(s \o t, t[i])
  <2>1. Len(s) + i \in DOMAIN (s \o t) /\ (s \o t)[Len(s) + i] = t[i]
    OBVIOUS
  <2> QED BY <2>1 DEF Lists
<1>3. s \o t \in Seq(S)
  OBVIOUS
<1>4. ASSUME NEW x, Lists(s, x) \/ Lists(t, x) PROVE Lists(s \o t, x)
  BY <1>1, <1>2, <1>4 DEF Lists
<1> QED BY <1>3, <1>4

\* The next row continues the queue.
LEMMA NextIsAfterRows ==
    ASSUME QueueIsWhole
    PROVE  Queued \in Nat /\ RecoveredNext = Queued + 1
<1>1. Queued \in Nat
  BY FS_CardinalityType DEF QueueIsWhole, Queued
<1>2. {0} \cup Seqs(outbox) \in SUBSET Nat /\ Queued \in {0} \cup Seqs(outbox) /\ \A y \in {0} \cup Seqs(outbox) : y <= Queued
  BY <1>1 DEF QueueIsWhole
<1>3. Max({0} \cup Seqs(outbox)) = Queued
  BY <1>2, MaxIs
<1> QED BY <1>1, <1>3 DEF RecoveredNext

\* The page of a cursor continues it.
LEMMA PullContinues ==
    ASSUME Bounds, NEW c \in Positions, published \in 0 .. MaxPublished
    PROVE  /\ Pull(c).envelopes \in SUBSET (1 .. MaxPublished) /\ Pull(c).cursor \in Positions
           /\ Pull(c) = [envelopes |-> Pull(c).envelopes, cursor |-> Pull(c).cursor]
           /\ 1 .. Pull(c).cursor.after \subseteq 1 .. c.after \cup Pull(c).envelopes
<1> DEFINE top  == IF c.snapshot = 0 THEN published ELSE c.snapshot
           last == Min({top, c.after + MaxPage})
<1>1. top \in 0 .. MaxPublished /\ c.after \in 0 .. MaxPublished /\ MaxPage \in Nat /\ MaxPublished \in Nat
  BY DEF Positions, Bounds
<1>2. last \in 0 .. MaxPublished
  <2> HIDE DEF top
  <2>1. top \in Nat /\ c.after + MaxPage \in Nat
    BY <1>1
  <2> QED BY <1>1, <2>1, MinOfTwo
<1>3. Pull(c) = [envelopes |-> c.after + 1 .. last, cursor |-> [after |-> last, snapshot |-> IF last < top THEN top ELSE 0]]
  BY DEF Pull
<1> HIDE DEF last, top
<1>4. c.after + 1 .. last \in SUBSET (1 .. MaxPublished)
  BY <1>1, <1>2
<1>5. [after |-> last, snapshot |-> IF last < top THEN top ELSE 0] \in Positions
  BY <1>1, <1>2 DEF Positions
<1>6. 1 .. last \subseteq 1 .. c.after \cup (c.after + 1 .. last)
  BY <1>1, <1>2
<1> QED BY <1>3, <1>4, <1>5, <1>6

-----------------------------------------------------------------------------
LEMMA InitInv == ASSUME Bounds, Init PROVE Inv
<1>1. Queued = 0 /\ IsFiniteSet(outbox)
  BY FS_EmptySet DEF Init, Queued
<1>2. Typed
  BY DEF Init, Bounds, Typed, TypeOK
<1>3. QueueIsWhole
  BY <1>1 DEF Init, QueueIsWhole, Seqs
<1>4. MemoryIsTrue /\ RequestsAreRuns /\ DeliveryIsTrue /\ HistoryIsKept /\ TombstonesQueued /\ NoTombstoneDropped
  BY <1>1 DEF Init, MemoryIsTrue, RequestsAreRuns, DeliveryIsTrue, CursorBehindInbox, HistoryIsKept,
              TombstonesQueued,
              NoTombstoneDropped
<1>5. HeldUpTo(0)
  BY DEF Init, HeldUpTo
<1> QED BY <1>1, <1>2, <1>3, <1>4, <1>5 DEF Inv, ServiceHoldsPrefix

\* The end of a command forgets its memory and nothing else.
LEMMA ReturnKeeps ==
    ASSUME Bounds, Inv, Return, UNCHANGED <<task, outbox, saved, inbox, requests, stored, published>>,
           generation' \in 0 .. MaxGeneration, archived' \in 0 .. MaxGeneration, cursor' \in Positions, CursorBehindInbox',
           generation' <= archived' + 1, archived' <= generation'
    PROVE  Inv'
<1>1. Typed'
  BY DEF Inv, Typed, TypeOK, Return, Positions
<1>2. QueueIsWhole' /\ MemoryIsTrue' /\ RequestsAreRuns'
  BY DEF Inv, QueueIsWhole, Queued, MemoryIsTrue, RequestsAreRuns, Return, Seqs
<1>3. ServiceHoldsPrefix'
  BY DEF Inv, ServiceHoldsPrefix, HeldUpTo, Return, Queued
<1>4. DeliveryIsTrue' /\ HistoryIsKept' /\ TombstonesQueued' /\ NoTombstoneDropped'
  BY DEF DeliveryIsTrue, HistoryIsKept, TombstonesQueued, NoTombstoneDropped, Return
<1> QED BY <1>1, <1>2, <1>3, <1>4 DEF Inv

\* Open and the first keys of a command.
LEMMA StartKeeps ==
    ASSUME Bounds, Inv, NEW c \in {"connect", "disconnect", "sync"}, NEW g \in {generation, generation + 1},
           NEW keys \in Seq(Keys), NEW s \in {"enqueue", "archive"}, Start(c, g, keys, s),
           c = "sync" => \A k \in 1 .. generation : Lists(keys, <<"registration", k>>)
    PROVE  Inv'
<1>1. Queued \in Nat /\ RecoveredNext = Queued + 1 /\ saved.ack \in Nat
  BY NextIsAfterRows DEF Inv, Typed
<1>2. pc' = s /\ cmd' = c /\ goal' = g /\ todo' = keys /\ g <= MaxGeneration
  BY DEF Start, Goto
<1>3. /\ mem' = [next |-> Queued + 1, ack |-> saved.ack] /\ saved' = mem' /\ pc = "idle"
      /\ UNCHANGED <<task, generation, archived, cursor, outbox, inbox, asked, page, requests, reply, stored, published>>
  BY <1>1 DEF Start, connection, network
<1>4. Typed'
  BY <1>1, <1>2, <1>3 DEF Inv, Typed, TypeOK
<1>5. QueueIsWhole' /\ MemoryIsTrue' /\ RequestsAreRuns'
  BY <1>1, <1>2, <1>3 DEF Inv, QueueIsWhole, Queued, MemoryIsTrue, RequestsAreRuns, Seqs
<1>6. ServiceHoldsPrefix'
  BY <1>2, <1>3 DEF Inv, ServiceHoldsPrefix, HeldUpTo, Queued
<1>7. DeliveryIsTrue'
  BY <1>2, <1>3 DEF Inv, DeliveryIsTrue, CursorBehindInbox, PageIsTrue
<1>8. HistoryIsKept' /\ TombstonesQueued' /\ NoTombstoneDropped'
  BY <1>2, <1>3 DEF Inv, HistoryIsKept, TombstonesQueued, NoTombstoneDropped
<1> QED BY <1>4, <1>5, <1>6, <1>7, <1>8 DEF Inv

\* The queue of transitions names every archived generation and the one asked for.
LEMMA TransitionsOf ==
    ASSUME Inv, NEW g \in 1 .. MaxGeneration, Bounds
    PROVE  /\ Transitions(g) \in Seq(Keys) /\ Lists(Transitions(g), <<"registration", g>>)
           /\ \A k \in 1 .. archived : Lists(Transitions(g), <<"registration", k>>)
<1> DEFINE past == [i \in 1 .. archived |-> <<"registration", i>>]
           now  == <<<<"registration", g>>>>
<1>1. archived \in Nat /\ archived <= MaxGeneration /\ MaxGeneration \in Nat
  BY DEF Inv, Typed, TypeOK, Bounds
<1>2. \A i \in 1 .. MaxGeneration : <<"registration", i>> \in Keys
  BY DEF Keys, Registrations
<1>3. past \in Seq(Keys) /\ \A i \in 1 .. archived : Lists(past, <<"registration", i>>)
  BY <1>1, <1>2 DEF Lists
<1>4. now \in Seq(Keys) /\ Lists(now, <<"registration", g>>)
  BY <1>2 DEF Lists
<1>5. Transitions(g) = past \o now
  BY DEF Transitions
<1> HIDE DEF past, now
<1> QED BY <1>3, <1>4, <1>5, Concatenation

\* The commands: each lists what it has to queue, and nothing moves but the goal.
LEMMA CommandsKeep == ASSUME Bounds, Inv, Commands PROVE Inv'
<1>1. generation \in Nat /\ archived \in Nat /\ generation <= archived + 1 /\ archived <= generation /\ task \in 0 .. MaxTask
  BY DEF Inv, Typed, TypeOK, HistoryIsKept
<1>2. CASE ProjectConnect
  <2> DEFINE g == IF Connected(generation) THEN generation ELSE generation + 1
  <2>1. Start("connect", g, Transitions(g), "enqueue") /\ g \in {generation, generation + 1} /\ g <= MaxGeneration
    BY <1>2 DEF ProjectConnect, Start
  <2>2. g # 0
    BY <1>1 DEF Connected
  <2>3. g \in 1 .. MaxGeneration
    BY <1>1, <2>1, <2>2 DEF Bounds
  <2> HIDE DEF g
  <2> QED BY <2>1, <2>3, StartKeeps, TransitionsOf
<1>3. CASE ProjectDisconnect
  <2>1. PICK keys \in {<<>>, <<<<"registration", generation + 1>>>>} : Start("disconnect", generation + 1, keys, "archive")
    BY <1>3 DEF ProjectDisconnect
  <2>2. generation + 1 \in 1 .. MaxGeneration
    BY <1>1, <2>1 DEF Start, Bounds
  <2>3. <<"registration", generation + 1>> \in Keys
    BY <2>2 DEF Keys, Registrations
  <2>4. <<>> \in Seq(Keys) /\ <<<<"registration", generation + 1>>>> \in Seq(Keys)
    BY <2>3
  <2>5. keys \in Seq(Keys)
    BY <2>1, <2>4
  <2> QED BY <2>1, <2>5, StartKeeps
<1>4. CASE ProjectSync
  <2> DEFINE T == Transitions(generation)
             U == <<<<"task", task>>>>
  <2>1. Start("sync", generation, T \o U, "enqueue") /\ Connected(generation) /\ generation <= MaxGeneration
    BY <1>4 DEF ProjectSync, Start
  <2>2. generation # 0
    BY <2>1 DEF Connected
  <2>3. generation \in 1 .. MaxGeneration
    BY <1>1, <2>1, <2>2 DEF Bounds
  <2>4. U \in Seq(Keys)
    BY <1>1 DEF Keys
  <2>5. /\ T \in Seq(Keys) /\ Lists(T, <<"registration", generation>>)
        /\ \A k \in 1 .. archived : Lists(T, <<"registration", k>>)
    BY <2>3, TransitionsOf
  <2> HIDE DEF T, U
  <2>6. T \o U \in Seq(Keys) /\ \A x : Lists(T, x) => Lists(T \o U, x)
    BY <2>4, <2>5, Concatenation
  <2>7. ASSUME NEW k \in 1 .. generation PROVE Lists(T \o U, <<"registration", k>>)
    <3>1. k \in 1 .. archived \/ k = generation
      BY <1>1
    <3> QED BY <2>5, <2>6, <3>1
  <2> QED BY <2>1, <2>6, <2>7, StartKeeps
<1> QED BY <1>2, <1>3, <1>4 DEF Commands

-----------------------------------------------------------------------------
(* The steps of a command.                                                 *)

\* A key that has its row is passed over.
LEMMA SkipKeeps ==
    ASSUME Bounds, Inv, Enqueue, \E r \in outbox : r.key = Head(todo)
    PROVE  Inv'
<1>1. /\ pc = "enqueue" /\ todo # <<>> /\ todo' = Tail(todo)
      /\ UNCHANGED <<pc, task, generation, archived, cursor, outbox, saved, inbox, cmd, mem, goal, asked, page,
                     requests, reply, stored, published>>
  BY DEF Enqueue, connection, network
<1>2. todo' \in Seq(Keys) /\ \A x : Lists(todo, x) => x = Head(todo) \/ Lists(todo', x)
  BY <1>1, TodoStep DEF Inv, Typed
<1>3. Typed'
  BY <1>1, <1>2 DEF Inv, Typed, TypeOK
<1>4. QueueIsWhole' /\ MemoryIsTrue' /\ RequestsAreRuns' /\ ServiceHoldsPrefix'
  BY <1>1 DEF Inv, QueueIsWhole, Queued, MemoryIsTrue, RequestsAreRuns, Seqs, ServiceHoldsPrefix, HeldUpTo
<1>5. DeliveryIsTrue' /\ HistoryIsKept' /\ NoTombstoneDropped'
  BY <1>1 DEF Inv, DeliveryIsTrue, CursorBehindInbox, PageIsTrue, HistoryIsKept, NoTombstoneDropped
<1>6. TombstonesQueued'
  BY <1>1, <1>2 DEF Inv, TombstonesQueued
<1> QED BY <1>3, <1>4, <1>5, <1>6 DEF Inv

\* A new row has the next sequence.
LEMMA CreateKeeps ==
    ASSUME Bounds, Inv, Enqueue, ~\E r \in outbox : r.key = Head(todo)
    PROVE  Inv'
<1> DEFINE new == [seq |-> Queued + 1, key |-> Head(todo)]
<1>1. Queued \in Nat /\ mem.next = Queued + 1 /\ mem \in [next : Nat, ack : Nat]
  BY NextIsAfterRows DEF Inv, MemoryIsTrue, Typed, Enqueue
<1>2. /\ pc = "enqueue" /\ pc' = "created" /\ todo # <<>> /\ outbox' = outbox \cup {new}
      /\ UNCHANGED <<task, generation, archived, cursor, saved, inbox, cmd, mem, goal, todo, asked, page,
                     requests, reply, stored, published>>
  BY <1>1 DEF Enqueue, connection, network, Goto
<1>3. Head(todo) \in Keys
  BY <1>2, TodoStep DEF Inv, Typed
<1>4. new.seq = Queued + 1 /\ new.key = Head(todo)
  OBVIOUS
<1> HIDE DEF new
<1>5. \A r \in outbox : r.seq \in 1 .. Queued
  BY DEF Inv, QueueIsWhole, Seqs
<1>6. IsFiniteSet(outbox') /\ Queued' = Queued + 1
  <2>1. new \notin outbox
    BY <1>1, <1>4, <1>5
  <2> QED BY <1>2, <2>1, FS_AddElement DEF Inv, QueueIsWhole, Queued
<1>7. Typed'
  BY <1>1, <1>2, <1>3, <1>4 DEF Inv, Typed, TypeOK
<1>8. QueueIsWhole'
  <2>1. Seqs(outbox') = Seqs(outbox) \cup {Queued + 1}
    BY <1>2, <1>4 DEF Seqs
  <2>2. Seqs(outbox') = 1 .. Queued'
    BY <1>1, <1>6, <2>1 DEF Inv, QueueIsWhole
  <2>3. \A r \in outbox : r.key # new.key /\ r.seq # new.seq
    BY <1>1, <1>4, <1>5
  <2>4. \A r, s \in outbox' : r.key = s.key \/ r.seq = s.seq => r = s
    BY <1>2, <2>3 DEF Inv, QueueIsWhole
  <2> QED BY <1>6, <2>2, <2>4 DEF QueueIsWhole
<1>9. MemoryIsTrue'
  BY <1>1, <1>2, <1>4, <1>6 DEF Inv, MemoryIsTrue, Typed, TypeOK
<1>10. ASSUME NEW k \in 0 .. Queued PROVE \A r \in outbox' : r.seq <= k <=> r \in outbox /\ r.seq <= k
  BY <1>1, <1>2, <1>4, <1>10
<1>11. ServiceHoldsPrefix'
  <2>1. PICK h \in 0 .. Queued : HeldUpTo(h)
    BY DEF Inv, ServiceHoldsPrefix
  <2>2. h \in 0 .. Queued'
    BY <1>1, <1>6
  <2>3. {r \in outbox' : r.seq <= h} = {r \in outbox : r.seq <= h}
    BY <1>2, <1>10
  <2> QED BY <1>2, <2>1, <2>2, <2>3 DEF ServiceHoldsPrefix, HeldUpTo
<1>12. RequestsAreRuns'
  <2>1. ASSUME NEW q \in requests
        PROVE  \E to \in q.from .. Queued' : q.rows = {r \in outbox' : q.from < r.seq /\ r.seq <= to}
    <3>1. PICK to \in q.from .. Queued : q.rows = {r \in outbox : q.from < r.seq /\ r.seq <= to}
      BY DEF Inv, RequestsAreRuns
    <3>2. q.from \in Nat
      BY DEF Inv, Typed
    <3>3. to \in 0 .. Queued /\ to \in q.from .. Queued'
      BY <1>1, <1>6, <3>1, <3>2
    <3>4. {r \in outbox' : q.from < r.seq /\ r.seq <= to} = {r \in outbox : q.from < r.seq /\ r.seq <= to}
      BY <1>2, <1>10, <3>3
    <3> QED BY <3>1, <3>3, <3>4
  <2> QED BY <1>2, <2>1 DEF RequestsAreRuns
<1>13. DeliveryIsTrue' /\ HistoryIsKept' /\ NoTombstoneDropped'
  BY <1>2 DEF Inv, DeliveryIsTrue, CursorBehindInbox, PageIsTrue, HistoryIsKept, NoTombstoneDropped
<1>14. TombstonesQueued'
  BY <1>2 DEF Inv, TombstonesQueued
<1> QED BY <1>7, <1>8, <1>9, <1>11, <1>12, <1>13, <1>14 DEF Inv

LEMMA SaveNextKeeps == ASSUME Bounds, Inv, SaveNext PROVE Inv'
<1>1. /\ pc = "created" /\ pc' = "enqueue" /\ todo # <<>> /\ todo' = Tail(todo)
      /\ \E r \in outbox : r.key = Head(todo)
      /\ UNCHANGED <<task, generation, archived, cursor, outbox, inbox, cmd, goal, asked, page,
                     requests, reply, stored, published>>
  BY DEF Inv, MemoryIsTrue, SaveNext, connection, network, Goto
<1>2. todo' \in Seq(Keys) /\ \A x : Lists(todo, x) => x = Head(todo) \/ Lists(todo', x)
  BY <1>1, TodoStep DEF Inv, Typed
<1>3. Queued \in Nat /\ mem.next = Queued /\ mem.ack = saved.ack /\ mem \in [next : Nat, ack : Nat] /\ saved \in [next : Nat, ack : Nat]
  BY <1>1, NextIsAfterRows DEF Inv, MemoryIsTrue, Typed
<1>4. /\ mem' \in [next : Nat, ack : Nat] /\ mem'.next = Queued + 1 /\ mem'.ack = saved.ack
      /\ saved' \in [next : Nat, ack : Nat] /\ saved'.next = Queued + 1 /\ saved'.ack = saved.ack
  BY <1>3 DEF SaveNext
<1>5. Typed'
  BY <1>1, <1>2, <1>3, <1>4 DEF Inv, Typed, TypeOK
<1>6. QueueIsWhole' /\ RequestsAreRuns' /\ ServiceHoldsPrefix'
  BY <1>1, <1>4 DEF Inv, QueueIsWhole, Queued, RequestsAreRuns, Seqs, ServiceHoldsPrefix, HeldUpTo
<1>9. MemoryIsTrue'
  BY <1>1, <1>3, <1>4 DEF MemoryIsTrue, Queued
<1>7. DeliveryIsTrue' /\ HistoryIsKept' /\ NoTombstoneDropped'
  BY <1>1 DEF Inv, DeliveryIsTrue, CursorBehindInbox, PageIsTrue, HistoryIsKept, NoTombstoneDropped
<1>8. TombstonesQueued'
  BY <1>1, <1>2 DEF Inv, TombstonesQueued
<1> QED BY <1>5, <1>6, <1>7, <1>8, <1>9 DEF Inv

\* Whoever sends has passed every key.
LEMMA EnqueuedKeeps == ASSUME Bounds, Inv, Enqueued PROVE Inv'
<1>1. generation \in 0 .. MaxGeneration /\ archived \in 0 .. MaxGeneration /\ cursor \in Positions
  BY DEF Inv, Typed, TypeOK, Positions
<1>2. pc = "enqueue" /\ todo = <<>> /\ UNCHANGED <<task, generation, archived, cursor, outbox, saved, inbox, requests, stored, published>>
  BY DEF Enqueued, connection
<1>3. CASE cmd = "disconnect" /\ Return
  BY <1>1, <1>2, <1>3, ReturnKeeps DEF Inv, CursorBehindInbox, DeliveryIsTrue, HistoryIsKept
<1>4. CASE /\ cmd # "disconnect" /\ Goto(IF cmd = "connect" THEN "archive" ELSE "send")
           /\ UNCHANGED <<cmd, mem, goal, todo, asked, page, reply>>
  <2>1. pc' \in {"archive", "send"} /\ (pc' = "send" => cmd = "sync")
    BY <1>2, <1>4 DEF Goto, Inv, Typed
  <2>2. Typed'
    BY <1>2, <1>4, <2>1 DEF Inv, Typed, TypeOK
  <2>3. QueueIsWhole' /\ MemoryIsTrue' /\ RequestsAreRuns' /\ ServiceHoldsPrefix'
    BY <1>2, <1>4, <2>1 DEF Inv, QueueIsWhole, Queued, MemoryIsTrue, RequestsAreRuns, Seqs,
                            ServiceHoldsPrefix, HeldUpTo
  <2>4. DeliveryIsTrue' /\ HistoryIsKept' /\ TombstonesQueued'
    BY <1>2, <1>4, <2>1 DEF Inv, DeliveryIsTrue, CursorBehindInbox, PageIsTrue, HistoryIsKept, TombstonesQueued
  <2>5. \A x : ~Lists(todo, x)
    BY <1>2 DEF Lists
  <2>6. NoTombstoneDropped'
    BY <1>2, <2>1, <2>5 DEF Inv, TombstonesQueued, NoTombstoneDropped
  <2> QED BY <2>2, <2>3, <2>4, <2>6 DEF Inv
<1> QED BY <1>3, <1>4 DEF Enqueued

\* The connection that is replaced has been archived.
LEMMA ArchiveKeeps == ASSUME Bounds, Inv, Archive PROVE Inv'
<1>1. /\ pc = "archive" /\ pc' = "publish"
      /\ UNCHANGED <<task, generation, cursor, outbox, saved, inbox, cmd, mem, goal, todo, asked, page,
                     requests, reply, stored, published>>
  BY DEF Archive, network, Goto
<1>2. archived' = IF generation = goal \/ generation <= archived THEN archived ELSE generation
  BY DEF Archive
<1>3. Typed'
  BY <1>1, <1>2 DEF Inv, Typed, TypeOK
<1>4. QueueIsWhole' /\ MemoryIsTrue' /\ RequestsAreRuns' /\ ServiceHoldsPrefix'
  BY <1>1 DEF Inv, QueueIsWhole, Queued, MemoryIsTrue, RequestsAreRuns, Seqs, ServiceHoldsPrefix, HeldUpTo
<1>5. DeliveryIsTrue' /\ TombstonesQueued' /\ NoTombstoneDropped'
  BY <1>1 DEF Inv, DeliveryIsTrue, CursorBehindInbox, PageIsTrue, TombstonesQueued, NoTombstoneDropped
<1>6. HistoryIsKept'
  BY <1>1, <1>2 DEF Inv, HistoryIsKept, Typed, TypeOK
<1> QED BY <1>3, <1>4, <1>5, <1>6 DEF Inv

LEMMA PublishConnectionKeeps == ASSUME Bounds, Inv, PublishConnection PROVE Inv'
<1>1. /\ pc = "publish" /\ generation' = goal
      /\ UNCHANGED <<task, archived, cursor, outbox, saved, inbox, requests, stored, published>>
  BY DEF PublishConnection
<1>2. /\ generation' \in 0 .. MaxGeneration /\ archived' \in 0 .. MaxGeneration /\ cursor' \in Positions
      /\ generation' <= archived' + 1 /\ archived' <= generation'
  BY <1>1 DEF Inv, Typed, TypeOK, HistoryIsKept, Positions
<1>3. CASE cmd = "connect" /\ Return
  BY <1>1, <1>2, <1>3, ReturnKeeps DEF Inv, CursorBehindInbox, DeliveryIsTrue
<1>4. CASE cmd = "disconnect" /\ Goto("enqueue") /\ UNCHANGED <<cmd, mem, goal, todo, asked, page, reply>>
  <2>1. pc' = "enqueue" /\ cmd' = "disconnect"
    BY <1>4 DEF Goto
  <2>2. Typed'
    BY <1>1, <1>2, <1>4, <2>1 DEF Inv, Typed, TypeOK
  <2>3. QueueIsWhole' /\ MemoryIsTrue' /\ RequestsAreRuns' /\ ServiceHoldsPrefix'
    BY <1>1, <1>4, <2>1 DEF Inv, QueueIsWhole, Queued, MemoryIsTrue, RequestsAreRuns, Seqs,
                            ServiceHoldsPrefix, HeldUpTo
  <2>4. DeliveryIsTrue' /\ TombstonesQueued' /\ NoTombstoneDropped'
    BY <1>1, <1>4, <2>1 DEF Inv, DeliveryIsTrue, CursorBehindInbox, PageIsTrue, TombstonesQueued,
                            NoTombstoneDropped
  <2>5. HistoryIsKept'
    BY <1>1, <1>2, <1>4, <2>1 DEF Inv, HistoryIsKept
  <2> QED BY <2>2, <2>3, <2>4, <2>5 DEF Inv
<1> QED BY <1>3, <1>4 DEF PublishConnection

-----------------------------------------------------------------------------
(* The exchange.                                                           *)

\* A request is the run of rows above what is acknowledged.
LEMMA SendKeeps == ASSUME Bounds, Inv, Send PROVE Inv'
<1> DEFINE q == [from |-> mem.ack, rows |-> Batch, cursor |-> cursor]
<1>1. /\ pc = "send" /\ pc' = "wait" /\ asked' = q /\ requests' = requests \cup {q}
      /\ UNCHANGED <<task, generation, archived, cursor, outbox, saved, inbox, cmd, mem, goal, todo, page,
                     reply, stored, published>>
  BY DEF Send, connection, Goto
<1>2. q.from = saved.ack /\ q.from \in Nat /\ q.cursor = cursor /\ cursor \in Positions /\ q.rows = Batch
  BY <1>1 DEF Inv, MemoryIsTrue, Typed, TypeOK, Positions
<1>3. \E to \in q.from .. Queued : q.rows = {r \in outbox : q.from < r.seq /\ r.seq <= to}
  <2>1. Queued \in Nat /\ MaxBatch \in Nat /\ saved.ack \in Nat /\ saved.ack <= Queued
    BY NextIsAfterRows DEF Inv, ServiceHoldsPrefix, HeldUpTo, Typed, Bounds
  <2> DEFINE to == IF Queued <= saved.ack + MaxBatch THEN Queued ELSE saved.ack + MaxBatch
  <2>2. to \in saved.ack .. Queued
    BY <2>1
  <2>3. \A r \in outbox : r.seq \in 1 .. Queued
    BY DEF Inv, QueueIsWhole, Seqs
  <2>4. Batch = {r \in outbox : saved.ack < r.seq /\ r.seq <= to}
    BY <1>1, <2>1, <2>3 DEF Batch, Inv, MemoryIsTrue
  <2> HIDE DEF q, to
  <2> QED BY <1>2, <2>2, <2>4
<1> HIDE DEF q
<1>4. Typed'
  BY <1>1, <1>2 DEF Inv, Typed, TypeOK
<1>5. QueueIsWhole' /\ MemoryIsTrue'
  BY <1>1 DEF Inv, QueueIsWhole, Queued, MemoryIsTrue, Seqs
<1>6. RequestsAreRuns'
  BY <1>1, <1>3 DEF Inv, RequestsAreRuns, Queued
<1>7. ServiceHoldsPrefix'
  BY <1>1, <1>2 DEF Inv, ServiceHoldsPrefix, HeldUpTo, Queued
<1>8. DeliveryIsTrue'
  BY <1>1, <1>2 DEF Inv, DeliveryIsTrue, CursorBehindInbox, PageIsTrue
<1>9. HistoryIsKept' /\ TombstonesQueued' /\ NoTombstoneDropped'
  BY <1>1 DEF Inv, HistoryIsKept, TombstonesQueued, NoTombstoneDropped
<1> QED BY <1>4, <1>5, <1>6, <1>7, <1>8, <1>9 DEF Inv

\* The service extends its prefix by the part of a request it stores.
LEMMA StoreExtends ==
    ASSUME Inv, NEW h \in 0 .. Queued, HeldUpTo(h), NEW q \in requests, NEW n \in Nat,
           NEW to \in q.from .. Queued, q.rows = {r \in outbox : q.from < r.seq /\ r.seq <= to}
    PROVE  \E k \in h .. Queued :
              stored \cup {r \in q.rows : r.seq <= n /\ Acceptable(r)} = {r \in outbox : r.seq <= k}
<1>1. Queued \in Nat /\ \A r \in outbox : r.seq \in 1 .. Queued
  BY NextIsAfterRows DEF Inv, QueueIsWhole, Seqs
<1>2. stored = {r \in outbox : r.seq <= h} /\ q.from \in Nat /\ q.from <= h
  BY DEF HeldUpTo, Inv, Typed
<1> DEFINE end == IF to <= n THEN to ELSE n
           k   == IF end <= h THEN h ELSE end
<1>3. end \in Nat /\ k \in h .. Queued
  BY <1>1, <1>2
<1>4. \A r \in q.rows : Acceptable(r) <=> r \notin stored
  BY <1>2 DEF Acceptable, Inv, QueueIsWhole
<1>5. stored \cup {r \in q.rows : r.seq <= n /\ Acceptable(r)} = {r \in outbox : r.seq <= k}
  BY <1>1, <1>2, <1>3, <1>4
<1> QED BY <1>3, <1>5

\* What is confirmed is held.
LEMMA ConfirmedIsHeld ==
    ASSUME Inv, NEW k \in 0 .. Queued, NEW q \in requests, q.from <= k,
           NEW to \in q.from .. Queued, q.rows = {r \in outbox : q.from < r.seq /\ r.seq <= to},
           Confirmed(q, {r \in outbox : r.seq <= k})
    PROVE  Contiguous(q.from, Seqs(q.rows)) = to /\ to <= k
<1>1. Queued \in Nat /\ q.from \in Nat /\ Seqs(outbox) = 1 .. Queued
  BY NextIsAfterRows DEF Inv, QueueIsWhole, Typed
<1>2. Seqs(q.rows) = q.from + 1 .. to
  <2>1. \A i \in q.from + 1 .. to : \E r \in outbox : r.seq = i
    <3>1. \A i \in 1 .. Queued : i \in Seqs(outbox)
      BY <1>1
    <3>2. \A i \in q.from + 1 .. to : i \in 1 .. Queued
      BY <1>1
    <3> QED BY <3>1, <3>2 DEF Seqs
  <2>2. \A r \in outbox : r.seq \in 1 .. Queued
    BY <1>1 DEF Seqs
  <2>3. ASSUME NEW i \in q.from + 1 .. to PROVE i \in Seqs(q.rows)
    BY <1>1, <2>1 DEF Seqs
  <2>4. ASSUME NEW i \in Seqs(q.rows) PROVE i \in q.from + 1 .. to
    BY <1>1, <2>2 DEF Seqs
  <2> QED BY <2>3, <2>4
<1>3. Contiguous(q.from, q.from + 1 .. to) = to
  BY <1>1, ContiguousOf
<1>4. to <= k
  <2>1. CASE to = q.from
    BY <2>1
  <2>2. CASE to # q.from
    <3>1. PICK r \in outbox : r.seq = to
      BY <1>1, <2>2 DEF Seqs
    <3> QED BY <1>1, <2>2, <3>1 DEF Confirmed
  <2> QED BY <2>1, <2>2
<1> QED BY <1>2, <1>3, <1>4

LEMMA ExchangeKeeps ==
    ASSUME Bounds, Inv, NEW q \in requests, NEW n \in q.from .. q.from + MaxBatch, Exchange(q, n)
    PROVE  Inv' /\ \E h \in 0 .. Queued, k \in 0 .. Queued :
                      h <= k /\ stored = {r \in outbox : r.seq <= h} /\ stored' = {r \in outbox : r.seq <= k}
<1>1. UNCHANGED <<task, generation, archived, cursor, outbox, saved, inbox, pc, cmd, mem, goal, todo, asked, page,
                  requests, published>>
  BY DEF Exchange, connection, process
<1>2. Queued \in Nat /\ q.from \in Nat /\ n \in Nat /\ q.cursor \in Positions
  BY NextIsAfterRows DEF Inv, Typed, Bounds
<1>3. PICK h \in 0 .. Queued : HeldUpTo(h)
  BY DEF Inv, ServiceHoldsPrefix
<1>4. PICK to \in q.from .. Queued : q.rows = {r \in outbox : q.from < r.seq /\ r.seq <= to}
  BY DEF Inv, RequestsAreRuns
<1>5. PICK k \in h .. Queued : stored' = {r \in outbox : r.seq <= k}
  BY <1>2, <1>3, <1>4, StoreExtends DEF Exchange
<1>6. k \in 0 .. Queued /\ h <= k /\ q.from <= k
  BY <1>2, <1>3, <1>5 DEF HeldUpTo
<1> DEFINE answer == [ack |-> Contiguous(q.from, Seqs(q.rows)), page |-> Pull(q.cursor)]
<1>7. reply' = reply \/ (reply' = answer /\ pc = "wait" /\ q = asked /\ Confirmed(q, stored'))
  BY DEF Exchange
<1>8. ASSUME pc = "wait", q = asked, Confirmed(q, stored')
      PROVE  answer.ack \in Nat /\ answer.ack <= k /\ PageIsTrue(answer)
  <2>1. answer.ack = to /\ to <= k /\ to \in Nat
    <3>1. Confirmed(q, {r \in outbox : r.seq <= k})
      BY <1>5, <1>8
    <3>2. Contiguous(q.from, Seqs(q.rows)) = to /\ to <= k
      BY <1>4, <1>6, <3>1, ConfirmedIsHeld
    <3> QED BY <1>2, <3>2
  <2>2. /\ Pull(q.cursor).envelopes \in SUBSET (1 .. MaxPublished) /\ Pull(q.cursor).cursor \in Positions
        /\ Pull(q.cursor) = [envelopes |-> Pull(q.cursor).envelopes, cursor |-> Pull(q.cursor).cursor]
        /\ 1 .. Pull(q.cursor).cursor.after \subseteq 1 .. q.cursor.after \cup Pull(q.cursor).envelopes
    BY <1>2, PullContinues DEF Inv, Typed
  <2>3. q.cursor = cursor
    BY <1>8 DEF Inv, DeliveryIsTrue
  <2>4. answer.page = Pull(q.cursor) /\ answer = [ack |-> answer.ack, page |-> answer.page]
    OBVIOUS
  <2> HIDE DEF answer
  <2>5. answer \in Answers
    BY <2>1, <2>2, <2>4 DEF Answers
  <2> QED BY <2>1, <2>2, <2>3, <2>4, <2>5 DEF PageIsTrue
<1> HIDE DEF answer
<1>9. Typed'
  <2>1. \A r \in stored' : r.key \in Keys /\ r.seq \in Nat
    BY <1>5 DEF Inv, Typed, TypeOK
  <2> QED BY <1>1, <2>1 DEF Inv, Typed, TypeOK
<1>10. QueueIsWhole' /\ MemoryIsTrue' /\ RequestsAreRuns'
  BY <1>1 DEF Inv, QueueIsWhole, Queued, MemoryIsTrue, RequestsAreRuns, Seqs
<1>11. ServiceHoldsPrefix'
  <2>1. saved.ack <= k /\ (pc \in {"receive", "record"} => page.ack <= k) /\ \A p \in requests : p.from <= k
    BY <1>2, <1>3, <1>6 DEF HeldUpTo, Inv, Typed, DeliveryIsTrue, PageIsTrue, Answers
  <2>2. reply' # None => reply'.ack <= k
    <3>1. reply # None => reply.ack <= k
      BY <1>2, <1>3, <1>6 DEF HeldUpTo, Inv, DeliveryIsTrue, PageIsTrue, Answers
    <3> QED BY <1>7, <1>8, <3>1
  <2> QED BY <1>1, <1>5, <1>6, <2>1, <2>2 DEF ServiceHoldsPrefix, HeldUpTo, Queued
<1>12. DeliveryIsTrue'
  <2>1. reply' # None => PageIsTrue(reply')
    BY <1>7, <1>8 DEF Inv, DeliveryIsTrue
  <2> QED BY <1>1, <2>1 DEF Inv, DeliveryIsTrue, CursorBehindInbox, PageIsTrue
<1>13. HistoryIsKept' /\ TombstonesQueued' /\ NoTombstoneDropped'
  BY <1>1 DEF Inv, HistoryIsKept, TombstonesQueued, NoTombstoneDropped
<1>14. stored = {r \in outbox : r.seq <= h}
  BY <1>3 DEF HeldUpTo
<1> QED BY <1>3, <1>5, <1>6, <1>9, <1>10, <1>11, <1>12, <1>13, <1>14 DEF Inv

\* What the client does with an answer.
LEMMA TakeReplyKeeps == ASSUME Bounds, Inv, TakeReply PROVE Inv'
<1>1. /\ pc = "wait" /\ reply # None /\ page' = reply /\ pc' = "receive"
      /\ UNCHANGED <<task, generation, archived, cursor, outbox, saved, inbox, cmd, mem, goal, todo, asked,
                     requests, reply, stored, published>>
  BY DEF TakeReply, connection, network, Goto
<1>2. Typed' /\ QueueIsWhole' /\ MemoryIsTrue' /\ RequestsAreRuns'
  BY <1>1 DEF Inv, Typed, TypeOK, QueueIsWhole, Queued, MemoryIsTrue, RequestsAreRuns, Seqs
<1>3. ServiceHoldsPrefix'
  BY <1>1 DEF Inv, ServiceHoldsPrefix, HeldUpTo, Queued
<1>4. DeliveryIsTrue'
  BY <1>1 DEF Inv, DeliveryIsTrue, CursorBehindInbox, PageIsTrue
<1>5. HistoryIsKept' /\ TombstonesQueued' /\ NoTombstoneDropped'
  BY <1>1 DEF Inv, HistoryIsKept, TombstonesQueued, NoTombstoneDropped
<1> QED BY <1>2, <1>3, <1>4, <1>5 DEF Inv

\* What a page brings lies in the inbox before its cursor is recorded.
LEMMA ReceiveKeeps == ASSUME Bounds, Inv, Receive PROVE Inv'
<1> DEFINE left == page.page.envelopes \ inbox
<1>1. /\ pc = "receive" /\ left # {} /\ inbox' = inbox \cup {Min(left)}
      /\ UNCHANGED <<pc, task, generation, archived, cursor, outbox, saved, cmd, mem, goal, todo, asked, page,
                     requests, reply, stored, published>>
  BY DEF Receive, connection, network, process
<1>2. page.page.envelopes \subseteq 1 .. MaxPublished
  BY <1>1 DEF Inv, DeliveryIsTrue, PageIsTrue, Answers
<1>3. Min(left) \in 1 .. MaxPublished
  <2>1. left \in SUBSET Nat
    BY <1>2
  <2>2. Min(left) \in left
    BY <1>1, <2>1, Least
  <2> QED BY <1>2, <2>2
<1> HIDE DEF left
<1>4. Typed' /\ QueueIsWhole' /\ MemoryIsTrue' /\ RequestsAreRuns'
  BY <1>1, <1>3 DEF Inv, Typed, TypeOK, QueueIsWhole, Queued, MemoryIsTrue, RequestsAreRuns, Seqs
<1>5. ServiceHoldsPrefix'
  BY <1>1 DEF Inv, ServiceHoldsPrefix, HeldUpTo, Queued
<1>6. DeliveryIsTrue'
  BY <1>1 DEF Inv, DeliveryIsTrue, CursorBehindInbox, PageIsTrue
<1>7. HistoryIsKept' /\ TombstonesQueued' /\ NoTombstoneDropped'
  BY <1>1 DEF Inv, HistoryIsKept, TombstonesQueued, NoTombstoneDropped
<1> QED BY <1>4, <1>5, <1>6, <1>7 DEF Inv

\* What is acknowledged is held by the service.
LEMMA AcknowledgeKeeps ==
    ASSUME Bounds, Inv, Acknowledge
    PROVE  Inv' /\ saved'.ack \in Nat /\ saved.ack <= saved'.ack
<1>1. /\ pc = "receive" /\ pc' = "record" /\ page.page.envelopes \subseteq inbox
      /\ UNCHANGED <<task, generation, archived, cursor, outbox, inbox, cmd, goal, todo, asked, page,
                     requests, reply, stored, published>>
  BY DEF Acknowledge, connection, network, Goto
<1>2. /\ mem.ack = saved.ack /\ page.ack \in Nat /\ mem.next = Queued + 1
      /\ saved \in [next : Nat, ack : Nat] /\ mem \in [next : Nat, ack : Nat]
  BY <1>1 DEF Inv, MemoryIsTrue, DeliveryIsTrue, PageIsTrue, Answers, Typed
<1> DEFINE m == IF saved.ack <= page.ack THEN page.ack ELSE saved.ack
<1>3. Max({saved.ack, page.ack}) = m /\ m \in Nat /\ saved.ack <= m
  BY <1>2, MaxOfTwo
<1>4. /\ mem' \in [next : Nat, ack : Nat] /\ mem'.ack = m /\ mem'.next = mem.next
      /\ saved' \in [next : Nat, ack : Nat] /\ saved'.ack = m /\ saved'.next = saved.next
  BY <1>2, <1>3 DEF Acknowledge
<1>5. Typed' /\ QueueIsWhole' /\ RequestsAreRuns'
  BY <1>1, <1>4 DEF Inv, Typed, TypeOK, QueueIsWhole, Queued, RequestsAreRuns, Seqs
<1>6. MemoryIsTrue'
  BY <1>1, <1>2, <1>4 DEF Inv, MemoryIsTrue, Queued
<1>7. ServiceHoldsPrefix'
  BY <1>1, <1>4 DEF Inv, ServiceHoldsPrefix, HeldUpTo, Queued
<1>8. DeliveryIsTrue'
  BY <1>1 DEF Inv, DeliveryIsTrue, CursorBehindInbox, PageIsTrue
<1>9. HistoryIsKept' /\ TombstonesQueued' /\ NoTombstoneDropped'
  BY <1>1 DEF Inv, HistoryIsKept, TombstonesQueued, NoTombstoneDropped
<1> QED BY <1>3, <1>4, <1>5, <1>6, <1>7, <1>8, <1>9 DEF Inv

\* The cursor is recorded when everything before it has been received.
LEMMA RecordCursorKeeps == ASSUME Bounds, Inv, RecordCursor PROVE Inv'
<1>1. /\ pc = "record" /\ cursor' = page.page.cursor /\ Return
      /\ UNCHANGED <<task, generation, archived, outbox, saved, inbox, requests, stored, published>>
  BY DEF RecordCursor
<1>2. PageIsTrue(page) /\ page.page.envelopes \subseteq inbox /\ 1 .. cursor.after \subseteq inbox
  BY <1>1 DEF Inv, DeliveryIsTrue, CursorBehindInbox
<1>3. cursor' \in Positions /\ CursorBehindInbox'
  BY <1>1, <1>2 DEF PageIsTrue, Answers, CursorBehindInbox
<1>4. generation' \in 0 .. MaxGeneration /\ archived' \in 0 .. MaxGeneration /\ generation' <= archived' + 1 /\ archived' <= generation'
  BY <1>1 DEF Inv, Typed, TypeOK, HistoryIsKept
<1> QED BY <1>1, <1>3, <1>4, ReturnKeeps

LEMMA FailureKeeps == ASSUME Bounds, Inv, ExchangeFails \/ Crash PROVE Inv'
<1>1. Return /\ UNCHANGED <<task, generation, archived, cursor, outbox, saved, inbox, requests, stored, published>>
  BY DEF ExchangeFails, Crash, connection
<1>2. /\ generation' \in 0 .. MaxGeneration /\ archived' \in 0 .. MaxGeneration /\ cursor' \in Positions /\ CursorBehindInbox'
      /\ generation' <= archived' + 1 /\ archived' <= generation'
  BY <1>1 DEF Inv, Typed, TypeOK, HistoryIsKept, Positions, DeliveryIsTrue, CursorBehindInbox
<1> QED BY <1>1, <1>2, ReturnKeeps

LEMMA WorldKeeps == ASSUME Bounds, Inv, TaskChanges \/ PublishEnvelope PROVE Inv'
<1>1. UNCHANGED <<pc, generation, archived, cursor, outbox, saved, inbox, cmd, mem, goal, todo, asked, page, requests, reply, stored>>
  BY DEF TaskChanges, PublishEnvelope, connection, process, network
<1>2. task' \in 0 .. MaxTask /\ published' \in 0 .. MaxPublished
  BY DEF TaskChanges, PublishEnvelope, Inv, Typed, Bounds
<1>3. Typed' /\ QueueIsWhole' /\ MemoryIsTrue' /\ RequestsAreRuns' /\ ServiceHoldsPrefix'
  BY <1>1, <1>2 DEF Inv, Typed, TypeOK, QueueIsWhole, Queued, MemoryIsTrue, RequestsAreRuns, Seqs,
                    ServiceHoldsPrefix, HeldUpTo
<1>4. DeliveryIsTrue' /\ HistoryIsKept' /\ TombstonesQueued' /\ NoTombstoneDropped'
  BY <1>1 DEF Inv, DeliveryIsTrue, CursorBehindInbox, PageIsTrue, HistoryIsKept, TombstonesQueued,
              NoTombstoneDropped
<1> QED BY <1>3, <1>4 DEF Inv

LEMMA StutterKeeps == ASSUME Inv, UNCHANGED vars PROVE Inv'
<1>1. UNCHANGED <<pc, task, generation, archived, cursor, outbox, saved, inbox, cmd, mem, goal, todo, asked, page, requests, reply,
                  stored, published>>
  BY DEF vars, connection, process, network
<1>2. Typed' /\ QueueIsWhole' /\ MemoryIsTrue' /\ RequestsAreRuns' /\ ServiceHoldsPrefix'
  BY <1>1 DEF Inv, Typed, TypeOK, QueueIsWhole, Queued, MemoryIsTrue, RequestsAreRuns, Seqs,
              ServiceHoldsPrefix, HeldUpTo
<1>3. DeliveryIsTrue' /\ HistoryIsKept' /\ TombstonesQueued' /\ NoTombstoneDropped'
  BY <1>1 DEF Inv, DeliveryIsTrue, CursorBehindInbox, PageIsTrue, HistoryIsKept, TombstonesQueued,
              NoTombstoneDropped
<1> QED BY <1>2, <1>3 DEF Inv

LEMMA Inductive == ASSUME Bounds, Inv, [Next]_vars PROVE Inv'
<1>1. ASSUME Client PROVE Inv'
  BY <1>1, SkipKeeps, CreateKeeps, SaveNextKeeps, EnqueuedKeeps, ArchiveKeeps, PublishConnectionKeeps,
     SendKeeps,
     TakeReplyKeeps, ReceiveKeeps, AcknowledgeKeeps, RecordCursorKeeps DEF Client
<1>2. ASSUME NEW q \in requests, NEW n \in q.from .. q.from + MaxBatch, Exchange(q, n) PROVE Inv'
  BY <1>2, ExchangeKeeps
<1> QED BY <1>1, <1>2, CommandsKeep, FailureKeeps, WorldKeeps, StutterKeeps DEF Next

\* No row is sent twice under two sequences, none that the client considers
\* delivered is missing at the service, no tombstone of a connection is left out
\* of a request, and no envelope is skipped by the recorded cursor: for any
\* number of generations, tasks, rows, envelopes, crashes and lost answers.
THEOREM ExchangeIsSafe ==
    ASSUME Bounds
    PROVE  Spec => [](TypeOK /\ QueueStaysOpenable /\ AcknowledgedIsStored /\ NoTombstoneDropped /\ CursorBehindInbox)
<1>1. Init => Inv
  BY InitInv
<1>2. Inv /\ [Next]_vars => Inv'
  BY Inductive
<1>3. ASSUME Inv PROVE TypeOK /\ QueueStaysOpenable /\ AcknowledgedIsStored /\ NoTombstoneDropped /\ CursorBehindInbox
  <2>1. PICK h \in 0 .. Queued : HeldUpTo(h)
    BY <1>3 DEF Inv, ServiceHoldsPrefix
  <2>2. Queued \in Nat /\ saved.ack \in Nat /\ saved.next \in Nat /\ \A r \in outbox : r.seq \in 1 .. Queued
    BY <1>3, NextIsAfterRows DEF Inv, Typed, QueueIsWhole, Seqs
  <2>3. QueueStaysOpenable
    BY <1>3, <2>1, <2>2 DEF Inv, QueueStaysOpenable, Openable, QueueIsWhole, MemoryIsTrue, HeldUpTo, Queued
  <2>4. AcknowledgedIsStored
    BY <2>1, <2>2 DEF AcknowledgedIsStored, HeldUpTo
  <2> QED BY <1>3, <2>3, <2>4 DEF Inv, Typed, DeliveryIsTrue
<1> QED BY <1>1, <1>2, <1>3, PTL DEF Spec

-----------------------------------------------------------------------------
(* The refinement.                                                         *)

\* The variables of the queue.
Pairs == <<EventsQueued, EventsHeld, saved.ack>>

LEMMA KeyOfRow ==
    ASSUME NEW rows, NEW r \in rows, \A s, t \in rows : s.seq = t.seq => s = t
    PROVE  Key(rows, r.seq) = r.key
<1>1. \A s \in rows : s.seq = r.seq => s = r
  OBVIOUS
<1>2. (CHOOSE s \in rows : s.seq = r.seq) = r
  BY <1>1
<1> QED BY <1>2 DEF Key

LEMMA QueuedOf ==
    ASSUME Inv
    PROVE  /\ EventsQueued = [n \in 1 .. Queued |-> Key(outbox, n)] /\ Queued \in Nat
           /\ \A n \in 1 .. Queued : Key(outbox, n) \in Keys
<1>1. Queued \in Nat
  BY NextIsAfterRows DEF Inv
<1>2. ASSUME NEW n \in 1 .. Queued PROVE Key(outbox, n) \in Keys
  <2>1. PICK r \in outbox : r.seq = n
    BY DEF Inv, QueueIsWhole, Seqs
  <2>2. Key(outbox, r.seq) = r.key
    BY KeyOfRow DEF Inv, QueueIsWhole
  <2> QED BY <2>1, <2>2 DEF Inv, Typed, TypeOK
<1> QED BY <1>1, <1>2 DEF EventsQueued, Queued

\* What the service holds, as a prefix of what was queued.
LEMMA HeldOf ==
    ASSUME Inv, NEW h \in 0 .. Queued, NEW rows, rows = {r \in outbox : r.seq <= h}
    PROVE  [n \in 1 .. Contiguous(0, Seqs(rows)) |-> Key(rows, n)] = [n \in 1 .. h |-> Key(outbox, n)]
<1>1. Queued \in Nat /\ Seqs(outbox) = 1 .. Queued
  BY NextIsAfterRows DEF Inv, QueueIsWhole
<1>2. Seqs(rows) = 1 .. h
  BY <1>1 DEF Seqs
<1>3. Contiguous(0, Seqs(rows)) = h
  <2>1. Contiguous(0, 0 + 1 .. h) = h
    BY <1>1, ContiguousOf
  <2>2. 0 + 1 .. h = 1 .. h
    OBVIOUS
  <2> QED BY <1>2, <2>1, <2>2
<1>4. ASSUME NEW n \in 1 .. h PROVE Key(rows, n) = Key(outbox, n)
  <2> n \in Seqs(outbox)
    BY <1>1
  <2>1. PICK r \in outbox : r.seq = n
    BY DEF Seqs
  <2>2. r \in rows
    BY <2>1
  <2>3. Key(outbox, r.seq) = r.key
    BY KeyOfRow DEF Inv, QueueIsWhole
  <2>4. Key(rows, r.seq) = r.key
    BY <2>2, KeyOfRow DEF Inv, QueueIsWhole
  <2> QED BY <2>1, <2>3, <2>4
<1> QED BY <1>3, <1>4

\* Nothing is queued at first.
LEMMA InitQueue == ASSUME Bounds, Init PROVE Queue!Init
<1>1. Inv /\ Queued = 0 /\ stored = {} /\ outbox = {} /\ saved.ack = 0
  BY InitInv, FS_EmptySet DEF Init, Queued
<1>2. EventsQueued = [n \in 1 .. 0 |-> Key(outbox, n)]
  BY <1>1, QueuedOf
<1>3. EventsHeld = [n \in 1 .. 0 |-> Key(outbox, n)]
  BY <1>1, HeldOf DEF EventsHeld
<1> QED BY <1>1, <1>2, <1>3 DEF Queue!Init

\* A new row is one more event.
LEMMA CreateQueues ==
    ASSUME Bounds, Inv, Inv', Enqueue, ~\E r \in outbox : r.key = Head(todo)
    PROVE  Queue!Queue
<1> DEFINE new == [seq |-> Queued + 1, key |-> Head(todo)]
<1>1. Queued \in Nat /\ mem.next = Queued + 1
  BY NextIsAfterRows DEF Inv, MemoryIsTrue, Enqueue
<1>2. outbox' = outbox \cup {new} /\ UNCHANGED <<stored, saved>> /\ todo # <<>>
  BY <1>1 DEF Enqueue
<1>3. Head(todo) \in Keys
  BY <1>2, TodoStep DEF Inv, Typed
<1>4. new.seq = Queued + 1 /\ new.key = Head(todo)
  OBVIOUS
<1> HIDE DEF new
<1>5. Queued' = Queued + 1
  <2>1. new \notin outbox
    BY <1>1, <1>4 DEF Inv, QueueIsWhole, Seqs
  <2> QED BY <1>2, <2>1, FS_AddElement DEF Inv, QueueIsWhole, Queued
<1>6. Key(outbox', Queued + 1) = Head(todo)
  <2>1. new \in outbox' /\ \A s, t \in outbox' : s.seq = t.seq => s = t
    BY <1>2 DEF Inv, QueueIsWhole
  <2> QED BY <1>4, <2>1, KeyOfRow
<1>7. ASSUME NEW n \in 1 .. Queued PROVE Key(outbox', n) = Key(outbox, n)
  <2>1. PICK r \in outbox : r.seq = n
    BY DEF Inv, QueueIsWhole, Seqs
  <2>2. Key(outbox, r.seq) = r.key
    BY KeyOfRow DEF Inv, QueueIsWhole
  <2>3. r \in outbox' /\ \A s, t \in outbox' : s.seq = t.seq => s = t
    BY <1>2 DEF Inv, QueueIsWhole
  <2>4. Key(outbox', r.seq) = r.key
    BY <2>3, KeyOfRow
  <2> QED BY <2>1, <2>2, <2>4
<1>8. EventsQueued = [n \in 1 .. Queued |-> Key(outbox, n)] /\ \A n \in 1 .. Queued : Key(outbox, n) \in Keys
  BY QueuedOf
<1>9. EventsQueued' = [n \in 1 .. Queued + 1 |-> Key(outbox', n)]
  BY <1>5 DEF EventsQueued, Queued
<1>10. EventsQueued' = Append(EventsQueued, Head(todo))
  BY <1>1, <1>3, <1>6, <1>7, <1>8, <1>9
<1>11. EventsHeld' = EventsHeld /\ saved'.ack = saved.ack
  BY <1>2 DEF EventsHeld
<1> QED BY <1>3, <1>10, <1>11 DEF Queue!Queue

\* The service extends what it holds.
LEMMA ExchangeStores ==
    ASSUME Bounds, Inv, Inv', NEW q \in requests, NEW n \in q.from .. q.from + MaxBatch, Exchange(q, n)
    PROVE  [Queue!Next]_Pairs
<1>1. PICK h \in 0 .. Queued, k \in 0 .. Queued :
         h <= k /\ stored = {r \in outbox : r.seq <= h} /\ stored' = {r \in outbox : r.seq <= k}
  BY ExchangeKeeps
<1>2. UNCHANGED <<outbox, saved>> /\ Queued' = Queued /\ Queued \in Nat
  BY NextIsAfterRows DEF Exchange, Queued, Inv
<1>3. EventsQueued = [i \in 1 .. Queued |-> Key(outbox, i)]
  BY QueuedOf
<1>4. EventsHeld = [i \in 1 .. h |-> Key(outbox, i)]
  BY <1>1, HeldOf DEF EventsHeld
<1>5. EventsHeld' = [i \in 1 .. k |-> Key(outbox, i)]
  BY <1>1, HeldOf DEF EventsHeld
<1>6. EventsQueued' = EventsQueued /\ saved'.ack = saved.ack
  BY <1>2 DEF EventsQueued
<1>7. Queue!IsPrefixOf(EventsHeld', EventsQueued)
  BY <1>1, <1>2, <1>3, <1>5 DEF Queue!IsPrefixOf
<1>8. Queue!IsPrefixOf(EventsHeld, EventsHeld')
  BY <1>1, <1>2, <1>4, <1>5 DEF Queue!IsPrefixOf
<1> QED BY <1>6, <1>7, <1>8 DEF Queue!Next, Queue!Store, Pairs

\* The client considers delivered what the service holds.
LEMMA AcknowledgeConfirms ==
    ASSUME Bounds, Inv, Inv', Acknowledge
    PROVE  [Queue!Next]_Pairs
<1>1. UNCHANGED <<outbox, stored>> /\ saved'.ack \in Nat /\ saved.ack <= saved'.ack /\ saved.ack \in Nat
  BY AcknowledgeKeeps DEF Acknowledge, Inv, Typed
<1>2. EventsQueued' = EventsQueued /\ EventsHeld' = EventsHeld /\ Queued' = Queued /\ Queued \in Nat
  BY <1>1, NextIsAfterRows DEF EventsQueued, EventsHeld, Queued, Inv
<1>3. PICK h \in 0 .. Queued : stored = {r \in outbox : r.seq <= h} /\ saved'.ack <= h
  <2>1. PICK h \in 0 .. Queued' : HeldUpTo(h)'
    BY DEF Inv, ServiceHoldsPrefix
  <2> QED BY <1>1, <1>2, <2>1 DEF HeldUpTo
<1>4. Len(EventsHeld) = h
  <2>1. EventsHeld = [i \in 1 .. h |-> Key(outbox, i)]
    BY <1>3, HeldOf DEF EventsHeld
  <2> QED BY <1>2, <2>1
<1> QED BY <1>1, <1>2, <1>3, <1>4 DEF Queue!Next, Queue!Confirm, Pairs

\* Every other step leaves the queue alone.
LEMMA OthersLeaveQueue ==
    ASSUME UNCHANGED <<outbox, stored>>, saved'.ack = saved.ack
    PROVE  UNCHANGED Pairs
  BY DEF Pairs, EventsQueued, EventsHeld

\* Creating a row sends, storing rows takes them over, recording an
\* acknowledgement confirms: each is a step of the queue or none.
LEMMA StepImplements == ASSUME Bounds, Inv, Inv', [Next]_vars PROVE [Queue!Next]_Pairs
<1>1. CASE Enqueue /\ \E r \in outbox : r.key = Head(todo)
  BY <1>1, OthersLeaveQueue DEF Enqueue
<1>2. CASE Enqueue /\ ~\E r \in outbox : r.key = Head(todo)
  BY <1>2, CreateQueues DEF Queue!Next
<1>3. ASSUME NEW q \in requests, NEW n \in q.from .. q.from + MaxBatch, Exchange(q, n) PROVE [Queue!Next]_Pairs
  BY <1>3, ExchangeStores
<1>4. CASE Acknowledge
  BY <1>4, AcknowledgeConfirms
<1>5. CASE Commands
  <2>1. UNCHANGED <<outbox, stored>> /\ saved'.ack = saved.ack
    BY <1>5 DEF Commands, ProjectConnect, ProjectDisconnect, ProjectSync, Start
  <2> QED BY <2>1, OthersLeaveQueue
<1>6. CASE SaveNext
  <2>1. saved \in [next : Nat, ack : Nat]
    BY DEF Inv, Typed
  <2>2. UNCHANGED <<outbox, stored>> /\ saved'.ack = saved.ack
    BY <1>6, <2>1 DEF SaveNext
  <2> QED BY <2>2, OthersLeaveQueue
<1>7. CASE Enqueued \/ Archive \/ PublishConnection \/ Send \/ TakeReply \/ Receive \/ RecordCursor
  BY <1>7, OthersLeaveQueue DEF Enqueued, Archive, PublishConnection, Send, TakeReply, Receive, RecordCursor
<1>8. CASE ExchangeFails \/ Crash \/ TaskChanges \/ PublishEnvelope \/ UNCHANGED vars
  BY <1>8, OthersLeaveQueue DEF ExchangeFails, Crash, TaskChanges, PublishEnvelope, vars
<1> QED BY <1>1, <1>2, <1>3, <1>4, <1>5, <1>6, <1>7, <1>8 DEF Next, Client

\* The synchronisation implements the queue it promises.
THEOREM ExchangeImplementsQueue ==
    ASSUME Bounds
    PROVE  Spec => ImplementsDurableQueue
<1>1. Init => Inv /\ Queue!Init
  BY InitInv, InitQueue
<1>2. Inv /\ [Next]_vars => Inv'
  BY Inductive
<1>3. Inv /\ Inv' /\ [Next]_vars => [Queue!Next]_Pairs
  BY StepImplements
<1> QED BY <1>1, <1>2, <1>3, PTL DEF Spec, ImplementsDurableQueue, Queue!Spec, Pairs

-----------------------------------------------------------------------------
(* The inbox.                                                              *)

\* What state.json can hold.
States == [streams : [Signers -> I!Streams], known : SUBSET Signers, untrusted : SUBSET Signers,
           ids : SUBSET I!Ids, keys : SUBSET I!Keys, cursor : Nat]

InboxTyped ==
    /\ files \subseteq Envelopes /\ index \subseteq Envelopes /\ answered \subseteq Envelopes
    /\ disk \in States /\ trusted \in (SUBSET Signers) \cup {None}
    /\ pending \in Envelopes \cup {None} /\ writing \in {None, pending} /\ fallback \in Nat
    /\ trusted # None => copy = disk /\ files \subseteq index
    /\ trusted = None => index = {} /\ pending = None
    /\ pending # None => pending \in index

\* A sequence that a stream has counted, or will once the gap before it closes.
Has(stream, n) == n <= stream.last \/ n \in stream.accepted

\* What a stream has counted came in an envelope.
NothingInvented(st) == \A s \in Signers : \A n \in Nat \ {0} : Has(st.streams[s], n) =>
    \E e \in Envelopes : e.signer = s /\ e.seq = n /\ e.id \in st.ids

\* A state that counts the envelopes es besides those of another state.
Extends(new, st, es) ==
    /\ new \in States /\ new.known = st.known \cup {e.signer : e \in es}
    /\ new.ids = st.ids \cup {e.id : e \in es} /\ new.keys = st.keys \cup {e.key : e \in es}
    /\ \A s \in Signers : \A n \in Nat \ {0} :
          Has(new.streams[s], n) <=> Has(st.streams[s], n) \/ \E e \in es : e.signer = s /\ e.seq = n

\* An envelope that a state remembers.
Durable(st, e) == Has(st.streams[e.signer], e.seq) /\ e.id \in st.ids /\ e.key \in st.keys /\ e.signer \in st.known

\* What the process compares with is durable, except for one pending save; and
\* what is durable can be compared with or is reserved.
IndexIsDurable == \A e \in index : e = pending \/ Durable(disk, e)

NothingForgotten == trusted # None =>
    /\ \A i \in disk.ids : i \in reserved.ids \/ \E e \in index : e.id = i
    /\ \A k \in disk.keys : k \in reserved.keys \/ \E e \in index : e.key = k

\* No two envelopes with one identity are known, whether they were answered, are
\* being compared with or only lie in the directory.
IdentitiesAreUnique == \A e, f \in answered \cup index \cup files : I!Same(e, f) => e = f

\* What was answered is remembered.
AnsweredStays == \A e \in answered : Durable(disk, e)

\* A signer that was barred is quarantined.
BarredAreUntrusted == /\ barred \subseteq disk.untrusted
                      /\ writing # None => writing.signer \notin disk.untrusted

InboxInv == /\ InboxTyped /\ NothingInvented(disk) /\ IndexIsDurable /\ NothingForgotten
            /\ IdentitiesAreUnique /\ AnsweredStays /\ BarredAreUntrusted

\* A finite set of naturals has a greatest element: a smallest one without
\* would be left without when it loses an element.
LEMMA Greatest ==
    ASSUME NEW S \in SUBSET Nat, IsFiniteSet(S), S # {}
    PROVE  \E x \in S : \A y \in S : y <= x
<1> DEFINE Unbounded(T) == T # {} /\ \A x \in T : \E y \in T : ~(y <= x)
           Sizes == {n \in Nat : \E T \in SUBSET Nat : IsFiniteSet(T) /\ Cardinality(T) = n /\ Unbounded(T)}
<1>1. ASSUME Sizes # {} PROVE FALSE
  <2>1. PICK n \in Sizes : \A m \in Sizes : n <= m
    <3>1. Sizes \in SUBSET Nat
      OBVIOUS
    <3> HIDE DEF Sizes
    <3> QED BY <1>1, <3>1, Least
  <2>2. PICK T \in SUBSET Nat : IsFiniteSet(T) /\ Cardinality(T) = n /\ Unbounded(T)
    BY <2>1
  <2>3. PICK a \in T : TRUE
    BY <2>2
  <2> DEFINE R == T \ {a}
  <2>4. IsFiniteSet(R) /\ Cardinality(R) = n - 1 /\ n \in Nat
    BY <2>1, <2>2, <2>3, FS_RemoveElement
  <2>5. Unbounded(R)
    <3>1. PICK b \in T : ~(b <= a)
      BY <2>2
    <3>2. R # {}
      BY <3>1
    <3>3. ASSUME NEW x \in R PROVE \E y \in R : ~(y <= x)
      <4>1. PICK y \in T : ~(y <= x)
        BY <2>2
      <4>2. CASE y # a
        BY <4>1, <4>2
      <4>3. CASE y = a
        BY <3>1, <4>1, <4>3
      <4> QED BY <4>2, <4>3
    <3> QED BY <3>2, <3>3
  <2>6. n - 1 \in Sizes
    <3>1. n - 1 \in Nat
      BY <2>4, FS_CardinalityType
    <3> HIDE DEF Unbounded
    <3> QED BY <2>4, <2>5, <3>1
  <2> HIDE DEF Sizes
  <2> QED BY <2>1, <2>4, <2>6
<1>2. ASSUME Unbounded(S) PROVE FALSE
  <2>1. Cardinality(S) \in Nat
    BY FS_CardinalityType
  <2> HIDE DEF Unbounded
  <2> QED BY <1>1, <1>2, <2>1
<1> QED BY <1>2

LEMMA MaxOf ==
    ASSUME NEW S \in SUBSET Nat, IsFiniteSet(S), S # {}
    PROVE  Max(S) \in S /\ \A y \in S : y <= Max(S)
<1>1. PICK x \in S : \A y \in S : x >= y
  BY Greatest
<1> QED BY <1>1 DEF Max

\* The image of a finite set is finite.
LEMMA ImageIsFinite ==
    ASSUME NEW S, IsFiniteSet(S), NEW f, DOMAIN f = S
    PROVE  IsFiniteSet({f[x] : x \in S})
<1> DEFINE T == {f[x] : x \in S}
           g == [x \in S |-> f[x]]
<1>1. g \in Surjection(S, T)
  BY DEF Surjection
<1> QED BY <1>1, FS_Surjection
-----------------------------------------------------------------------------
(* The streams.                                                            *)

\* Finitely many envelopes have finitely many sequences.
LEMMA FinitelyMany == ASSUME I!Bounds PROVE IsFiniteSet(Envelopes) /\ IsFiniteSet(Signers)
  BY DEF I!Bounds, I!IsFiniteSet, IsFiniteSet

LEMMA SeqsAreFinite == ASSUME I!Bounds PROVE IsFiniteSet(I!Seqs) /\ I!Seqs \in SUBSET (Nat \ {0})
<1> DEFINE f == [e \in Envelopes |-> e.seq]
<1>1. IsFiniteSet({f[e] : e \in Envelopes})
  BY ImageIsFinite, FinitelyMany
<1>2. I!Seqs = {f[e] : e \in Envelopes}
  BY DEF I!Seqs
<1> QED BY <1>1, <1>2 DEF I!Bounds, I!Seqs

\* Advancing over the sequences without a gap changes how a stream counts, not
\* what it has.
LEMMA AdvancedOf ==
    ASSUME I!Bounds, NEW s \in I!Streams
    PROVE  I!Advanced(s) \in I!Streams /\ \A n \in Nat \ {0} : Has(I!Advanced(s), n) <=> Has(s, n)
<1> DEFINE S == {n \in {s.last} \cup s.accepted : \A i \in s.last + 1 .. n : i \in s.accepted}
           m == Max(S)
<1>1. s.last \in Nat /\ s.last \in {0} \cup I!Seqs /\ s.accepted \in SUBSET Nat /\ s.accepted \subseteq I!Seqs
  BY SeqsAreFinite DEF I!Streams
<1>2. S \in SUBSET Nat /\ s.last \in S
  BY <1>1
<1>3. IsFiniteSet(S)
  <2>1. S \subseteq I!Seqs \cup {s.last}
    BY <1>1
  <2>2. IsFiniteSet(I!Seqs \cup {s.last})
    BY SeqsAreFinite, FS_AddElement
  <2> QED BY <2>1, <2>2, FS_Subset
<1>4. m \in S /\ \A y \in S : y <= m
  <2> HIDE DEF S
  <2> QED BY <1>2, <1>3, MaxOf
<1>5. m \in Nat /\ m \in {0} \cup I!Seqs /\ s.last <= m /\ \A i \in s.last + 1 .. m : i \in s.accepted
  BY <1>1, <1>2, <1>4
<1>6. I!Advanced(s) = [last |-> m, accepted |-> {n \in s.accepted : n > m}]
  BY DEF I!Advanced, I!Max, Max
<1> HIDE DEF m, S
<1>7. I!Advanced(s) \in I!Streams /\ I!Advanced(s).last = m /\ I!Advanced(s).accepted = {n \in s.accepted : n > m}
  BY <1>1, <1>5, <1>6 DEF I!Streams
<1>8. ASSUME NEW n \in Nat \ {0} PROVE Has(I!Advanced(s), n) <=> Has(s, n)
  <2>1. CASE n <= s.last
    BY <1>1, <1>5, <1>7, <2>1 DEF Has
  <2>2. CASE n > s.last /\ n <= m
    BY <1>1, <1>5, <1>7, <2>2 DEF Has
  <2>3. CASE n > m
    BY <1>1, <1>5, <1>7, <2>3 DEF Has
  <2> QED BY <1>1, <1>5, <2>1, <2>2, <2>3
<1> QED BY <1>7, <1>8

\* Reserving an envelope adds its identities and nothing else.
LEMMA AppliedOf ==
    ASSUME I!Bounds, NEW st \in States, NEW e \in Envelopes, fallback \in Nat
    PROVE  Extends(I!applyInbound(st, e), st, {e}) /\ I!applyInbound(st, e).untrusted = st.untrusted
<1> DEFINE b == e.signer
           s0 == st.streams[b]
           s1 == [s0 EXCEPT !.accepted = @ \cup {e.seq}]
           s2 == I!Advanced(s1)
           c == IF fallback > 0 THEN s2.last ELSE Max({st.cursor, s2.last})
           new == [st EXCEPT !.streams[b] = s2, !.known = @ \cup {b}, !.ids = @ \cup {e.id}, !.keys = @ \cup {e.key},
                             !.cursor = c]
<1>1. b \in Signers /\ e.seq \in I!Seqs /\ e.id \in I!Ids /\ e.key \in I!Keys /\ e.seq \in Nat \ {0}
  BY DEF I!Bounds, I!Seqs, I!Ids, I!Keys
<1>2. s0 \in I!Streams
  BY <1>1 DEF States
<1>3. s1 \in I!Streams /\ s1.last = s0.last /\ s1.accepted = s0.accepted \cup {e.seq}
  BY <1>1, <1>2 DEF I!Streams
<1>4. s2 \in I!Streams /\ \A n \in Nat \ {0} : Has(s2, n) <=> Has(s0, n) \/ n = e.seq
  <2> HIDE DEF s0, s1
  <2>1. s2 \in I!Streams /\ \A n \in Nat \ {0} : Has(s2, n) <=> Has(s1, n)
    BY <1>3, AdvancedOf
  <2> QED BY <1>3, <2>1 DEF Has
<1>5. I!applyInbound(st, e) = new
  BY DEF I!applyInbound, I!Max, Max
<1>6. c \in Nat
  <2>1. s2.last \in Nat
    BY <1>4, SeqsAreFinite DEF I!Streams
  <2>2. st.cursor \in Nat
    BY DEF States
  <2> HIDE DEF s2
  <2> QED BY <2>1, <2>2, MaxOfTwo
<1> HIDE DEF s0, s1, s2, c
<1>7. new.streams = [st.streams EXCEPT ![b] = s2] /\ new.known = st.known \cup {b} /\ new.ids = st.ids \cup {e.id}
  BY DEF States
<1>8. new.keys = st.keys \cup {e.key} /\ new.untrusted = st.untrusted /\ new.cursor = c
  BY DEF States
<1> HIDE DEF new
<1>10. new.streams \in [Signers -> I!Streams] /\ \A s \in Signers : new.streams[s] = IF s = b THEN s2 ELSE st.streams[s]
  BY <1>1, <1>4, <1>7 DEF States
<1>11. new \in States
  <2> DEFINE streams == [st.streams EXCEPT ![b] = s2]
             known   == st.known \cup {b}
             ids     == st.ids \cup {e.id}
             keys    == st.keys \cup {e.key}
  <2>1. streams \in [Signers -> I!Streams] /\ known \in SUBSET Signers /\ ids \in SUBSET I!Ids /\ keys \in SUBSET I!Keys
    BY <1>1, <1>4 DEF States
  <2>2. new = [st EXCEPT !.streams = streams, !.known = known, !.ids = ids, !.keys = keys, !.cursor = c]
    BY DEF new
  <2> HIDE DEF streams, known, ids, keys
  <2> QED BY <1>6, <2>1, <2>2 DEF States
<1>12. \A s \in Signers : \A n \in Nat \ {0} : Has(new.streams[s], n) <=> Has(st.streams[s], n) \/ (s = b /\ n = e.seq)
  BY <1>4, <1>10 DEF s0
<1> QED BY <1>5, <1>7, <1>8, <1>11, <1>12 DEF Extends, b

\* Opening adds what the directory holds.
LEMMA RebuiltOf ==
    ASSUME I!Bounds, NEW st \in States, NEW trust \in SUBSET Signers, files \subseteq Envelopes
    PROVE  Extends(I!Rebuilt(st, trust), st, files) /\ I!Rebuilt(st, trust).untrusted = I!Latched(st, trust)
<1> DEFINE rows(s)   == {e.seq : e \in {f \in files : f.signer = s}}
           merged(s) == [st.streams[s] EXCEPT !.accepted = @ \cup {n \in rows(s) : n > st.streams[s].last}]
           streams   == [s \in Signers |-> IF s \in I!Latched(st, trust) THEN merged(s) ELSE I!Advanced(merged(s))]
           known     == st.known \cup {e.signer : e \in files}
           ids       == st.ids \cup {e.id : e \in files}
           keys      == st.keys \cup {e.key : e \in files}
           lasts     == {0} \cup {streams[s].last : s \in known \ I!Latched(st, trust)}
           reached   == IF known # {} THEN Max(lasts) ELSE st.cursor
<1>1. I!Rebuilt(st, trust) = [streams |-> streams, known |-> known, untrusted |-> I!Latched(st, trust),
                            ids |-> ids, keys |-> keys, cursor |-> reached]
  BY DEF I!Rebuilt, I!Max, Max
<1>2. known \in SUBSET Signers /\ I!Latched(st, trust) \in SUBSET Signers /\ ids \in SUBSET I!Ids /\ keys \in SUBSET I!Keys
  BY DEF States, I!Bounds, I!Latched, I!Ids, I!Keys
<1>3. ASSUME NEW s \in Signers
      PROVE  /\ merged(s) \in I!Streams
             /\ \A n \in Nat \ {0} : Has(merged(s), n) <=> Has(st.streams[s], n) \/ \E e \in files : e.signer = s /\ e.seq = n
  <2>1. st.streams[s] \in I!Streams /\ rows(s) \subseteq I!Seqs
    BY DEF States, I!Seqs
  <2>2. \A n : n \in rows(s) <=> \E e \in files : e.signer = s /\ e.seq = n
    OBVIOUS
  <2>3. I!Seqs \subseteq Nat /\ st.streams[s].last \in Nat
    BY <2>1, SeqsAreFinite DEF I!Streams
  <2> HIDE DEF rows
  <2>4. /\ merged(s) \in I!Streams /\ merged(s).last = st.streams[s].last
        /\ merged(s).accepted = st.streams[s].accepted \cup {n \in rows(s) : n > st.streams[s].last}
    BY <2>1 DEF I!Streams
  <2> HIDE DEF merged
  <2> QED BY <2>2, <2>3, <2>4 DEF Has
<1> HIDE DEF merged, rows
<1>4. ASSUME NEW s \in Signers
      PROVE  /\ streams[s] \in I!Streams
             /\ \A n \in Nat \ {0} : Has(streams[s], n) <=> Has(merged(s), n)
  <2>1. streams[s] = IF s \in I!Latched(st, trust) THEN merged(s) ELSE I!Advanced(merged(s))
    OBVIOUS
  <2> HIDE DEF streams
  <2> QED BY <1>3, <2>1, AdvancedOf
<1>5. streams \in [Signers -> I!Streams]
  BY <1>4
<1>6. reached \in Nat
  <2> DEFINE B == known \ I!Latched(st, trust)
             g == [s \in B |-> streams[s].last]
  <2> HIDE DEF streams, known
  <2>1. B \subseteq Signers /\ IsFiniteSet(B)
    BY <1>2, FS_Subset, FinitelyMany DEF I!Bounds
  <2>2. IsFiniteSet({g[s] : s \in B})
    BY <2>1, ImageIsFinite
  <2>3. lasts = {g[s] : s \in B} \cup {0}
    OBVIOUS
  <2>4. IsFiniteSet(lasts)
    BY <2>2, <2>3, FS_AddElement
  <2>5. lasts \in SUBSET Nat
    <3>1. \A s \in Signers : streams[s].last \in Nat
      BY <1>5, SeqsAreFinite DEF I!Streams
    <3> QED BY <2>1, <3>1
  <2>6. lasts # {}
    OBVIOUS
  <2> HIDE DEF lasts
  <2>7. Max(lasts) \in Nat
    BY <2>4, <2>5, <2>6, MaxOf
  <2> QED BY <2>7 DEF States
<1> HIDE DEF streams, known, ids, keys, reached
<1>7. I!Rebuilt(st, trust) \in States
  BY <1>1, <1>2, <1>5, <1>6 DEF States
<1>8. ASSUME NEW s \in Signers, NEW n \in Nat \ {0}
      PROVE  Has(streams[s], n) <=> Has(st.streams[s], n) \/ \E e \in files : e.signer = s /\ e.seq = n
  BY <1>3, <1>4
<1> QED BY <1>1, <1>7, <1>8 DEF Extends, known, ids, keys

\* What was counted stays counted, and what is added is durable.
LEMMA ExtendsKeeps ==
    ASSUME I!Bounds, NEW new, NEW st, NEW es \in SUBSET Envelopes, Extends(new, st, es)
    PROVE  /\ \A e \in Envelopes : Durable(st, e) \/ e \in es => Durable(new, e)
           /\ NothingInvented(st) => NothingInvented(new)
<1>1. \A e \in Envelopes : e.signer \in Signers /\ e.seq \in Nat \ {0}
  BY DEF I!Bounds
<1>2. ASSUME NEW e \in Envelopes, Durable(st, e) \/ e \in es PROVE Durable(new, e)
  BY <1>1, <1>2 DEF Extends, Durable
<1>3. ASSUME NothingInvented(st) PROVE NothingInvented(new)
  BY <1>3 DEF Extends, NothingInvented
<1> QED BY <1>2, <1>3

\* The pending save, committed.
Uncommitted == IF pending = None THEN {} ELSE {pending}

\* Applying what is pending counts it and nothing else.
LEMMA CommitExtends ==
    ASSUME I!Bounds, InboxInv, trusted # None
    PROVE  /\ Extends(I!Applied, disk, Uncommitted) /\ I!Applied.untrusted = disk.untrusted
           /\ Uncommitted \subseteq index /\ Uncommitted \in SUBSET Envelopes
<1>1. copy = disk /\ disk \in States /\ fallback \in Nat /\ Uncommitted \subseteq index /\ index \subseteq Envelopes
  BY DEF InboxInv, InboxTyped, Uncommitted
<1>2. CASE pending = None
  <2>1. I!Applied = disk /\ Uncommitted = {}
    BY <1>1, <1>2 DEF I!Applied, Uncommitted
  <2> QED BY <1>1, <2>1 DEF Extends
<1>3. CASE pending # None
  <2>1. pending \in Envelopes /\ I!Applied = I!applyInbound(disk, pending) /\ Uncommitted = {pending}
    BY <1>1, <1>3 DEF I!Applied, Uncommitted, InboxInv, InboxTyped
  <2> QED BY <1>1, <2>1, AppliedOf
<1> QED BY <1>2, <1>3

-----------------------------------------------------------------------------
LEMMA InboxInit == ASSUME I!Bounds, I!Init PROVE InboxInv
<1>1. PICK c \in Cursors : disk = [streams |-> [s \in Signers |-> [last |-> 0, accepted |-> {}]],
                                   known |-> {}, untrusted |-> {}, ids |-> {}, keys |-> {}, cursor |-> c]
  BY DEF I!Init
<1>2. disk \in States
  <2>1. c \in Nat /\ [last |-> 0, accepted |-> {}] \in I!Streams
    BY DEF I!Bounds, I!Streams
  <2> QED BY <1>1, <2>1 DEF States
<1>3. InboxTyped
  <2>1. /\ files = {} /\ trusted = None /\ index = {} /\ pending = None /\ fallback = 0 /\ writing = None /\ answered = {}
    BY DEF I!Init
  <2> QED BY <1>2, <2>1 DEF InboxTyped
<1>4. NothingInvented(disk)
  BY <1>1 DEF NothingInvented, Has
<1>5. IndexIsDurable /\ NothingForgotten /\ IdentitiesAreUnique /\ AnsweredStays /\ BarredAreUntrusted
  BY <1>1 DEF I!Init, IndexIsDurable, NothingForgotten, IdentitiesAreUnique, AnsweredStays, BarredAreUntrusted
<1> QED BY <1>3, <1>4, <1>5 DEF InboxInv

\* A client that opens rebuilds its streams from what lies in the directory.
LEMMA OpenKeeps == ASSUME I!Bounds, InboxInv, NEW trust \in SUBSET Signers, I!Open(trust) PROVE InboxInv'
<1>1. /\ trusted = None /\ trusted' = trust /\ copy' = I!Rebuilt(disk, trust) /\ disk' = copy' /\ index' = files
      /\ barred' = barred \cup ({e.signer : e \in answered} \ trust)
      /\ reserved' = [ids |-> disk.ids \ {e.id : e \in files}, keys |-> disk.keys \ {e.key : e \in files}]
      /\ fallback' = (IF copy'.known = {} THEN copy'.cursor ELSE 0) /\ UNCHANGED <<files, pending, writing, answered>>
  BY DEF I!Open
<1>2. /\ disk \in States /\ files \subseteq Envelopes /\ answered \subseteq Envelopes /\ index = {} /\ pending = None
      /\ writing = None
  BY <1>1 DEF InboxInv, InboxTyped
<1>3. Extends(disk', disk, files) /\ disk'.untrusted = I!Latched(disk, trust)
  BY <1>1, <1>2, RebuiltOf
<1>4. /\ \A e \in Envelopes : Durable(disk, e) \/ e \in files => Durable(disk', e)
      /\ NothingInvented(disk')
  BY <1>2, <1>3, ExtendsKeeps DEF InboxInv
<1>5. InboxTyped'
  <2>1. disk' \in States /\ fallback' \in Nat /\ None # trust
    BY <1>1, <1>3 DEF Extends, States, I!Bounds
  <2> QED BY <1>1, <1>2, <2>1 DEF InboxTyped
<1>6. NothingInvented(disk)' /\ IndexIsDurable' /\ AnsweredStays'
  BY <1>1, <1>2, <1>4 DEF InboxInv, IndexIsDurable, AnsweredStays, NothingInvented, Durable, Has
<1>7. NothingForgotten'
  BY <1>1, <1>3 DEF NothingForgotten, Extends
<1>8. IdentitiesAreUnique'
  BY <1>1 DEF InboxInv, IdentitiesAreUnique, I!Same
<1>9. BarredAreUntrusted'
  BY <1>1, <1>2, <1>3 DEF InboxInv, BarredAreUntrusted, I!Latched, AnsweredStays, Durable
<1> QED BY <1>5, <1>6, <1>7, <1>8, <1>9 DEF InboxInv

\* What is in the index is durable or about to be committed.
LEMMA IndexIsCommitted ==
    ASSUME I!Bounds, InboxInv PROVE \A f \in index : f \in Envelopes /\ (Durable(disk, f) \/ f \in Uncommitted)
<1> SUFFICES ASSUME NEW f \in index PROVE f \in Envelopes /\ (Durable(disk, f) \/ f \in Uncommitted)
  OBVIOUS
<1>1. f \in Envelopes /\ f # None
  BY DEF InboxInv, InboxTyped, I!Bounds
<1>2. Durable(disk, f) \/ f = pending
  BY DEF InboxInv, IndexIsDurable
<1> QED BY <1>1, <1>2 DEF Uncommitted

\* A duplicate is one of the envelopes the client compares with.
LEMMA DuplicateKeeps == ASSUME I!Bounds, InboxInv, NEW e \in Envelopes, I!Duplicate(e) PROVE InboxInv'
<1>1. /\ trusted # None /\ writing = None /\ e \in index /\ e.signer \notin disk.untrusted
      /\ copy' = I!Applied /\ pending' = None /\ answered' = answered \cup {e}
      /\ UNCHANGED <<files, trusted, index, reserved, writing, barred>>
  BY DEF I!Duplicate, I!Running, I!IsDuplicate, I!Authentic, InboxInv, InboxTyped
<1>2. /\ Extends(I!Applied, disk, Uncommitted) /\ I!Applied.untrusted = disk.untrusted
      /\ Uncommitted \subseteq index /\ Uncommitted \in SUBSET Envelopes
  BY <1>1, CommitExtends
<1>3. disk' = I!Applied /\ fallback' \in Nat
  BY <1>1 DEF I!Duplicate, I!Applied, InboxInv, InboxTyped
<1>4. /\ \A f \in Envelopes : Durable(disk, f) \/ f \in Uncommitted => Durable(disk', f)
      /\ NothingInvented(disk')
  BY <1>2, <1>3, ExtendsKeeps DEF InboxInv
<1>5. \A f \in index : Durable(disk', f)
  BY <1>4, IndexIsCommitted
<1>6. InboxTyped'
  BY <1>1, <1>2, <1>3 DEF InboxInv, InboxTyped, Extends
<1>7. NothingInvented(disk)' /\ IndexIsDurable' /\ AnsweredStays'
  BY <1>1, <1>4, <1>5 DEF InboxInv, InboxTyped, IndexIsDurable, AnsweredStays, NothingInvented, Durable, Has
<1>8. NothingForgotten'
  BY <1>1, <1>2, <1>3 DEF InboxInv, NothingForgotten, Extends
<1>9. IdentitiesAreUnique'
  BY <1>1 DEF InboxInv, IdentitiesAreUnique, I!Same
<1>10. BarredAreUntrusted'
  BY <1>1, <1>2, <1>3 DEF InboxInv, BarredAreUntrusted
<1> QED BY <1>6, <1>7, <1>8, <1>9, <1>10 DEF InboxInv

\* What comes with an identity that is durable is refused, and what comes with
\* one the client can compare with is the same envelope or refused.
LEMMA AdmissibleIsNew ==
    ASSUME I!Bounds, InboxInv, trusted # None, NEW e \in Envelopes, I!Admissible(e)
    PROVE  \A f \in answered \cup index \cup files : ~I!Same(e, f) /\ ~I!Same(f, e)
<1>1. copy = disk /\ files \subseteq index
  BY DEF InboxInv, InboxTyped
<1>2. ASSUME NEW f \in index PROVE ~I!Same(e, f)
  BY DEF I!Admissible, I!Known
<1>3. ASSUME NEW f \in answered PROVE ~I!Same(e, f)
  <2>1. Durable(disk, f)
    BY DEF InboxInv, AnsweredStays
  <2>2. e.id # f.id
    <3>1. f.id \in reserved.ids \/ \E g \in index : g.id = f.id
      BY <2>1 DEF InboxInv, NothingForgotten, Durable
    <3> QED BY <1>2, <3>1 DEF I!Admissible, I!Same
  <2>3. e.key # f.key
    <3>1. f.key \in reserved.keys \/ \E g \in index : g.key = f.key
      BY <2>1 DEF InboxInv, NothingForgotten, Durable
    <3> QED BY <1>2, <3>1 DEF I!Admissible, I!Same
  <2>4. <<e.signer, e.seq>> # <<f.signer, f.seq>>
    BY <1>1, <2>1 DEF I!Admissible, I!Reserves, Durable, Has
  <2> QED BY <2>2, <2>3, <2>4 DEF I!Same
<1>4. \A f : I!Same(f, e) => I!Same(e, f)
  BY DEF I!Same
<1> QED BY <1>1, <1>2, <1>3, <1>4

\* The file of a new envelope is written before it is counted.
LEMMA PersistKeeps == ASSUME I!Bounds, InboxInv, NEW e \in Envelopes, I!Persist(e) PROVE InboxInv'
<1>1. /\ trusted # None /\ writing = None /\ I!Admissible(e) /\ copy' = I!Applied /\ e.signer \notin disk.untrusted
      /\ files' = files \cup {e} /\ index' = index \cup {e} /\ pending' = e /\ writing' = e /\ e # None
      /\ UNCHANGED <<trusted, reserved, answered, barred>>
  BY DEF I!Persist, I!Running, I!Authentic, InboxInv, InboxTyped, I!Bounds
<1>2. /\ Extends(I!Applied, disk, Uncommitted) /\ I!Applied.untrusted = disk.untrusted
      /\ Uncommitted \subseteq index /\ Uncommitted \in SUBSET Envelopes
  BY <1>1, CommitExtends
<1>3. disk' = I!Applied /\ fallback' \in Nat
  BY <1>1 DEF I!Persist, I!Applied, InboxInv, InboxTyped
<1>4. /\ \A f \in Envelopes : Durable(disk, f) \/ f \in Uncommitted => Durable(disk', f)
      /\ NothingInvented(disk')
  BY <1>2, <1>3, ExtendsKeeps DEF InboxInv
<1>5. \A f \in index : Durable(disk', f)
  BY <1>4, IndexIsCommitted
<1>6. InboxTyped'
  BY <1>1, <1>2, <1>3 DEF InboxInv, InboxTyped, Extends
<1>7. NothingInvented(disk)' /\ IndexIsDurable' /\ AnsweredStays'
  BY <1>1, <1>4, <1>5 DEF InboxInv, InboxTyped, IndexIsDurable, AnsweredStays, NothingInvented, Durable, Has
<1>8. NothingForgotten'
  BY <1>1, <1>2, <1>3 DEF InboxInv, NothingForgotten, Extends
<1>9. IdentitiesAreUnique'
  <2>1. \A f \in answered \cup index \cup files : ~I!Same(e, f) /\ ~I!Same(f, e)
    BY <1>1, AdmissibleIsNew
  <2>2. \A f, g \in (answered \cup index \cup files) \cup {e} : I!Same(f, g) => f = g
    BY <2>1 DEF InboxInv, IdentitiesAreUnique
  <2>3. answered' \cup index' \cup files' = (answered \cup index \cup files) \cup {e}
    BY <1>1
  <2> QED BY <2>2, <2>3 DEF IdentitiesAreUnique, I!Same
<1>10. BarredAreUntrusted'
  BY <1>1, <1>2, <1>3 DEF InboxInv, BarredAreUntrusted
<1> QED BY <1>6, <1>7, <1>8, <1>9, <1>10 DEF InboxInv

LEMMA PersistFailsKeeps == ASSUME I!Bounds, InboxInv, NEW e \in Envelopes, I!PersistFails(e) PROVE InboxInv'
<1>1. /\ trusted # None /\ writing = None /\ copy' = I!Applied /\ disk' = I!Applied /\ pending' = None /\ fallback' = 0
      /\ UNCHANGED <<files, trusted, index, reserved, writing, answered, barred>>
  BY DEF I!PersistFails, I!Running
<1>2. /\ Extends(I!Applied, disk, Uncommitted) /\ I!Applied.untrusted = disk.untrusted
      /\ Uncommitted \subseteq index /\ Uncommitted \in SUBSET Envelopes
  BY <1>1, CommitExtends
<1>3. /\ \A f \in Envelopes : Durable(disk, f) \/ f \in Uncommitted => Durable(disk', f)
      /\ NothingInvented(disk')
  BY <1>1, <1>2, ExtendsKeeps DEF InboxInv
<1>4. InboxTyped'
  BY <1>1, <1>2 DEF InboxInv, InboxTyped, Extends
<1>5. NothingInvented(disk)' /\ IndexIsDurable' /\ AnsweredStays'
  BY <1>1, <1>3 DEF InboxInv, InboxTyped, IndexIsDurable, Uncommitted, AnsweredStays, NothingInvented,
                    Durable, Has
<1>6. NothingForgotten'
  BY <1>1, <1>2 DEF InboxInv, NothingForgotten, Extends
<1>7. IdentitiesAreUnique' /\ BarredAreUntrusted'
  BY <1>1, <1>2 DEF InboxInv, IdentitiesAreUnique, I!Same, BarredAreUntrusted
<1> QED BY <1>4, <1>5, <1>6, <1>7 DEF InboxInv

\* Only what is durable is answered.
LEMMA AcceptKeeps == ASSUME I!Bounds, InboxInv, I!Accept PROVE InboxInv'
<1>1. /\ writing # None /\ writing = pending /\ writing \in Envelopes /\ writing \in index /\ trusted # None /\ copy = disk
      /\ writing.signer \notin disk.untrusted
  BY DEF I!Accept, InboxInv, InboxTyped, BarredAreUntrusted
<1>2. /\ disk' = I!applyInbound(disk, writing) /\ copy' = disk' /\ pending' = None /\ fallback' = 0 /\ writing' = None
      /\ answered' = answered \cup {writing} /\ UNCHANGED <<files, trusted, index, reserved, barred>>
  BY <1>1 DEF I!Accept
<1>3. Extends(disk', disk, {writing}) /\ disk'.untrusted = disk.untrusted
  BY <1>1, <1>2, AppliedOf DEF InboxInv, InboxTyped
<1>4. /\ \A f \in Envelopes : Durable(disk, f) \/ f = writing => Durable(disk', f)
      /\ NothingInvented(disk')
  BY <1>1, <1>3, ExtendsKeeps DEF InboxInv
<1>5. InboxTyped'
  BY <1>1, <1>2, <1>3 DEF InboxInv, InboxTyped, Extends
<1>6. NothingInvented(disk)' /\ IndexIsDurable' /\ AnsweredStays'
  BY <1>1, <1>2, <1>4 DEF InboxInv, InboxTyped, IndexIsDurable, AnsweredStays, NothingInvented, Durable, Has
<1>7. NothingForgotten'
  BY <1>1, <1>2, <1>3 DEF InboxInv, NothingForgotten, Extends
<1>8. IdentitiesAreUnique' /\ BarredAreUntrusted'
  BY <1>1, <1>2, <1>3 DEF InboxInv, IdentitiesAreUnique, I!Same, BarredAreUntrusted
<1> QED BY <1>5, <1>6, <1>7, <1>8 DEF InboxInv

\* A failing save, the end of the process and retention take nothing that is durable.
LEMMA LossKeeps ==
    ASSUME I!Bounds, InboxInv, I!SaveFails \/ I!Exit \/ (\E e \in Envelopes : I!Expire(e)) \/ UNCHANGED I!vars
    PROVE  InboxInv'
<1>1. disk' = disk /\ UNCHANGED <<answered, barred>>
  BY DEF I!SaveFails, I!Exit, I!Expire, I!vars
<1>2. files' \subseteq files /\ index' \subseteq index
  BY DEF I!SaveFails, I!Exit, I!Expire, I!state, I!vars
<1>3. \/ /\ UNCHANGED <<trusted, copy, pending, fallback, index, reserved>> /\ writing' \in {None, writing}
      \/ trusted' = None /\ pending' = None /\ writing' = None /\ index' = {} /\ fallback' = 0
  BY DEF I!SaveFails, I!Exit, I!Expire, I!state, I!vars
<1>4. InboxTyped'
  BY <1>1, <1>2, <1>3 DEF InboxInv, InboxTyped
<1>5. NothingInvented(disk)' /\ AnsweredStays'
  BY <1>1 DEF InboxInv, AnsweredStays, NothingInvented, Durable, Has
<1>6. IndexIsDurable'
  BY <1>1, <1>3 DEF InboxInv, IndexIsDurable, Durable, Has
<1>7. NothingForgotten'
  BY <1>1, <1>3 DEF InboxInv, NothingForgotten
<1>8. IdentitiesAreUnique' /\ BarredAreUntrusted'
  BY <1>1, <1>2, <1>3 DEF InboxInv, IdentitiesAreUnique, I!Same, BarredAreUntrusted
<1> QED BY <1>4, <1>5, <1>6, <1>7, <1>8 DEF InboxInv

LEMMA InboxInductive == ASSUME I!Bounds, InboxInv, [I!Next]_(I!vars) PROVE InboxInv'
  BY OpenKeeps, DuplicateKeeps, PersistKeeps, PersistFailsKeeps, AcceptKeeps, LossKeeps DEF I!Next

\* Whatever arrives, in whatever order and however often, and whatever fails,
\* dies or is deleted: what was answered stays reserved on disk, no identity
\* is given to two envelopes, and no cursor passes a sequence that did not come.
THEOREM InboxIsSafe ==
    ASSUME I!Bounds
    PROVE  I!Spec => [](I!CursorWithoutGap /\ I!AnsweredIsDurable /\ I!OneEnvelopePerIdentity)
<1>1. ASSUME InboxInv PROVE I!CursorWithoutGap /\ I!AnsweredIsDurable /\ I!OneEnvelopePerIdentity
  <2>1. I!CursorWithoutGap
    BY <1>1 DEF InboxInv, NothingInvented, I!CursorWithoutGap, Has
  <2>2. I!AnsweredIsDurable
    BY <1>1 DEF InboxInv, AnsweredStays, I!AnsweredIsDurable, Durable, Has, I!Reserves
  <2>3. I!OneEnvelopePerIdentity
    BY <1>1 DEF InboxInv, IdentitiesAreUnique, I!OneEnvelopePerIdentity
  <2> QED BY <2>1, <2>2, <2>3
<1>2. I!Init => InboxInv
  BY InboxInit
<1>3. InboxInv /\ [I!Next]_(I!vars) => InboxInv'
  BY InboxInductive
<1> QED BY <1>1, <1>2, <1>3, PTL DEF I!Spec

\* What the run checks of both ends at once: no cursor passes what did not
\* arrive, neither RecordCursor's nor a stream's, and what Accept answered
\* survives every crash, one envelope per identity.
THEOREM ArrivalsAreKept ==
    ASSUME Bounds, I!Bounds
    PROVE  Spec /\ I!Spec => []InboxIsConsistent
<1>1. Spec => [](TypeOK /\ QueueStaysOpenable /\ AcknowledgedIsStored /\ NoTombstoneDropped /\ CursorBehindInbox)
  BY ExchangeIsSafe
<1>2. I!Spec => [](I!CursorWithoutGap /\ I!AnsweredIsDurable /\ I!OneEnvelopePerIdentity)
  BY InboxIsSafe
<1>3. CursorBehindInbox /\ I!CursorWithoutGap /\ I!AnsweredIsDurable /\ I!OneEnvelopePerIdentity => InboxIsConsistent
  BY DEF InboxIsConsistent
<1> QED BY <1>1, <1>2, <1>3, PTL

\* A signer that was barred brings in nothing more.
THEOREM QuarantineStays ==
    ASSUME I!Bounds
    PROVE  I!Spec => I!QuarantineIsFinal
<1> DEFINE A == \A e \in answered' \ answered : e.signer \notin barred
<1>1. ASSUME InboxInv, [I!Next]_(I!vars) PROVE A
  <2>1. CASE \E e \in Envelopes : I!Duplicate(e)
    BY <1>1, <2>1 DEF I!Duplicate, I!Authentic, I!Running, InboxInv, InboxTyped, BarredAreUntrusted
  <2>2. CASE I!Accept
    BY <1>1, <2>2 DEF I!Accept, InboxInv, BarredAreUntrusted
  <2>3. CASE UNCHANGED answered
    BY <2>3
  <2> QED BY <1>1, <2>1, <2>2, <2>3 DEF I!Next, I!Open, I!Persist, I!PersistFails, I!Expire, I!SaveFails,
                                        I!Exit, I!vars
<1>2. I!Init => InboxInv
  BY InboxInit
<1>3. InboxInv /\ [I!Next]_(I!vars) => InboxInv'
  BY InboxInductive
<1> HIDE DEF A
<1>4. InboxInv /\ [I!Next]_(I!vars) => [A]_(I!vars)
  BY <1>1
<1> QED BY <1>2, <1>3, <1>4, PTL DEF I!Spec, I!QuarantineIsFinal, A

-----------------------------------------------------------------------------
(* The bridge.                                                             *)

Payloads     == [repo : Repos, text : {"plain", "markup", "escaped"}]
DeliveryRows == [event : G!Events, payload : Payloads]
Assignments  == [project : Projects \cup {"none"}, checks : {"read", "write", "gone"}, removed : BOOLEAN]
Tenants      == [state : {"active", "suspended"}, repos : [Repos -> Assignments]]

\* What the bridge keeps, on disk and in memory.
BridgeTyped ==
    /\ deliveries \in [Deliveries -> DeliveryRows \cup {G!Nothing}]
    /\ DOMAIN proposals = Deliveries /\ DOMAIN checks = StatusKeys
    /\ \A k \in StatusKeys : checks[k] # G!Nothing => checks[k].repo \in Repos
    /\ config \in [Repos -> Projects \cup {"none"}]
    /\ tenant \in Tenants /\ (bindings # G!Nothing => bindings \in Tenants)
    /\ remote \in [state : {"active", "suspended"}, checks : [Repos -> {"read", "write", "gone"}]]

\* The binding in memory never assigns a repository otherwise than the
\* configuration the process was started with.
AssignedAsConfigured == \A r \in Repos : tenant.repos[r].project = config[r]

\* Ingest writes the row before the proposal.
RowPrecedes ==
    op.pc = "propose" =>
        /\ op.delivery \in Deliveries /\ deliveries[op.delivery] # G!Nothing
        /\ deliveries[op.delivery].event = op.event /\ deliveries[op.delivery].payload.repo = op.body.repo

\* What was posted is what the outbox holds.
PostedFromOutbox == \A x \in posted :
    /\ x.key \in StatusKeys /\ checks[x.key] # G!Nothing /\ checks[x.key] = x.status
    /\ x.configured = x.status.project

BridgeInv == BridgeTyped /\ AssignedAsConfigured /\ RowPrecedes /\ G!AnsweredIsProposed /\ PostedFromOutbox

\* A record with fields of its own is not the absent one.
LEMMA Present == /\ \A a, b : [event |-> a, payload |-> b] # G!Nothing
                 /\ \A a, b, c : [event |-> a, repo |-> b, project |-> c] # G!Nothing
                 /\ \A a, b, c : [project |-> a, repo |-> b, state |-> c] # G!Nothing
<1>1. DOMAIN G!Nothing = {"none"}
  BY DEF G!Nothing
<1>2. \A a, b : DOMAIN [event |-> a, payload |-> b] = {"event", "payload"}
  OBVIOUS
<1>3. \A a, b, c : DOMAIN [event |-> a, repo |-> b, project |-> c] = {"event", "repo", "project"}
  OBVIOUS
<1>4. \A a, b, c : DOMAIN [project |-> a, repo |-> b, state |-> c] = {"project", "repo", "state"}
  OBVIOUS
<1> QED BY <1>1, <1>2, <1>3, <1>4

\* Open assigns what is configured, whatever was saved.
LEMMA OpenAssigns ==
    ASSUME NEW c \in [Repos -> Projects \cup {"none"}], bindings # G!Nothing => bindings \in Tenants
    PROVE  \A s \in {bindings, G!Nothing} : G!Open(c, s) \in Tenants /\ \A r \in Repos : G!Open(c, s).repos[r].project = c[r]
<1>1. G!Local(c) \in Tenants /\ \A r \in Repos : G!Local(c).repos[r].project = c[r]
  BY DEF G!Local, Tenants, Assignments
<1>2. CASE bindings # G!Nothing
  <2>1. bindings.state \in {"active", "suspended"} /\ bindings.repos \in [Repos -> Assignments]
    BY <1>2 DEF Tenants
  <2>2. \A r \in Repos : /\ [bindings.repos[r] EXCEPT !.project = c[r]] \in Assignments
                        /\ [bindings.repos[r] EXCEPT !.project = c[r]].project = c[r]
    <3> TAKE r \in Repos
    <3>1. bindings.repos[r] \in Assignments /\ c[r] \in Projects \cup {"none"}
      BY <2>1
    <3> QED BY <3>1 DEF Assignments
  <2> DEFINE repos == [r \in Repos |-> IF c[r] # "none" /\ bindings.repos[r].project # "none"
                                       THEN [bindings.repos[r] EXCEPT !.project = c[r]] ELSE G!Local(c).repos[r]]
  <2>3. \A r \in Repos : G!Local(c).repos[r] \in Assignments
    BY <1>1 DEF Tenants
  <2>4. repos \in [Repos -> Assignments] /\ \A r \in Repos : repos[r].project = c[r]
    BY <1>1, <2>2, <2>3
  <2>5. G!Open(c, bindings) = [state |-> bindings.state, repos |-> repos]
    BY <1>2 DEF G!Open
  <2> HIDE DEF repos
  <2>6. G!Open(c, bindings) \in Tenants /\ G!Open(c, bindings).repos = repos
    BY <2>1, <2>4, <2>5 DEF Tenants
  <2> QED BY <1>1, <2>4, <2>6 DEF G!Open
<1> QED BY <1>1, <1>2 DEF G!Open

LEMMA BridgeInit == ASSUME G!Bounds, G!Init PROVE BridgeInv
<1>1. G!Open(config, G!Nothing) \in Tenants /\ \A r \in Repos : G!Open(config, G!Nothing).repos[r].project = config[r]
  BY OpenAssigns DEF G!Init
<1>2. BridgeTyped /\ AssignedAsConfigured
  BY <1>1 DEF G!Init, BridgeTyped, AssignedAsConfigured
<1> QED BY <1>2 DEF G!Init, BridgeInv, RowPrecedes, G!AnsweredIsProposed, PostedFromOutbox, G!Idle

\* The webhooks.
LEMMA IngestKeeps ==
    ASSUME G!Bounds, BridgeInv, NEW d \in Deliveries, NEW event \in G!Events, NEW body \in Bodies, G!Ingest(d, event, body)
    PROVE  BridgeInv'
<1> DEFINE begun == [pc |-> "propose", delivery |-> d, event |-> event, body |-> body]
<1>0. body \in [repo : Repos, text : {"plain", "markup"}]
  BY DEF G!Bounds
<1>1. G!Encode(body) \in Payloads /\ G!Encode(body).repo = body.repo
  BY <1>0 DEF G!Encode, Payloads
<1>2. CASE deliveries[d] = G!Nothing
  <2>1. /\ event = "issues" /\ op' = begun /\ UNCHANGED told
        /\ deliveries' = [deliveries EXCEPT ![d] = [event |-> event, payload |-> G!Encode(body)]]
    BY <1>2 DEF G!Ingest
  <2>2. /\ deliveries' \in [Deliveries -> DeliveryRows \cup {G!Nothing}]
        /\ deliveries'[d] = [event |-> event, payload |-> G!Encode(body)]
    BY <1>1, <2>1 DEF BridgeInv, BridgeTyped, DeliveryRows
  <2>3. deliveries'[d] # G!Nothing
    BY <2>2, Present
  <2>4. RowPrecedes'
    BY <1>1, <2>1, <2>2, <2>3 DEF RowPrecedes
  <2>5. proposals[d] = G!Nothing
    BY <1>2 DEF BridgeInv, G!AnsweredIsProposed
  <2>6. G!AnsweredIsProposed'
    BY <2>1, <2>5 DEF G!Ingest, BridgeInv, BridgeTyped, G!AnsweredIsProposed
  <2> QED BY <2>2, <2>4, <2>6 DEF G!Ingest, BridgeInv, BridgeTyped, AssignedAsConfigured, PostedFromOutbox
<1>3. CASE deliveries[d] # G!Nothing
  <2>1. /\ deliveries[d].event = event /\ deliveries[d].payload = body /\ UNCHANGED deliveries
        /\ IF G!Repair(d) THEN op' = begun /\ UNCHANGED told ELSE G!Answer(d)
    BY <1>3 DEF G!Ingest
  <2>2. RowPrecedes'
    BY <1>3, <2>1 DEF RowPrecedes, G!Answer, G!Idle
  <2>3. G!AnsweredIsProposed'
    BY <2>1 DEF G!Ingest, BridgeInv, G!AnsweredIsProposed, G!Answer, G!Repair
  <2> QED BY <2>1, <2>2, <2>3 DEF G!Ingest, BridgeInv, BridgeTyped, AssignedAsConfigured, PostedFromOutbox
<1> QED BY <1>2, <1>3

LEMMA WriteProposalKeeps == ASSUME BridgeInv, G!WriteProposal PROVE BridgeInv'
<1> DEFINE d == op.delivery
           v == G!makeProposal(op.event, op.body)
<1>1. /\ d \in Deliveries /\ deliveries[d] # G!Nothing /\ v # G!Nothing
      /\ deliveries[d].event = v.event /\ deliveries[d].payload.repo = v.repo
  BY Present DEF G!WriteProposal, BridgeInv, RowPrecedes, G!makeProposal
<1>2. proposals' = IF proposals[d] = G!Nothing THEN [proposals EXCEPT ![d] = v] ELSE proposals
  BY DEF G!WriteProposal, G!createJSON
<1>3. /\ DOMAIN proposals' = Deliveries /\ proposals'[d] # G!Nothing
      /\ proposals'[d] = (IF proposals[d] = G!Nothing THEN v ELSE proposals[d])
      /\ \A e \in Deliveries \ {d} : proposals'[e] = proposals[e]
  BY <1>1, <1>2 DEF BridgeInv, BridgeTyped
<1>4. deliveries' = deliveries /\ told' = told \cup {d} /\ op' = G!Idle
  BY DEF G!WriteProposal, G!Answer
<1>5. G!AnsweredIsProposed'
  BY <1>1, <1>3, <1>4 DEF BridgeInv, G!AnsweredIsProposed
<1>6. RowPrecedes'
  BY <1>4 DEF RowPrecedes, G!Idle
<1> QED BY <1>3, <1>4, <1>5, <1>6 DEF G!WriteProposal, BridgeInv, BridgeTyped, AssignedAsConfigured, PostedFromOutbox

\* The outbox.
LEMMA EnqueueKeeps ==
    ASSUME BridgeInv, NEW k \in StatusKeys, NEW r \in Repos, NEW state \in CheckStates, G!EnqueueStatus(k, r, state)
    PROVE  BridgeInv'
<1>1. checks[k] # G!Nothing => checks' = checks
  BY DEF G!EnqueueStatus, G!Enqueued, G!createJSON
<1>2. /\ DOMAIN checks' = StatusKeys /\ \A j \in StatusKeys : checks[j] # G!Nothing => checks'[j] = checks[j]
      /\ \A j \in StatusKeys : checks'[j] # G!Nothing => checks'[j].repo \in Repos
  BY <1>1 DEF G!EnqueueStatus, G!Enqueued, G!createJSON, BridgeInv, BridgeTyped
<1>3. PostedFromOutbox'
  BY <1>2 DEF G!EnqueueStatus, G!history, BridgeInv, PostedFromOutbox
<1> QED BY <1>2, <1>3 DEF G!EnqueueStatus, BridgeInv, BridgeTyped, AssignedAsConfigured, RowPrecedes, G!AnsweredIsProposed,
                          G!history

LEMMA DispatchKeeps == ASSUME G!Bounds, BridgeInv, G!Dispatch PROVE BridgeInv'
<1>1. PICK k \in StatusKeys : /\ checks[k] # G!Nothing /\ G!Postable(checks[k])
                              /\ posted' = posted \cup {[key |-> k, status |-> checks[k], configured |-> config[checks[k].repo]]}
                              /\ op' = [pc |-> "ack", key |-> k]
  <2> DEFINE k == CHOOSE k \in G!Pending : \A j \in G!Pending : k <= j
  <2>1. k \in G!Pending
    <3>1. G!Pending \subseteq Nat /\ G!Pending # {}
      BY DEF G!Dispatch, G!Pending, G!Bounds
    <3>2. \E m \in G!Pending : \A j \in G!Pending : m <= j
      BY <3>1, Least
    <3> QED BY <3>2
  <2> QED BY <2>1 DEF G!Dispatch, G!Pending
<1>2. checks[k].repo \in Repos /\ checks[k].project = config[checks[k].repo]
  BY <1>1 DEF G!Postable, G!route, BridgeInv, BridgeTyped, AssignedAsConfigured
<1>3. PostedFromOutbox'
  BY <1>1, <1>2 DEF G!Dispatch, G!store, BridgeInv, PostedFromOutbox
<1> QED BY <1>1, <1>3 DEF G!Dispatch, G!store, BridgeInv, BridgeTyped, AssignedAsConfigured, RowPrecedes, G!AnsweredIsProposed

LEMMA ReconcileKeeps == ASSUME BridgeInv, G!Reconcile \/ G!SetInstallationState PROVE BridgeInv'
<1> USE DEF Tenants
<1>1. CASE G!Reconcile
  <2> DEFINE repos == [r \in Repos |->
            IF config[r] = "none" THEN tenant.repos[r]
            ELSE IF remote.checks[r] = "gone" THEN [tenant.repos[r] EXCEPT !.removed = TRUE]
            ELSE [tenant.repos[r] EXCEPT !.checks = remote.checks[r], !.removed = FALSE]]
  <2>1. tenant' = [state |-> remote.state, repos |-> repos]
    BY <1>1 DEF G!Reconcile
  <2>2. \A r \in Repos : repos[r] \in Assignments /\ repos[r].project = tenant.repos[r].project
    <3> TAKE r \in Repos
    <3>1. tenant.repos[r] \in Assignments /\ remote.checks[r] \in {"read", "write", "gone"}
      BY DEF BridgeInv, BridgeTyped
    <3> QED BY <3>1 DEF Assignments
  <2>3. repos \in [Repos -> Assignments] /\ remote.state \in {"active", "suspended"}
    BY <2>2 DEF BridgeInv, BridgeTyped
  <2> HIDE DEF repos
  <2>4. tenant' \in Tenants /\ tenant'.repos = repos
    BY <2>1, <2>3
  <2>5. config' = config
    BY <1>1 DEF G!Reconcile
  <2>6. AssignedAsConfigured'
    BY <2>2, <2>4, <2>5 DEF BridgeInv, AssignedAsConfigured
  <2> QED BY <1>1, <2>4, <2>6 DEF G!Reconcile, G!store, G!history, BridgeInv, BridgeTyped, RowPrecedes, G!AnsweredIsProposed,
                                  PostedFromOutbox
<1>2. CASE G!SetInstallationState
  <2>1. tenant \in Tenants /\ remote.state \in {"active", "suspended"} /\ tenant' = [tenant EXCEPT !.state = remote.state]
    BY <1>2 DEF G!SetInstallationState, BridgeInv, BridgeTyped
  <2>2. tenant' \in Tenants /\ tenant'.repos = tenant.repos
    BY <2>1
  <2> QED BY <1>2, <2>2 DEF G!SetInstallationState, G!store, G!history, BridgeInv, BridgeTyped, AssignedAsConfigured, RowPrecedes,
                            G!AnsweredIsProposed, PostedFromOutbox
<1> QED BY <1>1, <1>2

LEMMA RestartKeeps == ASSUME BridgeInv, G!Restart PROVE BridgeInv'
<1>1. tenant' \in Tenants /\ \A r \in Repos : tenant'.repos[r].project = config'[r]
  BY OpenAssigns DEF G!Restart, BridgeInv, BridgeTyped
<1> QED BY <1>1 DEF G!Restart, G!Idle, G!store, G!history, BridgeInv, BridgeTyped, AssignedAsConfigured, RowPrecedes,
                    G!AnsweredIsProposed,
                    PostedFromOutbox

LEMMA BridgeInductive == ASSUME G!Bounds, BridgeInv, [G!Next]_(G!vars) PROVE BridgeInv'
<1>1. CASE G!RemoteChanges
  <2>1. remote' \in [state : {"active", "suspended"}, checks : [Repos -> {"read", "write", "gone"}]]
    <3>1. remote \in [state : {"active", "suspended"}, checks : [Repos -> {"read", "write", "gone"}]]
      BY DEF BridgeInv, BridgeTyped
    <3>2. CASE \E s \in {"active", "suspended"} : remote' = [remote EXCEPT !.state = s]
      BY <3>1, <3>2
    <3>3. CASE \E r \in Repos, c \in {"write", "gone"} : remote' = [remote EXCEPT !.checks[r] = c]
      BY <3>1, <3>3
    <3> QED BY <1>1, <3>2, <3>3 DEF G!RemoteChanges
  <2> QED BY <1>1, <2>1 DEF G!RemoteChanges, G!store, G!history, BridgeInv, BridgeTyped, AssignedAsConfigured, RowPrecedes,
                            G!AnsweredIsProposed, PostedFromOutbox
<1>2. CASE G!Acknowledge
  BY <1>2 DEF G!Acknowledge, G!Idle, G!history, BridgeInv, BridgeTyped, AssignedAsConfigured, RowPrecedes, G!AnsweredIsProposed,
              PostedFromOutbox
<1>3. CASE G!writeJSONAtomic
  BY <1>3 DEF G!writeJSONAtomic, G!Idle, G!history, BridgeInv, BridgeTyped, AssignedAsConfigured, RowPrecedes, G!AnsweredIsProposed,
              PostedFromOutbox
<1>4. CASE UNCHANGED G!vars
  BY <1>4 DEF G!vars, G!store, G!history, BridgeInv, BridgeTyped, AssignedAsConfigured, RowPrecedes, G!AnsweredIsProposed,
              PostedFromOutbox
<1> QED BY <1>1, <1>2, <1>3, <1>4, IngestKeeps, WriteProposalKeeps, EnqueueKeeps, DispatchKeeps, ReconcileKeeps, RestartKeeps
        DEF G!Next

\* However deliveries are repeated, interrupted and opened again under other
\* assignments, one that Ingest answered has its row and its proposal; and
\* however often Dispatch posts a key, it is the same status, to the project
\* its repository is assigned to.
THEOREM BridgeIsFaithful ==
    ASSUME G!Bounds
    PROVE  G!Spec => []BridgeKeepsFaith
<1>1. G!Init => BridgeInv
  BY BridgeInit
<1>2. BridgeInv /\ [G!Next]_(G!vars) => BridgeInv'
  BY BridgeInductive
<1>3. ASSUME BridgeInv PROVE BridgeKeepsFaith
  BY <1>3 DEF BridgeInv, PostedFromOutbox, BridgeKeepsFaith, G!BridgeKeepsFaith, G!PostsAgree
<1> QED BY <1>1, <1>2, <1>3, PTL DEF G!Spec

-----------------------------------------------------------------------------
(* The server.                                                             *)

CallOpen(n)  == calls[n] \in {"running", "write", "encode"}
Untouched(n) == calls[n] = "none" /\ answers[n] = 0

ServerTyped ==
    /\ profile \in Profiles /\ owed \in Int
    /\ frames \in Seq([kind : Kinds, tool : Tools])
    /\ read \in Nat /\ read <= Len(frames) /\ Len(frames) <= MaxFrames
    /\ hand \in {N!Ended} \cup 0 .. read
    /\ main \in [pc : {"select", "write", "encode", "finish", "returned"}, frame : 0 .. read]
    /\ calls \in [1 .. MaxFrames -> {"none", "running", "write", "encode", "ended"}]
    /\ answers \in [1 .. MaxFrames -> Nat]

\* A frame is offered, or answered by the loop, or a call of its own, and never
\* two of these; what was not scanned or is only offered was not touched.
OneOwner ==
    /\ hand > 0 => Untouched(hand) /\ main.frame # hand
    /\ main.frame # 0 => Untouched(main.frame)
    /\ main.frame # 0 <=> main.pc \in {"write", "encode"}
    /\ \A n \in 1 .. MaxFrames : /\ n > read => Untouched(n)
                                 /\ CallOpen(n) => answers[n] = 0
                                 /\ answers[n] <= 1

Counted == ~failed => owed = Cardinality(N!Unfinished)

ServerInv == ServerTyped /\ OneOwner /\ Counted /\ ran \subseteq N!catalog(profile)

\* What a profile lets run is what tools/list shows for it.
LEMMA CallsAreListed == ASSUME N!Bounds, NEW p \in Profiles, NEW t, N!call(p, t) PROVE t \in N!catalog(p)
<1>1. CASE p = "review"
  BY <1>1 DEF N!call, N!ToolAllowed, N!catalog, N!Orchestrates
<1>2. CASE p \in N!Orchestrates
  <2>1. t \in N!orchestrationReads \cup N!orchestrationRoles(p)
    BY <1>2 DEF N!call, N!ToolAllowed, N!orchestrationToolAllowed
  <2> QED BY <1>2, <2>1 DEF N!catalog, N!Orchestrates
<1>3. CASE p \in {"plain", "runner"}
  <2> DEFINE Roles == UNION {N!orchestrationRoles(r) : r \in N!Orchestrates}
  <2>1. t \in N!arguments /\ ~N!orchestrationCall(t) /\ t \notin N!Reviews /\ (t \in N!Verifies => p = "runner")
    BY <1>3 DEF N!call, N!Orchestrates
  <2>2. t \notin Roles \ N!Work /\ t # "get_orchestration_host_status"
    BY <2>1 DEF N!orchestrationCall
  <2>3. N!arguments = N!Reads \cup N!Work \cup N!Verifies \cup N!Reviews \cup {"task_brief", "ready_frontier"}
                          \cup (N!Reads \cup {"get_orchestration_host_status"}) \cup Roles
    BY DEF N!arguments, N!orchestrationReads
  <2> HIDE DEF Roles
  <2>4. t \in N!Reads \cup N!Work \cup N!Verifies \cup {"task_brief", "ready_frontier"}
    BY <2>1, <2>2, <2>3
  <2> QED BY <1>3, <2>1, <2>4 DEF N!catalog, N!Orchestrates
<1> QED BY <1>1, <1>2, <1>3 DEF N!Bounds, N!Orchestrates

LEMMA UnfinishedIs ==
    ASSUME N!Bounds, ServerTyped
    PROVE  /\ IsFiniteSet(N!Unfinished) /\ N!Unfinished \subseteq 1 .. read /\ Cardinality(N!Unfinished) \in Nat
           /\ \A n \in 1 .. read : n \in N!Unfinished <=> n = hand \/ n = main.frame \/ CallOpen(n)
<1>1. read \in Nat /\ MaxFrames \in Nat /\ read <= MaxFrames /\ DOMAIN calls = 1 .. MaxFrames
  BY DEF N!Bounds, ServerTyped
<1>2. N!Unfinished \subseteq 1 .. read /\ IsFiniteSet(1 .. read)
  BY <1>1, FS_Interval DEF N!Unfinished
<1>3. IsFiniteSet(N!Unfinished) /\ Cardinality(N!Unfinished) \in Nat
  BY <1>2, FS_Subset, FS_CardinalityType
<1>4. ASSUME NEW n \in 1 .. read PROVE n \in N!Unfinished <=> n = hand \/ n = main.frame \/ CallOpen(n)
  <2>1. n \in DOMAIN calls
    BY <1>1, <1>4
  <2> QED BY <1>4, <2>1 DEF N!Unfinished, N!Running, CallOpen
<1> QED BY <1>2, <1>3, <1>4

\* A frame whose handling ends leaves the count, and so does its share of it.
LEMMA FrameSettled ==
    ASSUME N!Bounds, ServerTyped, Counted, NEW n \in N!Unfinished, owed' = owed - 1, ~failed' => ~failed,
           read' = read, \A k \in 1 .. read : k \in N!Unfinished' <=> k \in N!Unfinished /\ k # n
    PROVE  Counted'
<1>1. N!Unfinished' = N!Unfinished \ {n}
  <2>1. N!Unfinished \subseteq 1 .. read
    BY UnfinishedIs
  <2>2. N!Unfinished' \subseteq 1 .. read'
    BY DEF N!Unfinished
  <2> QED BY <2>1, <2>2
<1>2. IsFiniteSet(N!Unfinished) /\ Cardinality(N!Unfinished) \in Nat
  BY UnfinishedIs
<1>3. Cardinality(N!Unfinished') = Cardinality(N!Unfinished) - 1
  BY <1>1, <1>2, FS_RemoveElement
<1> QED BY <1>3 DEF Counted

\* A frame that only changes hands stays in the count.
LEMMA FramePassed ==
    ASSUME Counted, owed' = owed, ~failed' => ~failed, read' = read, 
           \A k \in 1 .. read : k \in N!Unfinished' <=> k \in N!Unfinished
    PROVE  Counted'
<1>1. N!Unfinished' = N!Unfinished
  BY DEF N!Unfinished
<1> QED BY <1>1 DEF Counted

LEMMA ServerInit == ASSUME N!Bounds, N!Init PROVE ServerInv
<1>1. ServerTyped
  BY DEF N!Bounds, N!Init, ServerTyped
<1>2. OneOwner
  BY DEF N!Bounds, N!Init, OneOwner, CallOpen, Untouched
<1>3. N!Unfinished = {}
  BY DEF N!Init, N!Unfinished
<1>4. Counted
  BY <1>3, FS_EmptySet DEF N!Init, Counted
<1> QED BY <1>1, <1>2, <1>4 DEF N!Init, ServerInv

\* Steps that hand no frame over.
LEMMA OthersKeep ==
    ASSUME N!Bounds, ServerInv,
           \/ N!Send \/ N!ClientChanges \/ N!WatchContext \/ N!ArmTimer \/ N!Drained
           \/ N!Leave \/ N!Finish \/ N!ScanEnds \/ UNCHANGED N!vars
    PROVE  ServerInv'
<1>1. /\ UNCHANGED <<profile, read, owed, calls, answers, failed, ran>>
      /\ hand' = hand \/ (hand = 0 /\ hand' = N!Ended)
      /\ main' = main \/ (main.frame = 0 /\ main' \in [pc : {"finish", "returned"}, frame : {0}])
  BY DEF ServerInv, OneOwner, N!Send, N!ClientChanges, N!WatchContext, N!ArmTimer, N!Drained, N!Leave, N!Finish, N!ScanEnds,
         N!vars, N!client, N!reader,
         N!loop, N!encoder
<1>2. frames' \in Seq([kind : Kinds, tool : Tools]) /\ Len(frames') <= MaxFrames /\ read <= Len(frames')
  <2>1. CASE N!Send
    <3>1. PICK k \in Kinds, t \in Tools : frames' = Append(frames, [kind |-> k, tool |-> t]) /\ Len(frames) < MaxFrames
      BY <2>1 DEF N!Send
    <3> QED BY <3>1 DEF N!Bounds, ServerInv, ServerTyped
  <2>2. CASE UNCHANGED frames
    BY <2>2 DEF ServerInv, ServerTyped
  <2> QED BY <2>1, <2>2 DEF N!ClientChanges, N!WatchContext, N!ArmTimer, N!Drained, N!Leave, N!Finish, N!ScanEnds, N!vars, N!client
<1>3. ServerTyped'
  BY <1>1, <1>2 DEF ServerInv, ServerTyped
<1>4. OneOwner'
  BY <1>1 DEF ServerInv, ServerTyped, OneOwner, CallOpen, Untouched, N!Ended
<1>5. \A k \in 1 .. read : k \in N!Unfinished' <=> k \in N!Unfinished
  BY <1>1 DEF N!Unfinished, N!Running, N!Ended, ServerInv, ServerTyped
<1>6. Counted'
  BY <1>1, <1>5, FramePassed DEF ServerInv
<1> QED BY <1>1, <1>3, <1>4, <1>6 DEF ServerInv

\* The reader.
LEMMA ScanKeeps == ASSUME N!Bounds, ServerInv, N!Scan PROVE ServerInv'
<1>1. /\ hand = 0 /\ read < Len(frames) /\ hand' = read + 1 /\ read' = read + 1 /\ owed' = owed + 1
      /\ UNCHANGED <<profile, frames, main, calls, answers, failed, ran>>
  BY DEF N!Scan, N!client, N!loop, N!encoder
<1>2. ServerTyped'
  BY <1>1 DEF N!Bounds, ServerInv, ServerTyped
<1>3. OneOwner'
  BY <1>1 DEF N!Bounds, ServerInv, ServerTyped, OneOwner, CallOpen, Untouched
<1>4. N!Unfinished' = N!Unfinished \cup {read + 1} /\ read + 1 \notin N!Unfinished
  BY <1>1 DEF N!Bounds, ServerInv, ServerTyped, OneOwner, CallOpen, Untouched, N!Unfinished, N!Running
<1>5. IsFiniteSet(N!Unfinished)
  BY UnfinishedIs DEF ServerInv
<1>6. Cardinality(N!Unfinished') = Cardinality(N!Unfinished) + 1
  BY <1>4, <1>5, FS_AddElement
<1>7. Counted'
  BY <1>1, <1>6 DEF ServerInv, Counted
<1> QED BY <1>1, <1>2, <1>3, <1>7 DEF ServerInv

LEMMA StopReadKeeps == ASSUME N!Bounds, ServerInv, N!StopRead PROVE ServerInv'
<1>1. /\ hand > 0 /\ hand' = N!Ended /\ owed' = owed - 1
      /\ UNCHANGED <<profile, frames, read, main, calls, answers, failed, ran>>
  BY DEF N!StopRead, N!client, N!loop, N!encoder
<1>2. ServerTyped'
  BY <1>1 DEF ServerInv, ServerTyped
<1>3. OneOwner'
  BY <1>1 DEF ServerInv, ServerTyped, OneOwner, CallOpen, Untouched, N!Ended
<1>4. hand \in N!Unfinished /\ \A k \in 1 .. read : k \in N!Unfinished' <=> k \in N!Unfinished /\ k # hand
  BY <1>1 DEF ServerInv, ServerTyped, OneOwner, CallOpen, Untouched, N!Unfinished, N!Running, N!Ended
<1>5. Counted'
  BY <1>1, <1>4, FrameSettled DEF ServerInv
<1> QED BY <1>1, <1>2, <1>3, <1>5 DEF ServerInv

\* The loop.
LEMMA TakeKeeps == ASSUME N!Bounds, ServerInv, N!Take PROVE ServerInv'
<1>1. /\ main.pc = "select" /\ main.frame = 0 /\ hand \in 1 .. read /\ hand \in 1 .. MaxFrames /\ hand' = 0
      /\ UNCHANGED <<profile, frames, read, answers, failed, ran>>
  BY DEF N!Take, N!Bounds, ServerInv, ServerTyped, OneOwner, N!Ended, N!client, N!encoder
<1>2. \/ /\ owed' = owed - 1 /\ UNCHANGED calls
         /\ main' = main \/ main' = [pc |-> "finish", frame |-> 0]
      \/ calls' = [calls EXCEPT ![hand] = "running"] /\ UNCHANGED <<owed, main>>
      \/ main' = [pc |-> "write", frame |-> hand] /\ UNCHANGED <<owed, calls>>
  <2>1. CASE frames[hand].kind = "notification"
    BY <2>1 DEF N!Take
  <2>2. CASE frames[hand].kind # "notification"
    BY <2>2 DEF N!Take
  <2> QED BY <2>1, <2>2
<1>3. ServerTyped'
  BY <1>1, <1>2 DEF ServerInv, ServerTyped
<1>4. OneOwner'
  <2>0. \/ UNCHANGED calls /\ main'.frame = 0 /\ main'.pc \in {"select", "finish"}
        \/ calls' = [calls EXCEPT ![hand] = "running"] /\ UNCHANGED main
        \/ main'.pc = "write" /\ main'.frame = hand /\ UNCHANGED calls
    BY <1>1, <1>2
  <2>1. CASE UNCHANGED calls /\ main'.frame = 0 /\ main'.pc \in {"select", "finish"}
    BY <1>1, <2>1 DEF ServerInv, ServerTyped, OneOwner, CallOpen, Untouched
  <2>2. CASE calls' = [calls EXCEPT ![hand] = "running"] /\ UNCHANGED main
    BY <1>1, <2>2 DEF ServerInv, ServerTyped, OneOwner, CallOpen, Untouched
  <2>3. CASE main'.pc = "write" /\ main'.frame = hand /\ UNCHANGED calls
    BY <1>1, <2>3 DEF ServerInv, ServerTyped, OneOwner, CallOpen, Untouched
  <2> QED BY <2>0, <2>1, <2>2, <2>3
<1>5. Counted'
  <2>1. CASE owed' = owed - 1 /\ UNCHANGED calls /\ main'.frame = 0
    <3>1. hand \in N!Unfinished /\ \A k \in 1 .. read : k \in N!Unfinished' <=> k \in N!Unfinished /\ k # hand
      BY <1>1, <2>1 DEF ServerInv, ServerTyped, OneOwner, CallOpen, Untouched, N!Unfinished, N!Running
    <3> QED BY <1>1, <2>1, <3>1, FrameSettled DEF ServerInv
  <2>2. CASE calls' = [calls EXCEPT ![hand] = "running"] /\ UNCHANGED <<owed, main>>
    <3>1. \A k \in 1 .. read : k \in N!Unfinished' <=> k \in N!Unfinished
      BY <1>1, <2>2 DEF ServerInv, ServerTyped, OneOwner, CallOpen, Untouched, N!Unfinished, N!Running
    <3> QED BY <1>1, <2>2, <3>1, FramePassed DEF ServerInv
  <2>3. CASE main' = [pc |-> "write", frame |-> hand] /\ UNCHANGED <<owed, calls>>
    <3>1. \A k \in 1 .. read : k \in N!Unfinished' <=> k \in N!Unfinished
      BY <1>1, <2>3 DEF ServerInv, ServerTyped, OneOwner, CallOpen, Untouched, N!Unfinished, N!Running
    <3> QED BY <1>1, <2>3, <3>1, FramePassed DEF ServerInv
  <2> QED BY <1>1, <1>2, <2>1, <2>2, <2>3
<1> QED BY <1>1, <1>3, <1>4, <1>5 DEF ServerInv

LEMMA MainEncodesKeeps == ASSUME N!Bounds, ServerInv, N!MainEncodes PROVE ServerInv'
<1>1. /\ main.pc = "encode" /\ main.frame \in 1 .. read /\ main.frame \in 1 .. MaxFrames /\ main'.frame = 0
      /\ main' \in [pc : {"select", "finish"}, frame : {0}]
      /\ UNCHANGED <<profile, frames, read, hand, calls, ran>>
  BY DEF N!MainEncodes, N!Bounds, ServerInv, ServerTyped, OneOwner, N!client, N!reader
<1>2. \/ answers' = [answers EXCEPT ![main.frame] = @ + 1] /\ owed' = owed - 1 /\ UNCHANGED failed
      \/ failed' = TRUE /\ UNCHANGED <<answers, owed>>
  BY DEF N!MainEncodes
<1>3. ServerTyped'
  BY <1>1, <1>2 DEF ServerInv, ServerTyped
<1>4. OneOwner'
  <2>1. main'.pc \in {"select", "finish"} /\ \A n \in 1 .. MaxFrames \ {main.frame} : answers'[n] = answers[n]
    BY <1>1, <1>2 DEF ServerInv, ServerTyped
  <2>2. main.frame # 0 /\ answers[main.frame] = 0 /\ calls[main.frame] = "none"
    BY <1>1 DEF ServerInv, OneOwner, Untouched
  <2>3. answers'[main.frame] \in {0, 1}
    <3>1. main.frame \in 1 .. MaxFrames /\ DOMAIN answers = 1 .. MaxFrames
      BY <1>1 DEF ServerInv, ServerTyped
    <3>2. CASE answers' = [answers EXCEPT ![main.frame] = @ + 1]
      BY <2>2, <3>1, <3>2
    <3> QED BY <1>2, <2>2, <3>2
  <2>4. hand > 0 => Untouched(hand)'
    BY <1>1, <2>1 DEF N!Bounds, ServerInv, ServerTyped, OneOwner, Untouched, N!Ended
  <2>5. ASSUME NEW n \in 1 .. MaxFrames
        PROVE  (n > read => Untouched(n)') /\ (CallOpen(n)' => answers'[n] = 0) /\ answers'[n] <= 1
    <3>1. CASE n = main.frame
      BY <1>1, <2>2, <2>3, <3>1 DEF CallOpen, ServerInv, ServerTyped
    <3>2. CASE n # main.frame
      BY <1>1, <2>1, <3>2 DEF ServerInv, OneOwner, CallOpen, Untouched
    <3> QED BY <3>1, <3>2
  <2>6. main'.frame = 0 /\ main'.pc \in {"select", "finish"} /\ hand' = hand /\ read' = read
    BY <1>1
  <2> QED BY <2>4, <2>5, <2>6 DEF OneOwner
<1>5. Counted'
  <2>1. CASE owed' = owed - 1 /\ UNCHANGED failed
    <3>1. main.frame \in N!Unfinished /\ \A k \in 1 .. read : k \in N!Unfinished' <=> k \in N!Unfinished /\ k # main.frame
      BY <1>1 DEF ServerInv, ServerTyped, OneOwner, CallOpen, Untouched, N!Unfinished, N!Running
    <3> QED BY <1>1, <2>1, <3>1, FrameSettled DEF ServerInv
  <2> QED BY <1>2, <2>1 DEF Counted
<1> QED BY <1>1, <1>3, <1>4, <1>5 DEF ServerInv

\* The encoder's lock, and the calls.
LEMMA LockKeeps == ASSUME N!Bounds, ServerInv, N!Lock PROVE ServerInv'
<1>1. UNCHANGED <<profile, frames, read, hand, owed, answers, failed, ran>>
  BY DEF N!Lock, N!client, N!reader
<1>2. \/ main.pc = "write" /\ main' = [main EXCEPT !.pc = "encode"] /\ UNCHANGED calls
      \/ \E n \in 1 .. MaxFrames : calls[n] = "write" /\ calls' = [calls EXCEPT ![n] = "encode"] /\ UNCHANGED main
  BY DEF N!Lock, ServerInv, ServerTyped
<1>3. ServerTyped'
  BY <1>1, <1>2 DEF ServerInv, ServerTyped
<1>4. main'.frame = main.frame /\ (main'.pc = main.pc \/ (main.pc = "write" /\ main'.pc = "encode"))
  BY <1>1, <1>2 DEF ServerInv, ServerTyped
<1>5. OneOwner'
  <2>1. CASE UNCHANGED calls
    BY <1>1, <1>4, <2>1 DEF ServerInv, ServerTyped, OneOwner, CallOpen, Untouched
  <2>2. CASE \E n \in 1 .. MaxFrames : calls[n] = "write" /\ calls' = [calls EXCEPT ![n] = "encode"]
    BY <1>1, <1>4, <2>2 DEF ServerInv, ServerTyped, OneOwner, CallOpen, Untouched
  <2> QED BY <1>2, <2>1, <2>2
<1>6. \A k \in 1 .. read : k \in N!Unfinished' <=> k \in N!Unfinished
  BY <1>1, <1>2, <1>4 DEF ServerInv, ServerTyped, N!Unfinished, N!Running
<1>7. Counted'
  BY <1>1, <1>6, FramePassed DEF ServerInv
<1> QED BY <1>1, <1>3, <1>5, <1>7 DEF ServerInv

LEMMA CallRunsKeeps == ASSUME N!Bounds, ServerInv, NEW n \in 1 .. MaxFrames, N!CallRuns(n) PROVE ServerInv'
<1>1. /\ calls[n] = "running" /\ calls' = [calls EXCEPT ![n] = "write"]
      /\ UNCHANGED <<profile, frames, read, hand, owed, main, answers, failed>>
  BY DEF N!CallRuns, N!client, N!reader, N!loop, N!encoder
<1>2. ServerTyped'
  BY <1>1 DEF ServerInv, ServerTyped
<1>3. OneOwner'
  BY <1>1 DEF ServerInv, ServerTyped, OneOwner, CallOpen, Untouched
<1>4. \A k \in 1 .. read : k \in N!Unfinished' <=> k \in N!Unfinished
  BY <1>1 DEF ServerInv, ServerTyped, N!Unfinished, N!Running
<1>5. Counted'
  BY <1>1, <1>4, FramePassed DEF ServerInv
<1>6. ran' \subseteq N!catalog(profile)
  BY CallsAreListed DEF N!CallRuns, ServerInv, ServerTyped
<1> QED BY <1>1, <1>2, <1>3, <1>5, <1>6 DEF ServerInv

LEMMA CallEncodesKeeps == ASSUME N!Bounds, ServerInv, NEW n \in 1 .. MaxFrames, N!CallEncodes(n) PROVE ServerInv'
<1>1. /\ calls[n] = "encode" /\ calls' = [calls EXCEPT ![n] = "ended"] /\ owed' = owed - 1
      /\ \/ answers' = [answers EXCEPT ![n] = @ + 1] /\ UNCHANGED failed
         \/ failed' = TRUE /\ UNCHANGED answers
      /\ UNCHANGED <<profile, frames, read, hand, main, ran>>
  BY DEF N!CallEncodes, N!client, N!reader, N!loop
<1>2. ServerTyped'
  BY <1>1 DEF ServerInv, ServerTyped
<1>3. OneOwner'
  <2>1. answers[n] = 0 /\ n <= read /\ calls'[n] = "ended" /\ answers'[n] \in {0, 1}
    BY <1>1 DEF N!Bounds, ServerInv, ServerTyped, OneOwner, CallOpen, Untouched
  <2>2. \A k \in 1 .. MaxFrames \ {n} : calls'[k] = calls[k] /\ answers'[k] = answers[k]
    BY <1>1 DEF ServerInv, ServerTyped
  <2>3. \A k \in 1 .. MaxFrames : Untouched(k) => k # n
    BY <1>1 DEF Untouched
  <2>4. (hand > 0 => Untouched(hand)') /\ (main.frame # 0 => Untouched(main.frame)')
    BY <1>1, <2>2, <2>3 DEF N!Bounds, ServerInv, ServerTyped, OneOwner, Untouched, N!Ended
  <2>5. ASSUME NEW k \in 1 .. MaxFrames
        PROVE  (k > read => Untouched(k)') /\ (CallOpen(k)' => answers'[k] = 0) /\ answers'[k] <= 1
    <3>1. CASE k = n
      BY <2>1, <3>1 DEF CallOpen, ServerInv, ServerTyped
    <3>2. CASE k # n
      BY <2>2, <3>2 DEF ServerInv, OneOwner, CallOpen, Untouched
    <3> QED BY <3>1, <3>2
  <2> QED BY <1>1, <2>4, <2>5 DEF ServerInv, OneOwner
<1>4. n \in N!Unfinished /\ \A k \in 1 .. read : k \in N!Unfinished' <=> k \in N!Unfinished /\ k # n
  BY <1>1 DEF ServerInv, ServerTyped, OneOwner, CallOpen, Untouched, N!Unfinished, N!Running
<1>5. Counted'
  BY <1>1, <1>4, FrameSettled DEF ServerInv
<1> QED BY <1>1, <1>2, <1>3, <1>5 DEF ServerInv

LEMMA ServerInductive == ASSUME N!Bounds, ServerInv, [N!Next]_(N!vars) PROVE ServerInv'
<1>1. CASE \E n \in 1 .. MaxFrames : N!CallRuns(n) \/ N!CallEncodes(n)
  BY <1>1, CallRunsKeeps, CallEncodesKeeps
<1>2. CASE N!Scan \/ N!StopRead \/ N!Take \/ N!MainEncodes \/ N!Lock
  BY <1>2, ScanKeeps, StopReadKeeps, TakeKeeps, MainEncodesKeeps, LockKeeps
<1>3. CASE \/ N!Send \/ N!ClientChanges \/ N!WatchContext \/ N!ArmTimer \/ N!Drained
           \/ N!Leave \/ N!Finish \/ N!ScanEnds \/ UNCHANGED N!vars
  BY <1>3, OthersKeep
<1> QED BY <1>1, <1>2, <1>3 DEF N!Next, N!Server

\* Whatever the client sends or stops reading, and whenever its session ends:
\* pendingFrames is the number of frames under way, so the drain watcher cuts
\* off exactly a connection that owes an answer; no frame is answered twice,
\* and no tool runs that tools/list does not show.
THEOREM FramesStayAccounted ==
    ASSUME N!Bounds
    PROVE  N!Spec => []FramesAccountedFor
<1>1. N!Init => ServerInv
  BY ServerInit
<1>2. ServerInv /\ [N!Next]_(N!vars) => ServerInv'
  BY ServerInductive
<1>3. N!Cardinality(N!Unfinished) = Cardinality(N!Unfinished)
  BY DEF N!Cardinality, Cardinality
<1>4. ServerInv => FramesAccountedFor
  BY <1>3 DEF ServerInv, Counted, OneOwner, FramesAccountedFor, N!FramesAccountedFor
<1> QED BY <1>1, <1>2, <1>4, PTL DEF N!Spec

-----------------------------------------------------------------------------
(* The device.                                                             *)

LEMMA OneProcess == Processes = {Agent}
BY DEF Processes

\* A process waits for an answer; it has one operation at a time.
ClientWaits == [op : {"login", "refresh", "logout"}, at : {"begin", "poll", "token", "revoke"}, request : Nat,
            answer : D!Answers \cup {None}, started : Nat]
ClientWorks == [op : {"store"}, secret : D!Secret, id : Nat] \cup ClientWaits \cup [op : {"profile"}, expires : Nat]
               \cup [op : {"idle", "logged_out", "remote_revoke_unknown"}]
DeviceRequests == [kind : {"begin", "poll", "token", "revoke"}, from : Processes, credential : Nat, request : Nat]

DeviceTyped ==
    /\ time \in Nat /\ asks \in Nat
    /\ flow \in D!Flow \cup {None} /\ bearers \in Seq([active : BOOLEAN, expires : Nat])
    /\ keychain \in D!Secret \cup {None} /\ proc \in [Processes -> ClientWorks] /\ net \subseteq DeviceRequests

\* The service: the last session is the only active one, and the response that
\* is kept is the one that handed it out.
LastSession ==
    /\ flow = None => bearers = <<>>
    /\ flow # None => /\ flow.refresh = Len(bearers) /\ flow.sessions \subseteq {flow.refresh}
                      /\ (flow.response = None) <=> (flow.refresh = 0)
                      /\ flow.response # None => /\ flow.response.session = flow.refresh
                                                 /\ flow.response.credential < flow.refresh
                      /\ \A i \in 1 .. Len(bearers) : bearers[i].active => i \in flow.sessions /\ ~ flow.revoked

\* A request id is drawn before it is used.
DrawnFirst ==
    /\ \A m \in net : m.request \in 1 .. asks /\ (m.kind \in {"begin", "poll"} => m.credential = 0)
    /\ keychain # None => keychain.pending \in 1 .. asks \cup {None}

\* What the device holds is current, or the answer to what it asked is kept.
HoldsOrReplays ==
    keychain # None =>
        /\ flow # None
        /\ \/ keychain.refresh = flow.refresh
           \/ /\ flow.response # None /\ flow.response.credential = keychain.refresh
              /\ flow.response.request = keychain.pending

\* No request in flight is ahead of what the device holds, and the refreshes of
\* what it holds carry the id stored beside it.
NoneAhead ==
    keychain # None => \A m \in net : m.kind = "token" =>
        /\ m.credential <= keychain.refresh
        /\ m.credential = keychain.refresh <=> m.request = keychain.pending

\* What the client does is about what it holds.
ClientStep == proc[Agent]
OfWhatItHolds ==
    /\ keychain # None \/ ClientStep.op = "login" => asks >= 2
    /\ ClientStep.op = "login" => /\ keychain = None /\ \A m \in net : m.kind \in {"begin", "poll"}
                                  /\ \A i \in 1 .. MaxSessions : ClientStep.answer = D!Hand(i) => flow # None /\ flow.refresh = i
    /\ ClientStep.op = "store" => /\ keychain # None /\ ClientStep.secret = keychain
                                  /\ IF keychain.pending = None THEN ClientStep.id \in 1 .. asks /\ \A m \in net : m.request # ClientStep.id
                                     ELSE ClientStep.id = keychain.pending
    /\ ClientStep.op = "refresh" => /\ keychain # None /\ ClientStep.request = keychain.pending /\ ClientStep.at = "token"
                                    /\ \A i \in 1 .. MaxSessions : ClientStep.answer = D!Hand(i) => flow.refresh = i /\ keychain.refresh < i
    /\ ClientStep.op = "logout" => ClientStep.at = "revoke"
    /\ ClientStep.op = "logged_out" \/ (ClientStep.op = "logout" /\ ClientStep.answer = D!Say("revoked")) => flow # None /\ flow.revoked

DeviceInv == DeviceTyped /\ LastSession /\ DrawnFirst /\ HoldsOrReplays /\ NoneAhead /\ OfWhatItHolds

\* None is not a value of the rows and answers.
LEMMA NoneApart ==
    ASSUME D!Bounds
    PROVE  /\ None \notin Nat /\ None # "account" /\ None \notin D!Flow /\ None \notin D!Secret /\ None \notin D!Response
           /\ \A a \in D!Answers : a # None
BY DEF D!Bounds

\* What an answer says.
LEMMA AnswersApart ==
    /\ \A x, y : D!Say(x) = D!Say(y) => x = y
    /\ \A x, i : D!Say(x) = D!Hand(i) => x = "ok"
    /\ \A i, j : D!Hand(i) = D!Hand(j) => i = j
<1>1. \A x : D!Say(x).code = x /\ D!Say(x).session = 0
  BY DEF D!Say
<1>2. \A i : D!Hand(i).code = "ok" /\ D!Hand(i).session = i
  BY DEF D!Hand
<1> QED BY <1>1, <1>2

\* A process that waits has the record of a process that waits.
LEMMA WaitsOf ==
    ASSUME DeviceTyped
    PROVE  /\ ClientStep \in ClientWorks
           /\ ClientStep.op \in {"login", "refresh", "logout"} => ClientStep \in ClientWaits
           /\ ClientStep.op = "store" => ClientStep.secret \in D!Secret /\ ClientStep.id \in Nat
           /\ ClientStep.op = "profile" => ClientStep.expires \in Nat
<1>1. ClientStep \in ClientWorks
  BY OneProcess DEF DeviceTyped, ClientStep
<1> QED BY <1>1 DEF ClientWorks, ClientWaits

LEMMA DeviceInit ==
    ASSUME D!Bounds, D!Init
    PROVE  DeviceInv
<1>1. DeviceTyped
  BY DEF D!Init, DeviceTyped, ClientWorks, D!Idle
<1>2. ClientStep = D!Idle
  BY OneProcess DEF D!Init, ClientStep
<1>3. ClientStep.op = "idle"
  BY <1>2 DEF D!Idle
<1> QED BY <1>1, <1>3 DEF D!Init, DeviceInv, LastSession, DrawnFirst, HoldsOrReplays, NoneAhead, OfWhatItHolds

\* What a poll makes of the flow when its next poll is at x and its interval y.
AfterPoll(x, y) ==
    {flow, [flow EXCEPT !.interval = y], [flow EXCEPT !.nextPoll = x], [[flow EXCEPT !.nextPoll = x] EXCEPT !.interval = y],
     [[flow EXCEPT !.nextPoll = x] EXCEPT !.account = "account"]}

LEMMA FlowAfterPoll ==
    ASSUME flow \in D!Flow, NEW x \in Nat, NEW y \in Nat, NEW f \in AfterPoll(x, y)
    PROVE  /\ f \in D!Flow
           /\ f.refresh = flow.refresh /\ f.response = flow.response /\ f.sessions = flow.sessions /\ f.revoked = flow.revoked
<1>1. f \in D!Flow
  BY DEF AfterPoll, D!Flow
<1> QED BY <1>1 DEF AfterPoll, D!Flow

\* What the flow is after a poll that does not issue a session.
LEMMA PollsOf ==
    ASSUME D!Bounds, DeviceInv, flow # None
    PROVE  LET f == D!PollFlow(flow).flow IN
           /\ f \in D!Flow /\ f.refresh = flow.refresh /\ f.response = flow.response /\ f.sessions = flow.sessions
           /\ f.revoked = flow.revoked
           /\ D!PollFlow(flow).answer # "bound" => D!PollFlow(flow).answer \in {"expired_token", "slow_down", "authorization_pending", "access_denied"}
<1>1. flow \in D!Flow /\ time \in Nat /\ MaxInterval \in Nat
  BY DEF DeviceInv, DeviceTyped, D!Bounds
<1>2. flow.interval \in Nat /\ flow.nextPoll \in Nat
  BY <1>1 DEF D!Flow
<1>3. flow.account \in {None, "account"} /\ flow.response \in D!Response \cup {None}
  BY <1>1 DEF D!Flow
<1>5. \A x, y : /\ [flow EXCEPT !.nextPoll = x].interval = flow.interval
                /\ \A g \in {flow, [flow EXCEPT !.interval = y], [flow EXCEPT !.nextPoll = x],
                             [[flow EXCEPT !.nextPoll = x] EXCEPT !.interval = y],
                             [[flow EXCEPT !.nextPoll = x] EXCEPT !.account = "account"]} :
                      g.refresh = flow.refresh /\ g.response = flow.response /\ g.sessions = flow.sessions /\ g.revoked = flow.revoked
  BY <1>1 DEF D!Flow
<1>6. D!Poll \in {"bound", "slow_down", "authorization_pending", "access_denied"}
  BY DEF D!Poll
<1> DEFINE Next1 == time + flow.interval
           Longer == IF flow.interval < MaxInterval THEN flow.interval + 1 ELSE flow.interval
<1>7. Next1 \in Nat /\ Longer \in Nat
  BY <1>1, <1>2
<1>8. D!PollFlow(flow) \in {[flow |-> flow, answer |-> "expired_token"], [flow |-> [flow EXCEPT !.interval = Longer], answer |-> "slow_down"],
                          [flow |-> [flow EXCEPT !.nextPoll = Next1], answer |-> D!Poll],
                          [flow |-> [[flow EXCEPT !.nextPoll = Next1] EXCEPT !.interval = Longer], answer |-> D!Poll],
                          [flow |-> [[flow EXCEPT !.nextPoll = Next1] EXCEPT !.account = "account"], answer |-> D!Poll],
                          [flow |-> flow, answer |-> D!Poll]}
  BY <1>5 DEF D!PollFlow
<1> HIDE DEF Next1, Longer
<1>9. /\ D!PollFlow(flow).flow \in AfterPoll(Next1, Longer)
      /\ D!PollFlow(flow).answer \in {"bound", "expired_token", "slow_down", "authorization_pending", "access_denied"}
  BY <1>6, <1>8 DEF AfterPoll
<1> QED BY <1>1, <1>7, <1>9, FlowAfterPoll

SessionRows == Seq([active : BOOLEAN, expires : Nat])

\* What the service makes of the request m, whatever state the client is in.
DeviceServes(m, a) == CASE m.kind = "begin"  -> D!Begin(m, a)
                  [] m.kind = "revoke" -> D!Revoke(m, a)
                  [] OTHER             -> D!Token(m, a)

\* The flow and the sessions stay as they are, but for the pace of the polls.
FlowKept == /\ flow' # None /\ flow'.refresh = flow.refresh /\ flow'.response = flow.response

\* The request hands out the next session.
SessionIssued(m, a) ==
    /\ flow' # None /\ m.kind # "begin" /\ m.kind # "revoke" /\ m.credential = flow.refresh /\ flow'.refresh = flow.refresh + 1
    /\ flow'.response = [request |-> m.request, credential |-> m.credential, session |-> flow'.refresh]
    /\ a = D!Hand(flow'.refresh)

ServiceKept(m, a) ==
    /\ flow' \in D!Flow \cup {None} /\ bearers' \in SessionRows /\ LastSession'
    /\ flow = None => flow' = None \/ (flow'.refresh = 0 /\ flow'.response = None)
    /\ flow # None => FlowKept \/ SessionIssued(m, a)
    /\ flow # None /\ flow.revoked => flow'.revoked
    /\ a = D!Say("revoked") => flow' # None /\ flow'.revoked
    /\ \A i \in 1 .. MaxSessions : a = D!Hand(i) =>
           /\ m.kind # "begin" /\ m.kind # "revoke" /\ flow' # None /\ flow'.refresh = i
           /\ flow'.response # None /\ flow'.response.request = m.request /\ flow'.response.credential = m.credential

\* A denial, or an answer that is repeated, leaves everything as it is.
LEMMA Denials ==
    ASSUME D!Bounds, DeviceInv, NEW m, NEW a, D!Denied, flow # None, a # D!Say("revoked") \/ flow.revoked,
           \A i \in 1 .. MaxSessions : a = D!Hand(i) =>
               /\ m.kind # "begin" /\ m.kind # "revoke" /\ flow.refresh = i
               /\ flow.response # None /\ flow.response.request = m.request /\ flow.response.credential = m.credential
    PROVE  ServiceKept(m, a)
BY DEF D!Denied, ServiceKept, FlowKept, DeviceInv, DeviceTyped, LastSession, SessionRows

LEMMA DenialsOfNoFlow ==
    ASSUME D!Bounds, DeviceInv, NEW m, NEW a, D!Denied, flow = None, a # D!Say("revoked"), \A i : a # D!Hand(i)
    PROVE  ServiceKept(m, a)
BY DEF D!Denied, ServiceKept, FlowKept, DeviceInv, DeviceTyped, LastSession, SessionRows

\* Sessions that are revoked are sessions.
Revoked(S) == [i \in 1 .. Len(bearers) |-> [bearers[i] EXCEPT !.active = @ /\ i \notin S]]

LEMMA RevokedAre ==
    ASSUME bearers \in SessionRows, NEW S
    PROVE  /\ Revoked(S) \in SessionRows /\ Len(Revoked(S)) = Len(bearers)
           /\ \A i \in 1 .. Len(bearers) : Revoked(S)[i].active => bearers[i].active /\ i \notin S
<1> DEFINE Bearer == [active : BOOLEAN, expires : Nat]
<1>1. ASSUME NEW i \in 1 .. Len(bearers)
      PROVE  /\ [bearers[i] EXCEPT !.active = @ /\ i \notin S] \in Bearer
             /\ [bearers[i] EXCEPT !.active = @ /\ i \notin S].active => bearers[i].active /\ i \notin S
  <2>1. bearers[i] \in Bearer
    <3>1. bearers \in Seq(Bearer)
      BY DEF SessionRows
    <3> HIDE DEF Bearer
    <3> QED BY <3>1
  <2>2. (bearers[i].active /\ i \notin S) \in BOOLEAN
    OBVIOUS
  <2>3. \A b \in BOOLEAN : [bearers[i] EXCEPT !.active = b] \in Bearer /\ [bearers[i] EXCEPT !.active = b].active = b
    BY <2>1
  <2> QED BY <2>2, <2>3
<1>2. Revoked(S) \in [1 .. Len(bearers) -> Bearer]
  BY <1>1 DEF Revoked
<1>3. Len(bearers) \in Nat
  BY DEF SessionRows
<1>4. Revoked(S) \in SessionRows /\ Len(Revoked(S)) = Len(bearers)
  BY <1>2, <1>3 DEF SessionRows
<1>5. \A i \in 1 .. Len(bearers) : Revoked(S)[i] = [bearers[i] EXCEPT !.active = @ /\ i \notin S]
  BY DEF Revoked
<1> QED BY <1>1, <1>4, <1>5

LEMMA BeginOf ==
    ASSUME D!Bounds, DeviceInv, NEW m, NEW a, D!Begin(m, a)
    PROVE  ServiceKept(m, a)
<1>1. a # D!Say("revoked") /\ \A i : a # D!Hand(i)
  BY AnswersApart DEF D!Begin
<1>2. CASE flow # None
  BY <1>1, <1>2, Denials DEF D!Begin, D!CreateAuth, D!Denied
<1>3. CASE flow = None
  <2>1. /\ flow' = D!CreateAuth /\ flow' \in D!Flow /\ flow' # None /\ flow'.refresh = 0 /\ flow'.response = None
        /\ flow'.sessions = {} /\ ~ flow'.revoked
    <3>1. time + Window \in Nat
      BY DEF DeviceInv, DeviceTyped, D!Bounds
    <3>2. /\ flow' = D!CreateAuth
          /\ flow' = [expires |-> time + Window, nextPoll |-> 0, interval |-> 1, account |-> None, revoked |-> FALSE,
                      revokeRequest |-> None, refresh |-> 0, response |-> None, sessions |-> {}]
      BY <1>3 DEF D!Begin, D!CreateAuth
    <3>3. flow' \in D!Flow
      BY <3>1, <3>2 DEF D!Flow
    <3>4. /\ flow'.refresh = 0 /\ flow'.response = None /\ flow'.sessions = {} /\ ~ flow'.revoked
      BY <3>2
    <3>5. flow' # None
      BY <3>3, NoneApart
    <3> QED BY <3>2, <3>3, <3>4, <3>5
  <2>2. bearers' = bearers /\ bearers = <<>>
    BY <1>3 DEF D!Begin, DeviceInv, LastSession
  <2>3. bearers' \in SessionRows
    BY <2>2 DEF DeviceInv, DeviceTyped, SessionRows
  <2>4. LastSession'
    BY <2>1, <2>2 DEF LastSession
  <2> QED BY <1>1, <1>3, <2>1, <2>3, <2>4 DEF ServiceKept
<1> QED BY <1>2, <1>3

LEMMA RevokeOf ==
    ASSUME D!Bounds, DeviceInv, NEW m \in DeviceRequests, NEW a, m.kind = "revoke", D!Revoke(m, a)
    PROVE  ServiceKept(m, a)
<1>1. /\ D!Say("access_denied") # D!Say("revoked") /\ \A i : D!Say("access_denied") # D!Hand(i) /\ D!Say("revoked") # D!Hand(i)
  BY AnswersApart
<1>2. CASE flow = None
  BY <1>1, <1>2, DenialsOfNoFlow DEF D!Revoke
<1>3. CASE flow # None /\ (flow.revoked \/ m.credential # flow.refresh)
  BY <1>1, <1>3, Denials DEF D!Revoke
<1>4. CASE flow # None /\ ~ flow.revoked /\ m.credential = flow.refresh
  <2>1. /\ a = D!Say("revoked") /\ flow' = [flow EXCEPT !.revoked = TRUE, !.revokeRequest = m.request]
        /\ bearers' = Revoked(flow.sessions)
    BY <1>4 DEF D!Revoke, Revoked
  <2>2. flow \in D!Flow /\ m.request \in Nat
    BY <1>4 DEF DeviceInv, DeviceTyped, DeviceRequests
  <2>3. /\ flow' \in D!Flow /\ flow'.refresh = flow.refresh /\ flow'.response = flow.response /\ flow'.sessions = flow.sessions
        /\ flow'.revoked
    BY <2>1, <2>2 DEF D!Flow
  <2>4. /\ bearers' \in SessionRows /\ Len(bearers') = Len(bearers)
        /\ \A i \in 1 .. Len(bearers) : bearers'[i].active => bearers[i].active /\ i \notin flow.sessions
    BY <2>1, RevokedAre DEF SessionRows, DeviceInv, DeviceTyped
  <2>5. flow' # None
    BY <2>3, NoneApart
  <2>6. LastSession'
    BY <1>4, <2>3, <2>4, <2>5 DEF LastSession, DeviceInv
  <2> QED BY <1>1, <1>4, <2>1, <2>3, <2>4, <2>5, <2>6 DEF ServiceKept, FlowKept
<1> QED BY <1>2, <1>3, <1>4

LEMMA FlowAfterIssue ==
    ASSUME NEW f \in D!Flow, NEW i \in Nat, NEW r \in D!Response
    PROVE  [f EXCEPT !.refresh = i, !.sessions = {i}, !.response = r] \in D!Flow
BY DEF D!Flow

LEMMA IssueOf ==
    ASSUME D!Bounds, DeviceInv, NEW m \in DeviceRequests, NEW a, NEW f \in D!Flow, flow # None, ~ flow.revoked, m.kind # "begin", m.kind # "revoke",
           f.refresh = flow.refresh, f.response = flow.response, f.sessions = flow.sessions, f.revoked = flow.revoked,
           m.credential = flow.refresh, a = D!Hand(Len(bearers) + 1), D!Issue(f, m)
    PROVE  ServiceKept(m, a)
<1> DEFINE n == Len(bearers) + 1
           resp == [request |-> m.request, credential |-> m.credential, session |-> n]
           cut == Revoked(f.sessions)
           new == [active |-> TRUE, expires |-> time + Lifetime]
<1>1. bearers \in SessionRows /\ time \in Nat /\ Lifetime \in Nat /\ m.request \in Nat /\ m.credential \in Nat /\ Len(bearers) \in Nat
  BY DEF DeviceInv, DeviceTyped, SessionRows, D!Bounds, DeviceRequests
<1>2. cut \in SessionRows /\ Len(cut) = Len(bearers)
      /\ \A i \in 1 .. Len(bearers) : cut[i].active => bearers[i].active /\ i \notin f.sessions
  BY <1>1, RevokedAre
<1>3. new \in [active : BOOLEAN, expires : Nat] /\ bearers' = Append(cut, new)
  BY <1>1 DEF D!Issue, Revoked
<1>4. /\ bearers' \in SessionRows /\ Len(bearers') = n
      /\ \A i \in 1 .. Len(bearers) : bearers'[i] = cut[i]
  <2> HIDE DEF cut, new
  <2> QED BY <1>2, <1>3 DEF SessionRows
<1>5. resp \in D!Response
  BY <1>1 DEF D!Response
<1>6. flow' = [f EXCEPT !.refresh = n, !.sessions = {n}, !.response = resp]
  BY DEF D!Issue
<1>7. /\ flow' \in D!Flow /\ flow'.refresh = n /\ flow'.sessions = {n} /\ flow'.response = resp /\ flow'.revoked = f.revoked
  <2> HIDE DEF resp
  <2>1. n \in Nat
    BY <1>1
  <2>3. flow' \in D!Flow
    BY <1>5, <1>6, <2>1, FlowAfterIssue, Zenon
  <2> QED BY <1>6, <2>3 DEF D!Flow
<1>8. flow' # None /\ resp # None
  BY <1>5, <1>7, NoneApart
<1>9. flow.refresh = Len(bearers) /\ \A i \in 1 .. Len(bearers) : bearers[i].active => i \in flow.sessions
  BY DEF DeviceInv, LastSession
<1>10. \A i \in 1 .. n : bearers'[i].active => i = n
  <2>1. ASSUME NEW i \in 1 .. Len(bearers) PROVE ~ bearers'[i].active
    BY <1>2, <1>4, <1>9, <2>1
  <2>2. \A i \in 1 .. n : i = n \/ i \in 1 .. Len(bearers)
    BY <1>1
  <2> QED BY <2>1, <2>2
<1>11. resp.session = n /\ resp.credential < n /\ resp.request = m.request /\ resp.credential = m.credential
  BY <1>1, <1>9
<1>12. LastSession'
  <2> HIDE DEF resp, cut, new
  <2> QED BY <1>1, <1>4, <1>7, <1>8, <1>10, <1>11 DEF LastSession
<1>13. SessionIssued(m, a)
  BY <1>7, <1>8, <1>9 DEF SessionIssued
<1>14. \A i : a = D!Hand(i) => i = n
  BY AnswersApart
<1>15. a # D!Say("revoked")
  BY AnswersApart
<1> HIDE DEF n, resp, cut, new
<1> QED BY <1>4, <1>7, <1>8, <1>11, <1>12, <1>13, <1>14, <1>15 DEF ServiceKept

\* The codes of a request that is refused, or asked to come again.
LEMMA RefusalsApart ==
    \A x \in {"access_denied", "expired_token", "slow_down", "authorization_pending"} :
        D!Say(x) # D!Say("revoked") /\ \A i : D!Say(x) # D!Hand(i)
<1>1. ASSUME NEW x \in {"access_denied", "expired_token", "slow_down", "authorization_pending"}
      PROVE  x # "revoked" /\ x # "ok"
  BY <1>1
<1> QED BY <1>1, AnswersApart

LEMMA TokenOf ==
    ASSUME D!Bounds, DeviceInv, NEW m \in DeviceRequests, NEW a, m.kind # "begin", m.kind # "revoke", D!Token(m, a)
    PROVE  ServiceKept(m, a)
<1> DEFINE polled == IF m.kind = "poll" THEN D!PollFlow(flow) ELSE [flow |-> flow, answer |-> "bound"]
           f == polled.flow
<1>1. CASE D!Refused(m)
  <2>1. a = D!Say("access_denied") /\ D!Denied
    BY <1>1 DEF D!Token
  <2> QED BY <2>1, RefusalsApart, Denials, DenialsOfNoFlow
<1>2. CASE ~ D!Refused(m) /\ flow.response # None /\ flow.response.request = m.request
  <2>1. a = D!Replay(m) /\ D!Denied /\ flow # None
    BY <1>2 DEF D!Token, D!Refused
  <2>2. CASE flow.response.credential = m.credential /\ D!Who(flow.response.session)
    <3>1. a = D!Hand(flow.response.session) /\ flow.response.session = flow.refresh
      BY <1>2, <2>1, <2>2 DEF D!Replay, DeviceInv, LastSession
    <3>2. a # D!Say("revoked") /\ \A i : a = D!Hand(i) => flow.refresh = i
      BY <3>1, AnswersApart
    <3> QED BY <1>2, <2>1, <2>2, <3>2, Denials
  <2>3. CASE ~ (flow.response.credential = m.credential /\ D!Who(flow.response.session))
    BY <2>1, <2>3, RefusalsApart, Denials DEF D!Replay
  <2> QED BY <2>2, <2>3
<1>3. CASE ~ D!Refused(m) /\ ~ (flow.response # None /\ flow.response.request = m.request)
  <2>1. flow # None /\ ~ flow.revoked
    BY <1>3 DEF D!Refused
  <2>2. CASE m.credential # flow.refresh
    BY <1>3, <2>1, <2>2, RefusalsApart, Denials DEF D!Token
  <2>3. CASE m.credential = flow.refresh
    <3>1. /\ f \in D!Flow /\ f.refresh = flow.refresh /\ f.response = flow.response /\ f.sessions = flow.sessions
          /\ f.revoked = flow.revoked
          /\ polled.answer # "bound" => polled.answer \in {"expired_token", "slow_down", "authorization_pending", "access_denied"}
      <4>1. CASE m.kind = "poll"
        BY <2>1, <4>1, PollsOf
      <4>2. CASE m.kind # "poll"
        BY <2>1, <4>2 DEF DeviceInv, DeviceTyped
      <4> QED BY <4>1, <4>2
    <3>2. IF polled.answer # "bound" THEN a = D!Say(polled.answer) /\ flow' = f /\ UNCHANGED bearers
          ELSE IF "member" \notin standing \/ ~ D!registerAuthDevice THEN a = D!Say("access_denied") /\ D!Denied
          ELSE a = D!Hand(Len(bearers) + 1) /\ D!Issue(f, m)
      BY <1>3, <2>3 DEF D!Token
    <3> HIDE DEF polled, f
    <3>3. CASE polled.answer # "bound"
      <4>1. a = D!Say(polled.answer) /\ flow' = f /\ bearers' = bearers
        BY <3>2, <3>3
      <4>2. a # D!Say("revoked") /\ \A i : a # D!Hand(i)
        BY <3>1, <3>3, <4>1, RefusalsApart
      <4>3. flow' # None
        BY <3>1, <4>1, NoneApart
      <4> QED BY <2>1, <3>1, <4>1, <4>2, <4>3 DEF ServiceKept, FlowKept, DeviceInv, DeviceTyped, LastSession, SessionRows
    <3>4. CASE polled.answer = "bound" /\ ("member" \notin standing \/ ~ D!registerAuthDevice)
      BY <2>1, <3>2, <3>4, RefusalsApart, Denials
    <3>5. CASE polled.answer = "bound" /\ ~ ("member" \notin standing \/ ~ D!registerAuthDevice)
      BY <2>1, <2>3, <3>1, <3>2, <3>5, IssueOf
    <3> QED BY <3>3, <3>4, <3>5
  <2> QED BY <2>2, <2>3
<1> QED BY <1>1, <1>2, <1>3

LEMMA ServiceOf ==
    ASSUME D!Bounds, DeviceInv, NEW m \in DeviceRequests, NEW a, DeviceServes(m, a)
    PROVE  ServiceKept(m, a)
BY BeginOf, RevokeOf, TokenOf DEF DeviceServes

\* A request that is handled leaves the device with what is current, or with the
\* request that is replayed: only the refresh of what it holds goes further.
LEMMA HandleKeeps ==
    ASSUME D!Bounds, DeviceInv, NEW m \in net, D!Handle(m)
    PROVE  DeviceInv'
<1>1. PICK a \in D!Answers :
          /\ DeviceServes(m, a)
          /\ proc' \in {proc, IF proc[m.from].op \in {"login", "refresh", "logout"} /\ proc[m.from].request = m.request
                                 /\ proc[m.from].answer = None /\ proc[m.from].at = m.kind
                              THEN [proc EXCEPT ![m.from].answer = a] ELSE proc}
  BY DEF D!Handle, DeviceServes
<1>2. m \in DeviceRequests /\ m.from = Agent
  BY OneProcess DEF DeviceInv, DeviceTyped, DeviceRequests
<1>3. ServiceKept(m, a)
  BY <1>1, <1>2, ServiceOf
<1>4. /\ net' \subseteq net /\ time' = time /\ keychain' = keychain /\ metadata' = metadata /\ asks' = asks
  BY DEF D!Handle, D!local
<1>5. \/ proc' = proc
      \/ /\ ClientStep.op \in {"login", "refresh", "logout"} /\ ClientStep.request = m.request /\ ClientStep.at = m.kind
         /\ proc' = [proc EXCEPT ![Agent].answer = a]
  BY <1>1, <1>2 DEF ClientStep
<1>6. \/ ClientStep' = ClientStep
      \/ /\ ClientStep \in ClientWaits /\ ClientStep.request = m.request /\ ClientStep.at = m.kind
         /\ ClientStep' = [ClientStep EXCEPT !.answer = a]
  BY <1>5, WaitsOf, OneProcess DEF ClientStep, DeviceInv, DeviceTyped
<1>7. /\ ClientStep'.op = ClientStep.op /\ (ClientStep.op \in {"login", "refresh", "logout"} => ClientStep'.at = ClientStep.at /\ ClientStep'.request = ClientStep.request)
      /\ ClientStep.op = "store" => ClientStep' = ClientStep
      /\ ClientStep.op \in {"login", "refresh", "logout"} => ClientStep'.answer = ClientStep.answer \/ (ClientStep'.answer = a /\ ClientStep.request = m.request /\ ClientStep.at = m.kind)
  BY <1>6 DEF ClientWaits
<1>8. DeviceTyped'
  <2>1. proc' \in [Processes -> ClientWorks]
    <3>1. CASE proc' = proc
      BY <3>1 DEF DeviceInv, DeviceTyped
    <3>2. CASE ClientStep \in ClientWaits /\ proc' = [proc EXCEPT ![Agent].answer = a]
      <4>1. [ClientStep EXCEPT !.answer = a] \in ClientWorks
        BY <3>2 DEF ClientWaits, ClientWorks
      <4> QED BY <3>2, <4>1, OneProcess DEF DeviceInv, DeviceTyped, ClientStep
    <3> QED BY <1>5, <3>1, <3>2, WaitsOf DEF DeviceInv
  <2> QED BY <1>3, <1>4, <2>1 DEF DeviceInv, DeviceTyped, ServiceKept, SessionRows
<1>9. LastSession' /\ DrawnFirst'
  BY <1>3, <1>4 DEF ServiceKept, DeviceInv, DrawnFirst
<1>10. keychain # None => flow # None /\ keychain.refresh \in Nat \ {0} /\ flow.refresh \in Nat /\ keychain.refresh <= flow.refresh
  BY DEF DeviceInv, HoldsOrReplays, LastSession, DeviceTyped, D!Secret, D!Flow, D!Response
<1>11. m.kind # "begin" /\ m.kind # "revoke" => m.kind \in {"poll", "token"}
  BY <1>2 DEF DeviceRequests
<1>12. ASSUME keychain # None, SessionIssued(m, a)
       PROVE  m.kind = "token" /\ m.credential = keychain.refresh /\ m.request = keychain.pending
  BY <1>10, <1>11, <1>12, <1>2 DEF SessionIssued, DeviceInv, DrawnFirst, NoneAhead, DeviceRequests
<1>13. HoldsOrReplays'
  <2>1. ASSUME keychain # None PROVE FlowKept \/ SessionIssued(m, a)
    BY <1>3, <1>10, <2>1 DEF ServiceKept
  <2>2. CASE FlowKept
    BY <1>4, <2>2 DEF FlowKept, HoldsOrReplays, DeviceInv
  <2>3. CASE keychain # None /\ SessionIssued(m, a)
    <3>1. /\ flow' # None /\ flow'.response.credential = keychain.refresh /\ flow'.response.request = keychain.pending
          /\ flow'.refresh = flow.refresh + 1
      BY <1>12, <2>3 DEF SessionIssued
    <3>2. flow'.response # None
      BY <1>3, <1>10, <2>3, <3>1 DEF ServiceKept, LastSession
    <3> QED BY <1>4, <3>1, <3>2 DEF HoldsOrReplays
  <2> QED BY <1>4, <2>1, <2>2, <2>3 DEF HoldsOrReplays
<1>14. NoneAhead'
  BY <1>4 DEF NoneAhead, DeviceInv
<1>15. OfWhatItHolds'
  <2>1. ClientStep.op = "login" => /\ keychain' = None /\ \A x \in net' : x.kind \in {"begin", "poll"}
    BY <1>4 DEF DeviceInv, OfWhatItHolds
  <2>2. ASSUME ClientStep.op = "login", NEW i \in 1 .. MaxSessions, ClientStep'.answer = D!Hand(i) PROVE flow' # None /\ flow'.refresh = i
    <3>1. CASE ClientStep'.answer = a
      BY <1>3, <2>2, <3>1 DEF ServiceKept
    <3>2. CASE ClientStep'.answer = ClientStep.answer
      <4>1. flow # None /\ flow.refresh = i
        BY <2>2, <3>2 DEF DeviceInv, OfWhatItHolds
      <4>2. m.kind = "begin" \/ (m.kind = "poll" /\ m.credential = 0)
        BY <2>2 DEF DeviceInv, OfWhatItHolds, DrawnFirst
      <4>3. ~ SessionIssued(m, a)
        BY <4>1, <4>2 DEF SessionIssued
      <4> QED BY <1>3, <4>1, <4>3 DEF ServiceKept, FlowKept
    <3> QED BY <1>7, <2>2, <3>1, <3>2
  <2>3. ClientStep.op = "store" => /\ keychain' # None /\ ClientStep'.secret = keychain'
                                   /\ IF keychain'.pending = None THEN ClientStep'.id \in 1 .. asks' /\ \A x \in net' : x.request # ClientStep'.id
                                      ELSE ClientStep'.id = keychain'.pending
    BY <1>4, <1>7 DEF DeviceInv, OfWhatItHolds
  <2>4. ClientStep.op = "refresh" => keychain' # None /\ ClientStep'.request = keychain'.pending /\ ClientStep'.at = "token"
    BY <1>4, <1>7 DEF DeviceInv, OfWhatItHolds
  <2>5. ASSUME ClientStep.op = "refresh", NEW i \in 1 .. MaxSessions, ClientStep'.answer = D!Hand(i)
        PROVE  flow'.refresh = i /\ keychain.refresh < i
    <3>1. keychain # None /\ ClientStep.request = keychain.pending /\ ClientStep.at = "token"
      BY <2>5 DEF DeviceInv, OfWhatItHolds
    <3>2. CASE ClientStep'.answer = a /\ ClientStep.request = m.request /\ ClientStep.at = m.kind
      <4>1. flow' # None /\ flow'.refresh = i /\ flow'.response # None /\ flow'.response.credential = m.credential
        BY <1>3, <2>5, <3>2 DEF ServiceKept
      <4>2. m.credential = keychain.refresh
        BY <3>1, <3>2 DEF DeviceInv, NoneAhead
      <4>3. flow'.response.credential < flow'.refresh
        BY <1>9, <4>1 DEF LastSession
      <4> QED BY <4>1, <4>2, <4>3
    <3>3. CASE ClientStep'.answer = ClientStep.answer
      <4>1. flow.refresh = i /\ keychain.refresh < i
        BY <2>5, <3>3 DEF DeviceInv, OfWhatItHolds
      <4>2. ~ SessionIssued(m, a)
        BY <1>10, <1>12, <3>1, <4>1 DEF SessionIssued
      <4> QED BY <1>3, <1>10, <3>1, <4>1, <4>2 DEF ServiceKept, FlowKept
    <3> QED BY <1>7, <2>5, <3>2, <3>3
  <2>6. ClientStep.op = "logout" => ClientStep'.at = "revoke"
    BY <1>7 DEF DeviceInv, OfWhatItHolds
  <2>7. ClientStep'.op = "logged_out" \/ (ClientStep'.op = "logout" /\ ClientStep'.answer = D!Say("revoked")) => flow' # None /\ flow'.revoked
    <3>1. flow # None /\ flow.revoked => flow' # None /\ flow'.revoked
      BY <1>3 DEF ServiceKept, FlowKept, SessionIssued
    <3> QED BY <1>3, <1>7, <3>1 DEF DeviceInv, OfWhatItHolds, ServiceKept
  <2>8. keychain' # None \/ ClientStep'.op = "login" => asks' >= 2
    BY <1>4, <1>7 DEF DeviceInv, OfWhatItHolds
  <2> QED BY <1>4, <1>7, <2>1, <2>2, <2>3, <2>4, <2>5, <2>6, <2>7, <2>8 DEF OfWhatItHolds
<1> QED BY <1>8, <1>9, <1>13, <1>14, <1>15 DEF DeviceInv

\* A step that leaves the service, the network and the client alone.
LEMMA ElsewhereKeeps ==
    ASSUME DeviceInv, time' \in Nat, UNCHANGED <<flow, bearers, net, keychain, proc, asks>>
    PROVE  DeviceInv'
BY DEF DeviceInv, DeviceTyped, LastSession, DrawnFirst, HoldsOrReplays, NoneAhead, OfWhatItHolds, ClientStep

\* A step of the client that changes neither what it holds nor what is asked.
LEMMA TurnKeeps ==
    ASSUME DeviceInv, UNCHANGED <<time, flow, bearers, net, keychain>>, asks' \in Nat, asks <= asks',
           NEW x \in ClientWorks, proc' = [proc EXCEPT ![Agent] = x],
           x.op \in {"store", "idle", "logged_out", "remote_revoke_unknown"},
           x.op = "store" => /\ keychain # None /\ x.secret = keychain
                             /\ IF keychain.pending = None THEN x.id \in 1 .. asks' /\ \A m \in net : m.request # x.id
                                ELSE x.id = keychain.pending,
           x.op = "logged_out" => flow # None /\ flow.revoked
    PROVE  DeviceInv'
<1>1. ClientStep' = x
  BY OneProcess DEF ClientStep, DeviceInv, DeviceTyped
<1>2. DeviceTyped'
  BY DEF DeviceInv, DeviceTyped
<1>3. DrawnFirst'
  <2>1. \A r \in 1 .. asks : r \in 1 .. asks'
    BY DEF DeviceInv, DeviceTyped
  <2>2. net' = net /\ keychain' = keychain
    OBVIOUS
  <2> QED BY <2>1, <2>2 DEF DeviceInv, DrawnFirst
<1>4. keychain # None => asks >= 2 /\ asks \in Nat
  BY DEF DeviceInv, DeviceTyped, OfWhatItHolds
<1>5. OfWhatItHolds'
  BY <1>1, <1>4 DEF OfWhatItHolds
<1> QED BY <1>2, <1>3, <1>5 DEF DeviceInv, LastSession, HoldsOrReplays, NoneAhead

LEMMA IdleIsWork == D!Idle \in ClientWorks /\ D!Idle.op = "idle"
BY DEF D!Idle, ClientWorks

\* What Send puts on the network.
LEMMA SendOf ==
    ASSUME DeviceInv, NEW o \in {"login", "refresh", "logout"}, NEW k \in {"begin", "poll", "token", "revoke"},
           NEW c \in Nat, NEW r \in Nat, NEW t \in Nat, D!Send(Agent, o, k, c, r, t)
    PROVE  /\ net' = net \cup {[kind |-> k, from |-> Agent, credential |-> c, request |-> r]}
           /\ net' \subseteq DeviceRequests /\ proc' \in [Processes -> ClientWorks]
           /\ ClientStep' = [op |-> o, at |-> k, request |-> r, answer |-> None, started |-> t]
<1> DEFINE x == [op |-> o, at |-> k, request |-> r, answer |-> None, started |-> t]
<1>1. x \in ClientWorks
  BY DEF ClientWorks, ClientWaits
<1>2. proc' = [proc EXCEPT ![Agent] = x] /\ net' = net \cup {[kind |-> k, from |-> Agent, credential |-> c, request |-> r]}
  BY DEF D!Send
<1>3. [kind |-> k, from |-> Agent, credential |-> c, request |-> r] \in DeviceRequests
  BY OneProcess DEF DeviceRequests
<1> HIDE DEF x
<1>4. proc' \in [Processes -> ClientWorks] /\ ClientStep' = x
  BY <1>1, <1>2, OneProcess DEF ClientStep, DeviceInv, DeviceTyped
<1>5. net' \subseteq DeviceRequests
  BY <1>2, <1>3 DEF DeviceInv, DeviceTyped
<1> QED BY <1>2, <1>4, <1>5 DEF x

\* No answer yet is not an answer.
LEMMA NoneIsNoAnswer ==
    ASSUME D!Bounds
    PROVE  /\ \A i \in 1 .. MaxSessions : None # D!Hand(i)
           /\ None # D!Say("revoked")
<1>1. D!Say("revoked") \in D!Answers /\ \A i \in 1 .. MaxSessions : D!Hand(i) \in D!Answers
  BY DEF D!Answers
<1> QED BY <1>1, NoneApart

LEMMA LoginKeeps ==
    ASSUME D!Bounds, DeviceInv, D!Login(Agent)
    PROVE  DeviceInv'
<1>1. ClientStep.op = "idle" /\ asks = 0 /\ asks' = 2
  BY DEF D!Login, D!Idle, ClientStep
<1>2. net = {}
  BY <1>1 DEF DeviceInv, DrawnFirst
<1>3. UNCHANGED <<time, flow, bearers, keychain>> /\ time \in Nat
  BY DEF D!Login, D!server, D!local, DeviceInv, DeviceTyped
<1>4. /\ net' = net \cup {[kind |-> "begin", from |-> Agent, credential |-> 0, request |-> 1]}
      /\ net' \subseteq DeviceRequests /\ proc' \in [Processes -> ClientWorks]
      /\ ClientStep' = [op |-> "login", at |-> "begin", request |-> 1, answer |-> None, started |-> time]
  BY <1>3, SendOf DEF D!Login
<1>5. keychain = None
  BY <1>1 DEF DeviceInv, OfWhatItHolds
<1>6. DeviceTyped'
  BY <1>1, <1>3, <1>4 DEF DeviceInv, DeviceTyped
<1>7. DrawnFirst'
  BY <1>1, <1>2, <1>3, <1>4, <1>5 DEF DrawnFirst
<1>8. OfWhatItHolds'
  BY <1>1, <1>2, <1>3, <1>4, <1>5, NoneIsNoAnswer DEF OfWhatItHolds
<1> QED BY <1>3, <1>5, <1>6, <1>7, <1>8 DEF DeviceInv, LastSession, HoldsOrReplays, NoneAhead

LEMMA PollAgainKeeps ==
    ASSUME D!Bounds, DeviceInv, D!PollAgain(Agent)
    PROVE  DeviceInv'
<1>1. ClientStep.op = "login" /\ UNCHANGED <<time, flow, bearers, keychain, asks>> /\ time \in Nat
  BY DEF D!PollAgain, D!server, D!local, ClientStep, DeviceInv, DeviceTyped
<1>2. /\ net' = net \cup {[kind |-> "poll", from |-> Agent, credential |-> 0, request |-> 2]}
      /\ net' \subseteq DeviceRequests /\ proc' \in [Processes -> ClientWorks]
      /\ ClientStep' = [op |-> "login", at |-> "poll", request |-> 2, answer |-> None, started |-> time]
  BY <1>1, SendOf DEF D!PollAgain
<1>3. keychain = None /\ asks >= 2 /\ \A m \in net : m.kind \in {"begin", "poll"}
  BY <1>1 DEF DeviceInv, OfWhatItHolds
<1>4. DeviceTyped'
  BY <1>1, <1>2 DEF DeviceInv, DeviceTyped
<1>5. DrawnFirst'
  BY <1>1, <1>2, <1>3 DEF DrawnFirst, DeviceInv, DeviceTyped
<1>6. OfWhatItHolds'
  BY <1>1, <1>2, <1>3, NoneIsNoAnswer DEF OfWhatItHolds
<1> QED BY <1>1, <1>3, <1>4, <1>5, <1>6 DEF DeviceInv, LastSession, HoldsOrReplays, NoneAhead

LEMMA AuthenticateKeeps ==
    ASSUME D!Bounds, DeviceInv, D!Authenticate(Agent)
    PROVE  DeviceInv'
<1> DEFINE x == [op |-> "store", secret |-> keychain, id |-> IF keychain.pending = None THEN asks + 1 ELSE keychain.pending]
<1>1. /\ UNCHANGED <<time, flow, bearers, net, keychain>> /\ keychain # None /\ keychain \in D!Secret /\ asks \in Nat
      /\ IF keychain.pending = None /\ time < keychain.expires THEN UNCHANGED <<proc, asks>>
         ELSE /\ proc' = [proc EXCEPT ![Agent] = x]
              /\ IF keychain.pending = None THEN asks' = asks + 1 ELSE UNCHANGED asks
  BY DEF D!Authenticate, D!credentials, D!server, DeviceInv, DeviceTyped
<1>2. keychain.pending \in Nat \cup {None}
  BY <1>1 DEF D!Secret
<1>3. x \in ClientWorks /\ x.op = "store" /\ x.secret = keychain
      /\ x.id = IF keychain.pending = None THEN asks + 1 ELSE keychain.pending
  BY <1>1, <1>2 DEF ClientWorks
<1>4. \A m \in net : m.request \in Nat /\ m.request <= asks
  BY DEF DeviceInv, DrawnFirst
<1> HIDE DEF x
<1>5. CASE keychain.pending = None /\ time < keychain.expires
  <2>1. time' \in Nat
    BY <1>1 DEF DeviceInv, DeviceTyped
  <2> QED BY <1>1, <1>5, <2>1, ElsewhereKeeps
<1>6. CASE keychain.pending = None /\ ~ (time < keychain.expires)
  <2>1. /\ proc' = [proc EXCEPT ![Agent] = x] /\ asks' = asks + 1 /\ x.id = asks'
    BY <1>1, <1>3, <1>6
  <2>2. x.id \in 1 .. asks' /\ \A m \in net : m.request # x.id
    BY <1>1, <1>4, <2>1
  <2>3. x.op = "store" => /\ keychain # None /\ x.secret = keychain
                          /\ IF keychain.pending = None THEN x.id \in 1 .. asks' /\ \A m \in net : m.request # x.id
                             ELSE x.id = keychain.pending
    BY <1>1, <1>3, <1>6, <2>2
  <2>4. asks' \in Nat /\ asks <= asks' /\ x.op # "logged_out"
    BY <1>1, <1>3, <2>1
  <2> QED BY <1>1, <1>3, <2>1, <2>3, <2>4, TurnKeeps
<1>7. CASE keychain.pending # None
  <2>1. /\ proc' = [proc EXCEPT ![Agent] = x] /\ asks' = asks /\ x.id = keychain.pending
    BY <1>1, <1>3, <1>7
  <2>2. x.op = "store" => /\ keychain # None /\ x.secret = keychain
                          /\ IF keychain.pending = None THEN x.id \in 1 .. asks' /\ \A m \in net : m.request # x.id
                             ELSE x.id = keychain.pending
    BY <1>1, <1>3, <1>7, <2>1
  <2>3. asks' \in Nat /\ asks <= asks' /\ x.op # "logged_out"
    BY <1>1, <1>3, <2>1
  <2> QED BY <1>1, <1>3, <2>1, <2>2, <2>3, TurnKeeps
<1> QED BY <1>5, <1>6, <1>7

\* The id is stored with the credentials before the request is sent, and is
\* nobody else's.
LEMMA SendRefreshKeeps ==
    ASSUME D!Bounds, DeviceInv, D!SendRefresh(Agent)
    PROVE  DeviceInv'
<1> DEFINE id == ClientStep.id
           secret == IF keychain.pending = None THEN D!Pending(keychain, id) ELSE keychain
<1>1. /\ ClientStep.op = "store" /\ ClientStep.secret = keychain /\ keychain # None /\ keychain \in D!Secret /\ asks \in Nat /\ time \in Nat
      /\ UNCHANGED <<time, flow, bearers, asks>>
  BY DEF D!SendRefresh, ClientStep, D!server, DeviceInv, DeviceTyped, OfWhatItHolds
<1>2. /\ keychain' = secret
      /\ D!Send(Agent, "refresh", "token", secret.refresh, id, IF secret.pending = None THEN time ELSE secret.at)
  BY <1>1 DEF D!SendRefresh, ClientStep
<1>3. /\ id \in Nat /\ (keychain.pending # None => id = keychain.pending)
      /\ keychain.pending = None => id \in 1 .. asks /\ \A m \in net : m.request # id
  BY <1>1, WaitsOf DEF DeviceInv, OfWhatItHolds
<1>4. /\ secret \in D!Secret /\ secret.refresh = keychain.refresh /\ secret.pending = id /\ secret.at \in Nat
      /\ keychain.refresh \in Nat \ {0}
  BY <1>1, <1>3 DEF D!Pending, D!Secret
<1>5. secret # None
  BY <1>4, NoneApart
<1>6. id \in 1 .. asks
  <2>1. keychain.pending \in 1 .. asks \cup {None}
    BY <1>1 DEF DeviceInv, DrawnFirst
  <2> QED BY <1>3, <2>1
<1> HIDE DEF id, secret
<1>7. /\ net' = net \cup {[kind |-> "token", from |-> Agent, credential |-> keychain.refresh, request |-> id]}
      /\ net' \subseteq DeviceRequests /\ proc' \in [Processes -> ClientWorks]
      /\ ClientStep'.op = "refresh" /\ ClientStep'.at = "token" /\ ClientStep'.request = id /\ ClientStep'.answer = None
  <2>1. (IF secret.pending = None THEN time ELSE secret.at) \in Nat
    BY <1>1, <1>4
  <2> QED BY <1>2, <1>3, <1>4, <2>1, SendOf
<1>8. DeviceTyped'
  BY <1>1, <1>2, <1>4, <1>7 DEF DeviceInv, DeviceTyped
<1>9. DrawnFirst'
  <2>1. keychain'.pending = id /\ asks' = asks
    BY <1>1, <1>2, <1>4
  <2>2. \A m \in net' : m.request \in 1 .. asks /\ (m.kind \in {"begin", "poll"} => m.credential = 0)
    BY <1>6, <1>7 DEF DeviceInv, DrawnFirst
  <2> QED BY <1>6, <2>1, <2>2 DEF DrawnFirst
<1>10. HoldsOrReplays'
  <2>1. flow # None /\ flow.response # None => flow.response.request # None
    BY NoneApart DEF DeviceInv, DeviceTyped, D!Flow, D!Response
  <2> QED BY <1>1, <1>2, <1>3, <1>4, <2>1 DEF DeviceInv, HoldsOrReplays
<1>11. NoneAhead'
  <2>1. ASSUME NEW m \in net, m.kind = "token"
        PROVE  m.credential <= keychain.refresh /\ (m.credential = keychain.refresh <=> m.request = id)
    <3>1. m.request \in Nat /\ m.request # None
      BY NoneApart DEF DeviceInv, DeviceTyped, DeviceRequests
    <3>2. m.credential <= keychain.refresh /\ (m.credential = keychain.refresh <=> m.request = keychain.pending)
      BY <1>1, <2>1 DEF DeviceInv, NoneAhead
    <3> QED BY <1>3, <3>1, <3>2
  <2> QED BY <1>2, <1>4, <1>7, <2>1 DEF NoneAhead
<1>12. OfWhatItHolds'
  BY <1>1, <1>2, <1>4, <1>5, <1>7, NoneIsNoAnswer DEF DeviceInv, OfWhatItHolds
<1> QED BY <1>1, <1>8, <1>9, <1>10, <1>11, <1>12 DEF DeviceInv, LastSession

LEMMA InstallKeeps ==
    ASSUME D!Bounds, DeviceInv, D!Install(Agent)
    PROVE  DeviceInv'
<1>1. /\ ClientStep.op \in {"login", "refresh"} /\ ClientStep \in ClientWaits /\ ClientStep.answer # None /\ ClientStep.answer.code = "ok"
      /\ UNCHANGED <<time, flow, bearers, net, asks>> /\ time \in Nat /\ asks \in Nat
  BY WaitsOf DEF D!Install, D!server, ClientStep, DeviceInv, DeviceTyped
<1>2. PICK i \in 1 .. MaxSessions : ClientStep.answer = D!Hand(i)
  <2>1. ClientStep.answer \in D!Answers
    BY <1>1 DEF ClientWaits
  <2>2. \A x \in {"begun", "revoked", "access_denied", "expired_token", "slow_down", "authorization_pending"} : D!Say(x).code # "ok"
    BY DEF D!Say
  <2> QED BY <1>1, <2>1, <2>2 DEF D!Answers
<1> DEFINE limit == ClientStep.started + Lifetime - Safety
           k == [refresh |-> i, access |-> i, pending |-> None, at |-> 0, expires |-> limit]
<1>3. limit \in Nat /\ i \in Nat \ {0} /\ ClientStep.answer.session = i
  BY <1>1, <1>2 DEF ClientWaits, D!Bounds, D!Hand
<1>4. CASE ~ (time < limit)
  <2>1. keychain' = keychain /\ proc' = [proc EXCEPT ![Agent] = D!Idle]
    BY <1>4 DEF D!Install, ClientStep
  <2>2. UNCHANGED <<time, flow, bearers, net, keychain>> /\ asks' \in Nat /\ asks <= asks'
    BY <1>1, <2>1
  <2>3. D!Idle.op # "store" /\ D!Idle.op # "logged_out"
    BY DEF D!Idle
  <2> QED BY <2>1, <2>2, <2>3, IdleIsWork, TurnKeeps
<1>5. CASE time < limit
  <2>1. keychain' = k /\ proc' = [proc EXCEPT ![Agent] = [op |-> "profile", expires |-> limit]]
    BY <1>3, <1>5 DEF D!Install, ClientStep
  <2>2. /\ k \in D!Secret /\ k.refresh = i /\ k.pending = None /\ [op |-> "profile", expires |-> limit] \in ClientWorks
    BY <1>3 DEF D!Secret, ClientWorks
  <2> HIDE DEF limit, k
  <2>3. k # None
    BY <2>2, NoneApart
  <2>4. ClientStep' = [op |-> "profile", expires |-> limit] /\ proc' \in [Processes -> ClientWorks]
    BY <2>1, <2>2, OneProcess DEF ClientStep, DeviceInv, DeviceTyped
  <2>5. DeviceTyped'
    BY <1>1, <2>1, <2>2, <2>4 DEF DeviceInv, DeviceTyped
  <2>6. flow # None /\ flow.refresh = i /\ asks >= 2
    BY <1>1, <1>2 DEF DeviceInv, OfWhatItHolds, HoldsOrReplays
  <2>7. HoldsOrReplays'
    BY <1>1, <2>1, <2>2, <2>6 DEF HoldsOrReplays
  <2>8. NoneAhead'
    <3>1. ASSUME NEW m \in net, m.kind = "token" PROVE m.credential < i /\ m.request # None
      <4>1. m.request \in Nat /\ m.credential \in Nat /\ m.request # None
        BY NoneApart DEF DeviceInv, DeviceTyped, DeviceRequests
      <4>2. ClientStep.op = "refresh" /\ keychain # None /\ keychain.refresh < i
        BY <1>1, <1>2, <3>1 DEF DeviceInv, OfWhatItHolds
      <4>3. m.credential <= keychain.refresh /\ keychain.refresh \in Nat
        BY <3>1, <4>2 DEF DeviceInv, NoneAhead, DeviceTyped, D!Secret
      <4> QED BY <1>3, <4>1, <4>2, <4>3
    <3>2. ASSUME NEW m \in net, m.kind = "token" PROVE m.credential <= i /\ m.credential # i
      BY <1>3, <3>1, <3>2 DEF DeviceInv, DeviceTyped, DeviceRequests
    <3> QED BY <1>1, <2>1, <2>2, <3>1, <3>2 DEF NoneAhead
  <2>9. OfWhatItHolds'
    BY <1>1, <2>4, <2>6 DEF OfWhatItHolds
  <2>10. DrawnFirst'
    BY <1>1, <2>1, <2>2 DEF DeviceInv, DrawnFirst
  <2>11. LastSession'
    BY <1>1 DEF DeviceInv, LastSession
  <2> QED BY <2>5, <2>7, <2>8, <2>9, <2>10, <2>11 DEF DeviceInv
<1> QED BY <1>4, <1>5

\* A process that ends what it did, whatever came of it.
LEMMA EndKeeps ==
    ASSUME DeviceInv, UNCHANGED <<time, flow, bearers, net, keychain, asks>>, proc' = [proc EXCEPT ![Agent] = D!Idle]
    PROVE  DeviceInv'
<1>1. asks' \in Nat /\ asks <= asks'
  BY DEF DeviceInv, DeviceTyped
<1>2. D!Idle.op # "store" /\ D!Idle.op # "logged_out"
  BY DEF D!Idle
<1> QED BY <1>1, <1>2, IdleIsWork, TurnKeeps

LEMMA LogoutKeeps ==
    ASSUME D!Bounds, DeviceInv, D!Logout(Agent)
    PROVE  DeviceInv'
<1>1. /\ keychain # None /\ keychain \in D!Secret /\ asks \in Nat /\ time \in Nat /\ asks' = asks + 1
      /\ UNCHANGED <<time, flow, bearers, keychain>> /\ D!Send(Agent, "logout", "revoke", keychain.refresh, asks', time)
  BY DEF D!Logout, D!server, D!local, DeviceInv, DeviceTyped
<1>2. keychain.refresh \in Nat /\ asks' \in Nat /\ asks >= 2
  BY <1>1 DEF D!Secret, DeviceInv, OfWhatItHolds
<1>3. /\ net' = net \cup {[kind |-> "revoke", from |-> Agent, credential |-> keychain.refresh, request |-> asks']}
      /\ net' \subseteq DeviceRequests /\ proc' \in [Processes -> ClientWorks]
      /\ ClientStep' = [op |-> "logout", at |-> "revoke", request |-> asks', answer |-> None, started |-> time]
  <2> DEFINE c == keychain.refresh
             id == asks'
  <2>1. c \in Nat /\ id \in Nat /\ time \in Nat /\ D!Send(Agent, "logout", "revoke", c, id, time)
    BY <1>1, <1>2
  <2> HIDE DEF c, id
  <2>2. /\ net' = net \cup {[kind |-> "revoke", from |-> Agent, credential |-> c, request |-> id]}
        /\ net' \subseteq DeviceRequests /\ proc' \in [Processes -> ClientWorks]
        /\ ClientStep' = [op |-> "logout", at |-> "revoke", request |-> id, answer |-> None, started |-> time]
    BY <2>1, SendOf
  <2> QED BY <2>2 DEF c, id
<1>4. DeviceTyped'
  BY <1>1, <1>2, <1>3 DEF DeviceInv, DeviceTyped
<1>5. DrawnFirst'
  BY <1>1, <1>2, <1>3 DEF DeviceInv, DrawnFirst
<1>6. NoneAhead'
  BY <1>1, <1>3 DEF DeviceInv, NoneAhead
<1>7. OfWhatItHolds'
  BY <1>1, <1>2, <1>3, NoneIsNoAnswer DEF OfWhatItHolds
<1> QED BY <1>1, <1>4, <1>5, <1>6, <1>7 DEF DeviceInv, LastSession, HoldsOrReplays

LEMMA RemoveKeeps ==
    ASSUME D!Bounds, DeviceInv, D!Remove(Agent)
    PROVE  DeviceInv'
<1> DEFINE x == IF ClientStep.answer = D!Say("revoked") THEN [op |-> "logged_out"] ELSE [op |-> "remote_revoke_unknown"]
<1>1. /\ ClientStep.op = "logout" /\ keychain' = None /\ UNCHANGED <<time, flow, bearers, net, asks>>
      /\ proc' = [proc EXCEPT ![Agent] = x]
  BY DEF D!Remove, D!server, ClientStep
<1>2. /\ x \in ClientWorks /\ x.op \in {"logged_out", "remote_revoke_unknown"}
      /\ x.op = "logged_out" => ClientStep.answer = D!Say("revoked")
  BY DEF ClientWorks
<1> HIDE DEF x
<1>3. ClientStep' = x /\ proc' \in [Processes -> ClientWorks]
  BY <1>1, <1>2, OneProcess DEF ClientStep, DeviceInv, DeviceTyped
<1>4. x.op = "logged_out" => flow # None /\ flow.revoked
  BY <1>1, <1>2 DEF DeviceInv, OfWhatItHolds
<1>5. DeviceTyped'
  BY <1>1, <1>3 DEF DeviceInv, DeviceTyped
<1>6. DrawnFirst'
  BY <1>1 DEF DeviceInv, DrawnFirst
<1>7. OfWhatItHolds'
  BY <1>1, <1>2, <1>3, <1>4 DEF OfWhatItHolds
<1> QED BY <1>1, <1>5, <1>6, <1>7 DEF DeviceInv, LastSession, HoldsOrReplays, NoneAhead

\* Every step of the service and of the client keeps it.
LEMMA DeviceInductive ==
    ASSUME D!Bounds, DeviceInv, [D!Next]_(D!vars)
    PROVE  DeviceInv'
<1>1. time \in Nat
  BY DEF DeviceInv, DeviceTyped
<1>2. CASE UNCHANGED D!vars
  BY <1>1, <1>2, ElsewhereKeeps DEF D!vars, D!server, D!local
<1>3. ASSUME NEW m \in net, D!Handle(m) PROVE DeviceInv'
  BY <1>3, HandleKeeps
<1>4. ASSUME NEW a, D!Decide(a) PROVE DeviceInv'
  BY <1>1, <1>4, ElsewhereKeeps DEF D!Decide, D!local
<1>5. ASSUME NEW x, D!Suspend(x) PROVE DeviceInv'
  BY <1>1, <1>5, ElsewhereKeeps DEF D!Suspend, D!local
<1>6. CASE D!Tick
  BY <1>1, <1>6, ElsewhereKeeps DEF D!Tick, D!server, D!local
<1>7. CASE D!SaveMetadata(Agent) \/ D!Abandon(Agent)
  BY <1>7, EndKeeps DEF D!SaveMetadata, D!Abandon, D!server, D!local
<1>8. CASE \/ D!Login(Agent) \/ D!PollAgain(Agent) \/ D!Authenticate(Agent) \/ D!SendRefresh(Agent) \/ D!Install(Agent)
           \/ D!Logout(Agent) \/ D!Remove(Agent)
  BY <1>8, LoginKeeps, PollAgainKeeps, AuthenticateKeeps, SendRefreshKeeps, InstallKeeps, LogoutKeeps, RemoveKeeps
<1>9. \A p \in Processes : p = Agent
  BY OneProcess
<1> QED BY <1>2, <1>3, <1>4, <1>5, <1>6, <1>7, <1>8, <1>9 DEF D!Next

LEMMA DeviceGood ==
    ASSUME D!Bounds, DeviceInv
    PROVE  D!NeverLockedOut /\ D!OneBearer
<1>1. D!NeverLockedOut
  BY DEF DeviceInv, HoldsOrReplays, D!NeverLockedOut
<1>2. ASSUME NEW i \in 1 .. Len(bearers), D!Who(i)
      PROVE  flow # None /\ ~ flow.revoked /\ i = flow.refresh
  <2>1. bearers[i].active
    BY <1>2 DEF D!Who, D!validateSnapshot
  <2>2. flow # None
    <3>1. ASSUME flow = None PROVE FALSE
      BY <3>1 DEF DeviceInv, LastSession
    <3> QED BY <3>1
  <2> QED BY <2>1, <2>2 DEF DeviceInv, LastSession
<1>3. \A i, j \in 1 .. Len(bearers) : D!Who(i) /\ D!Who(j) => i = j
  BY <1>2
<1>4. \A p \in Processes : proc[p].op = "logged_out" => flow # None /\ flow.revoked
  BY OneProcess DEF DeviceInv, OfWhatItHolds, ClientStep
<1>5. \A p \in Processes : proc[p].op = "logged_out" => \A i \in 1 .. Len(bearers) : ~ D!Who(i)
  BY <1>2, <1>4
<1> QED BY <1>1, <1>3, <1>5 DEF D!OneBearer

\* Whatever is lost, late or repeated, and wherever the client dies, a device on
\* which one process runs at a time refreshes with what it holds, and the service
\* accepts one bearer of it, none after a logout that it confirmed.
THEOREM DeviceStaysIn ==
    ASSUME D!Bounds
    PROVE  D!Spec => []DeviceKeepsAccess
<1>1. D!Init => DeviceInv
  BY DeviceInit
<1>2. DeviceInv /\ [D!Next]_(D!vars) => DeviceInv'
  BY DeviceInductive
<1>3. DeviceInv => DeviceKeepsAccess
  BY DeviceGood DEF DeviceKeepsAccess
<1> QED BY <1>1, <1>2, <1>3, PTL DEF D!Spec

=============================================================================
