----------------------------- MODULE CloudInbox -----------------------------
(***************************************************************************)
(* What the client of a project accepts from the control plane             *)
(* (cloudsync/client.go): envelopes of several signers in any order, more  *)
(* than once, with identities that collide.  An accepted envelope is a     *)
(* file of the inbox and a reservation in state.json; the two are written  *)
(* one after the other, either write may fail and the process may die      *)
(* between them.  Retention deletes files, the owner revokes and restores   *)
(* keys; the reservations have to outlive both.                             *)
(***************************************************************************)
EXTENDS Naturals, FiniteSets, FiniteSetsExt

CONSTANTS
    Envelopes,      \* records [id, key, signer, seq]: an envelope is its canonical form
    Signers,
    Cursors,        \* scalar cursors that installations without streams may have
    ReplayFloor, MaxOpens, MaxFailures,
    None

Seqs == {e.seq : e \in Envelopes}
Ids  == {e.id : e \in Envelopes}
Keys == {e.key : e \in Envelopes}
Streams == [last : {0} \cup Seqs, accepted : SUBSET Seqs]

\* What instances have to provide.
Bounds == /\ \A e \in Envelopes : e.seq \in Nat \ {0} /\ e.signer \in Signers
          /\ IsFiniteSet(Envelopes) /\ IsFiniteSet(Signers)
          /\ None \notin Envelopes /\ \A keys \in SUBSET Signers : keys # None
          /\ Cursors \subseteq Nat /\ ReplayFloor \in Nat

VARIABLES
    files,      \* the inbox directory
    disk,       \* state.json: [streams, known, untrusted, ids, keys, cursor]
    trusted,    \* the keys the running client was opened with; None when it does not run
    mem,        \* its copy of the state
    index,      \* the envelopes it can compare with
    reserved,   \* [ids, keys]: what was seen and can no longer be compared
    pending,    \* a file whose reservation could not be saved
    fallback,   \* the scalar cursor of an installation without streams
    writing,    \* the envelope whose file was just written, or None
    answered,   \* envelopes that were answered as accepted or duplicate
    barred,     \* signers of such envelopes without whose key the client was opened
    opens, failures

state  == <<mem, index, reserved, pending, fallback, writing>>
vars == <<files, disk, trusted, state, answered, barred, opens, failures>>

-----------------------------------------------------------------------------
(* The state of the streams.                                               *)

Advanced(s) == LET last == Max({n \in {s.last} \cup s.accepted : \A i \in s.last + 1 .. n : i \in s.accepted})
               IN [last |-> last, accepted |-> {n \in s.accepted : n > last}]

Reserves(st, e) == e.seq <= st.streams[e.signer].last \/ e.seq \in st.streams[e.signer].accepted

\* Mutant: a stream with a gap goes on from its highest sequence.
applyInboundHighest(st, e) ==
    [st EXCEPT !.streams[e.signer] = [last |-> Max({@.last, e.seq}), accepted |-> {}],
               !.known = @ \cup {e.signer}, !.ids = @ \cup {e.id}, !.keys = @ \cup {e.key},
               !.cursor = Max({IF fallback > 0 THEN 0 ELSE @, e.seq})]

\* applyInbound reserves the sequence and the identities of an envelope.
applyInbound(st, e) ==
    LET stream == Advanced([st.streams[e.signer] EXCEPT !.accepted = @ \cup {e.seq}])
    IN [st EXCEPT !.streams[e.signer] = stream, !.known = @ \cup {e.signer},
                  !.ids = @ \cup {e.id}, !.keys = @ \cup {e.key},
                  !.cursor = IF fallback > 0 THEN stream.last ELSE Max({@, stream.last})]

\* A signer with history that is not trusted now never is again.
Latched(st, keys) == st.untrusted \cup ((st.known \cup {e.signer : e \in files}) \ keys)

\* rebuildInboundIndexes: the files add to what is reserved, they never take
\* from it; a quarantined stream makes no progress.
Rebuilt(st, keys) ==
    LET untrusted == Latched(st, keys)
        rows(s)   == {e.seq : e \in {f \in files : f.signer = s}}
        merged(s) == [st.streams[s] EXCEPT !.accepted = @ \cup {n \in rows(s) : n > st.streams[s].last}]
        streams   == [s \in Signers |-> IF s \in untrusted THEN merged(s) ELSE Advanced(merged(s))]
        known     == st.known \cup {e.signer : e \in files}
    IN [streams |-> streams, known |-> known, untrusted |-> untrusted,
        ids |-> st.ids \cup {e.id : e \in files}, keys |-> st.keys \cup {e.key : e \in files},
        cursor |-> IF known # {} THEN Max({0} \cup {streams[s].last : s \in known \ untrusted}) ELSE st.cursor]

\* Two files that disagree on an identity make the history unreadable.
Readable == \A e, f \in files : e.key = f.key \/ <<e.signer, e.seq>> = <<f.signer, f.seq>> => e = f

-----------------------------------------------------------------------------
(* The process.  A failing save leaves the process with the state it had;  *)
(* what is indexed and pending stays.                                      *)

Fails == failures < MaxFailures /\ failures' = failures + 1

\* Open merges the directory into the state and saves what changed.
Open(keys) ==
    /\ trusted = None /\ opens < MaxOpens /\ Readable
    /\ trusted' = keys /\ opens' = opens + 1
    /\ mem' = Rebuilt(disk, keys) /\ disk' = mem'
    /\ index' = files /\ barred' = barred \cup ({e.signer : e \in answered} \ keys)
    /\ reserved' = [ids |-> disk.ids \ {e.id : e \in files}, keys |-> disk.keys \ {e.key : e \in files}]
    /\ fallback' = IF mem'.known = {} THEN mem'.cursor ELSE 0
    /\ UNCHANGED <<files, pending, writing, answered, failures>>

Running == trusted # None /\ writing = None

\* An envelope that agrees in one identity with a known one is that one or a
\* collision.
Same(e, f) == e.id = f.id \/ e.key = f.key \/ <<e.signer, e.seq>> = <<f.signer, f.seq>>

Known(e) == \E f \in index : Same(e, f)

\* Which of the lookups comes first decides only between two refusals.
IsDuplicate(e) == e \in index

\* The checks before every lookup; a refusal changes nothing.
Authentic(e) == e.signer \in trusted /\ e.signer \notin mem.untrusted

\* commitPendingInbound reserves the envelope whose save failed.
Applied == IF pending = None THEN mem ELSE applyInbound(mem, pending)

Duplicate(e) ==
    /\ Running /\ Authentic(e) /\ IsDuplicate(e)
    /\ mem' = Applied /\ disk' = (IF pending = None THEN disk ELSE mem') /\ pending' = None
    /\ fallback' = IF pending = None THEN fallback ELSE 0
    /\ answered' = answered \cup {e}
    /\ UNCHANGED <<files, trusted, index, reserved, writing, barred, opens, failures>>

\* What is refused: a collision, a reservation without its payload, a replay.
Admissible(e) == /\ ~Known(e) /\ e.id \notin reserved.ids /\ e.key \notin reserved.keys
                 /\ e.seq >= ReplayFloor /\ ~Reserves(mem, e)

\* commitPendingInbound, then persistInbound creates the file; one that is
\* there already has to be this envelope.
Persist(e) ==
    /\ Running /\ Authentic(e) /\ Admissible(e)
    /\ \A f \in files : f.id = e.id => f = e
    /\ mem' = Applied /\ disk' = (IF pending = None THEN disk ELSE mem')
    /\ fallback' = IF pending = None THEN fallback ELSE 0
    /\ files' = files \cup {e} /\ index' = index \cup {e} /\ pending' = e /\ writing' = e
    /\ UNCHANGED <<trusted, reserved, answered, barred, opens, failures>>

\* The pending save succeeds and the file cannot be created.
PersistFails(e) ==
    /\ Running /\ Authentic(e) /\ Admissible(e) /\ pending # None /\ Fails
    /\ mem' = Applied /\ disk' = mem' /\ pending' = None /\ fallback' = 0
    /\ UNCHANGED <<files, trusted, index, reserved, writing, answered, barred, opens>>

\* ... and the reservation is saved before the envelope counts as accepted.
Accept ==
    /\ writing # None
    /\ mem' = applyInbound(mem, writing) /\ disk' = mem'
    /\ pending' = None /\ fallback' = 0 /\ writing' = None /\ answered' = answered \cup {writing}
    /\ UNCHANGED <<files, trusted, index, reserved, barred, opens, failures>>

SaveFails == /\ writing # None /\ Fails /\ writing' = None
             /\ UNCHANGED <<files, disk, trusted, mem, index, reserved, pending, fallback, answered, barred, opens>>

\* The process ends or dies; nothing it remembers survives.
Exit == /\ trusted # None /\ trusted' = None /\ writing' = None /\ mem' = None /\ pending' = None
        /\ index' = {} /\ reserved' = [ids |-> {}, keys |-> {}] /\ fallback' = 0
        /\ UNCHANGED <<files, disk, answered, barred, opens, failures>>

\* Retention removes payloads, also under a running client.
Expire(e) == /\ e \in files /\ files' = files \ {e}
             /\ UNCHANGED <<disk, trusted, state, answered, barred, opens, failures>>

Init == /\ files = {} /\ trusted = None /\ mem = None /\ index = {} /\ reserved = [ids |-> {}, keys |-> {}]
        /\ pending = None /\ fallback = 0 /\ writing = None /\ answered = {} /\ barred = {} /\ opens = 0 /\ failures = 0
        /\ \E c \in Cursors : disk = [streams |-> [s \in Signers |-> [last |-> 0, accepted |-> {}]],
                                      known |-> {}, untrusted |-> {}, ids |-> {}, keys |-> {}, cursor |-> c]

Next == \/ \E keys \in SUBSET Signers : Open(keys)
        \/ \E e \in Envelopes : Duplicate(e) \/ Persist(e) \/ PersistFails(e) \/ Expire(e)
        \/ Accept \/ SaveFails \/ Exit

Spec == Init /\ [][Next]_vars

-----------------------------------------------------------------------------
(* Properties.                                                             *)

TypeOK == /\ files \subseteq Envelopes /\ index \subseteq Envelopes /\ answered \subseteq Envelopes
          /\ disk.streams \in [Signers -> Streams] /\ disk.known \subseteq Signers /\ disk.untrusted \subseteq Signers
          /\ disk.ids \subseteq Ids /\ disk.keys \subseteq Keys /\ disk.cursor \in Nat
          /\ pending \in Envelopes \cup {None} /\ writing \in {None, pending}

\* An identity belongs to one envelope for ever: whatever expires, fails or
\* dies, no two envelopes that agree on an event, a key or a signer's sequence
\* are ever both answered as accepted or duplicate.
OneEnvelopePerIdentity == \A e, f \in answered : Same(e, f) => e = f

\* What was answered is reserved on disk, so that no restart forgets it.
AnsweredIsDurable == \A e \in answered : Reserves(disk, e) /\ e.id \in disk.ids /\ e.key \in disk.keys

\* The cursor of a stream passes only sequences that came: below it every
\* sequence is one of an envelope whose file was written.
CursorWithoutGap == \A s \in Signers : \A n \in 1 .. disk.streams[s].last :
    \E e \in Envelopes : e.signer = s /\ e.seq = n /\ e.id \in disk.ids

\* A signer whose key was missing when the client opened on its accepted
\* envelopes brings in nothing more, even after the payloads expired and the
\* key is configured again.
QuarantineIsFinal == [][\A e \in answered' \ answered : e.signer \notin barred]_vars

\* The directory the client wrote can always be opened again.
HistoryStaysReadable == Readable

\* The scalar cursor other commands show is the summary of the streams.
ScalarSummarises == disk.known # {} =>
    disk.cursor = Max({0} \cup {disk.streams[s].last : s \in disk.known \ disk.untrusted})

=============================================================================
