-------------------------- MODULE AtomicAuthority --------------------------
(***************************************************************************)
(* What a caller of Authority.transaction may rely on, without lock files, *)
(* temporary files or system calls: one aggregate, and calls that take     *)
(* effect on it atomically and at most once.                               *)
(*                                                                         *)
(* The aggregate is the set of calls whose effect it contains, or Absent   *)
(* before Bootstrap.  A call that writes first applies, then is answered.  *)
(* An answer "ok" is permanent.  An answer "storage" is ambiguous: the     *)
(* effect may be in the aggregate or not, and a power loss may still undo  *)
(* it.  seen[c] is the aggregate a read returned.                          *)
(***************************************************************************)
EXTENDS FiniteSets

CONSTANTS Creators,   \* calls of Bootstrap
          Writers,    \* calls with write = TRUE
          Readers     \* calls with write = FALSE

Calls == Creators \cup Writers \cup Readers
Aggregates == SUBSET Calls
Absent     == {}    \* no file: an existing aggregate holds Bootstrap's effect
Statuses == {"pending", "applied", "ok", "denied", "storage", "crashed"}

VARIABLES authority, status, seen
avars == <<authority, status, seen>>

AInit == /\ authority = Absent
         /\ status = [c \in Calls |-> "pending"]
         /\ seen = [c \in Readers |-> Absent]

\* A write adds its effect to the aggregate as it is at that moment.
TakeEffect(c) ==
    /\ status[c] = "pending"
    /\ c \in Creators <=> authority = Absent
    /\ c \notin Readers
    /\ authority' = authority \cup {c}
    /\ status' = [status EXCEPT ![c] = "applied"]
    /\ UNCHANGED seen

\* A read is answered from the current aggregate.
Read(c) ==
    /\ status[c] = "pending" /\ c \in Readers /\ authority # Absent
    /\ seen' = [seen EXCEPT ![c] = authority]
    /\ status' = [status EXCEPT ![c] = "ok"]
    /\ UNCHANGED authority

\* A refused call has no effect.
Refuse(c) ==
    /\ status[c] = "pending"
    /\ \E r \in {"denied", "storage"} : status' = [status EXCEPT ![c] = r]
    /\ UNCHANGED <<authority, seen>>

\* An applied call is answered, or its caller learns only of a storage error.
Answer(c) ==
    /\ status[c] = "applied"
    /\ \E r \in {"ok", "storage"} : status' = [status EXCEPT ![c] = r]
    /\ UNCHANGED <<authority, seen>>

\* The caller dies before it is answered; the aggregate keeps what it has.
Die(c) ==
    /\ status[c] \in {"pending", "applied"}
    /\ status' = [status EXCEPT ![c] = "crashed"]
    /\ UNCHANGED <<authority, seen>>

Acknowledged == {c \in Creators \cup Writers : status[c] = "ok"}

\* The machine loses power: every running caller dies and effects that were
\* never acknowledged may vanish; acknowledged ones never do.
PowerLoss ==
    /\ authority' \in SUBSET authority /\ Acknowledged \subseteq authority'
    /\ \E D \in SUBSET {c \in Calls : status[c] \in {"pending", "applied"}} :
          status' = [c \in Calls |-> IF c \in D THEN "crashed" ELSE status[c]]
    /\ UNCHANGED seen

ANext == \/ PowerLoss
         \/ \E c \in Calls : TakeEffect(c) \/ Read(c) \/ Refuse(c) \/ Answer(c) \/ Die(c)

ASpec == AInit /\ [][ANext]_avars
=============================================================================
