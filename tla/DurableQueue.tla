---------------------------- MODULE DurableQueue ----------------------------
(***************************************************************************)
(* What the synchronisation of a project promises its two ends: the        *)
(* producer's events form one growing list, the service holds a prefix of  *)
(* that list, and the producer forgets nothing the service does not hold.  *)
(***************************************************************************)
EXTENDS Naturals, Sequences

CONSTANT Events

VARIABLES
    sent,   \* the events queued by the producer
    held,   \* the events the service holds without a gap
    done    \* how many of them the producer considers delivered

IsPrefixOf(s, t) == Len(s) <= Len(t) /\ \A i \in DOMAIN s : s[i] = t[i]

Init == sent = <<>> /\ held = <<>> /\ done = 0

Queue == /\ \E e \in Events : sent' = Append(sent, e)
         /\ UNCHANGED <<held, done>>

Store == /\ IsPrefixOf(held', sent) /\ IsPrefixOf(held, held') /\ held' # held
         /\ UNCHANGED <<sent, done>>

Confirm == /\ done' \in done + 1 .. Len(held)
           /\ UNCHANGED <<sent, held>>

Next == Queue \/ Store \/ Confirm
Spec == Init /\ [][Next]_<<sent, held, done>>

=============================================================================
