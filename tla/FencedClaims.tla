---------------------------- MODULE FencedClaims ----------------------------
(***************************************************************************)
(* What leases, reservations, handover and recovery promise together: at   *)
(* any moment some claims are held, no two of them in conflict, each with a*)
(* fence; a fence is given once, in increasing order.                      *)
(***************************************************************************)
EXTENDS Naturals

CONSTANTS Conflicts     \* pairs of claims that must not be held together

VARIABLES held,         \* the claims held: identifier -> [claim, fence]
          past,         \* every [claim, fence] ever given
          last          \* the last fence given

avars == <<held, past, last>>

AInit == held = [x \in {} |-> {}] /\ past = {} /\ last = 0

Fresh == DOMAIN held' \ DOMAIN held

\* Claims are given together: to new holders, with new fences, in conflict
\* neither with each other nor with what is held.
Grant ==
    /\ last < last' /\ DOMAIN held \subseteq DOMAIN held' /\ Fresh # {}
    /\ \A p \in DOMAIN held : held'[p] = held[p]
    /\ \A p \in Fresh :
        /\ last < held'[p].fence /\ held'[p].fence <= last'
        /\ \A q \in DOMAIN held' \ {p} :
            /\ <<held'[p].claim, held'[q].claim>> \notin Conflicts
            /\ held'[p].fence # held'[q].fence
    /\ past' = past \cup {held'[p] : p \in Fresh}

\* A claim passes to another holder without being free in between.
Pass(p) ==
    /\ last' = last + 1
    /\ held' = [held EXCEPT ![p] = [claim |-> held[p].claim, fence |-> last + 1]]
    /\ past' = past \cup {held'[p]}

\* A claim is given up; the owner's recovery also consumes a fence.
Drop(p) ==
    /\ last' \in {last, last + 1}
    /\ held' = [q \in DOMAIN held \ {p} |-> held[q]]
    /\ past' = past

ANext == Grant \/ \E p \in DOMAIN held : Pass(p) \/ Drop(p)

ASpec == AInit /\ [][ANext]_avars

=============================================================================
