----------------------------- MODULE MCEvidence -----------------------------
(***************************************************************************)
(* Verification and acceptance side by side.  They share no variable, so   *)
(* each is explored with the other at rest: `part` is the one that moves.  *)
(* Two callers, each on a server, run one check of one revision after      *)
(* another; one owner accepts under a policy that asks for an approval, or *)
(* does not.                                                               *)
(***************************************************************************)
EXTENDS VerificationProofs, TLC

VARIABLE part

aVars == <<current, rev, clean, checked, landed, reviewers, reviews, policy, used, decisions, approvals, lapsed, consumed,
           terminal, file, phase, args, crashes>>

-----------------------------------------------------------------------------
HomeOf      == ("a" :> "s1") @@ ("b" :> "s2")
PolicyTable == ("strict" :> [allow |-> TRUE, approval |-> TRUE]) @@ ("open" :> [allow |-> TRUE, approval |-> FALSE])

ASSUME Bounds /\ A!Bounds

-----------------------------------------------------------------------------
AnyInit == part \in {"verification", "acceptance"} /\ Init /\ A!Init

AnyNext == \/ part = "verification" /\ Next /\ UNCHANGED <<part, aVars>>
           \/ part = "acceptance" /\ A!Next /\ UNCHANGED <<part, vars>>

AnySpec == AnyInit /\ [][AnyNext]_<<part, vars, aVars>>

=============================================================================
