---------------------------- MODULE MCGovernance ----------------------------
(* Instances of Governance: two tasks of one repository, two checkouts.     *)
EXTENDS Governance

CONSTANTS t1, t2, k1, k2, repo, r1, r2

Claim(t, k, P, w) == [task |-> t, checkout |-> k, paths |-> P, whole |-> w]
NarrowT1 == Claim(t1, k1, {<<"a", "b">>}, FALSE)
WideT2   == Claim(t2, k2, {<<"a">>}, FALSE)
OtherT2  == Claim(t2, k2, {<<"c">>}, FALSE)
WholeT2  == Claim(t2, k2, {}, TRUE)

MCRepository   == [t \in {t1, t2} |-> repo]
MCRepositoryOf == [k \in {k1, k2} |-> repo]

-----------------------------------------------------------------------------
(* Dispatch: controller C, bridge B, worker W with its delegate W1; t1 only.*)

DispatchSessions == {"C", "B", "W", "W1"}
DispatchParent   == [s \in DispatchSessions |-> IF s = "W1" THEN "W" ELSE NoSession]
DispatchExpires  == [s \in DispatchSessions |-> 2]
DispatchCan      == [s \in DispatchSessions |->
    CASE s = "C" -> {"swarm.reserve", "swarm.dispatch", "dispatch.cancel"}
      [] s = "B" -> {"dispatch.correlate", "dispatch.observe"}
      [] OTHER   -> {"attempt.register", "lease.acquire", "lease.renew", "lease.release"}]
DispatchClaims   == {NarrowT1}
DispatchCovers   == [s \in DispatchSessions |-> DispatchClaims]
DispatchPolicies == [r \in {r1} |->
    [width |-> 1, wip |-> 1, ttl |-> 1, stopped |-> FALSE, placements |-> {<<t1, k1>>}]]

-----------------------------------------------------------------------------
(* Waves: controller C with workers V and W on two tasks.  Revision r2 has  *)
(* a smaller WIP limit than r1.                                             *)

SwarmSessions == {"C", "V", "W"}
SwarmParent   == [s \in SwarmSessions |-> NoSession]
SwarmExpires  == [s \in SwarmSessions |-> 2]
SwarmCan      == [s \in SwarmSessions |->
    IF s = "C" THEN {"swarm.reserve", "swarm.dispatch"}
    ELSE {"attempt.register", "lease.acquire", "lease.release", "verification.request"}]
SwarmClaims   == {NarrowT1, WideT2, OtherT2, WholeT2}
SwarmCovers   == [s \in SwarmSessions |->
    CASE s = "C" -> SwarmClaims [] s = "V" -> {NarrowT1} [] s = "W" -> {WideT2, OtherT2, WholeT2}]
SwarmPolicies == [r \in {r1, r2} |->
    [width |-> IF r = r1 THEN 2 ELSE 1, wip |-> IF r = r1 THEN 2 ELSE 1, ttl |-> 1, stopped |-> FALSE,
     placements |-> {<<t1, k1>>, <<t2, k2>>}]]

=============================================================================
