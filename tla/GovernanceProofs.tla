-------------------------- MODULE GovernanceProofs --------------------------
(***************************************************************************)
(* Proofs about Governance for any sessions, tasks, claims, policies and   *)
(* bounds: the inductive invariant and what it says of leases, then what   *)
(* handover, withdrawal, recovery, intents, cancellation and WIP limits    *)
(* promise, and the refinement of FencedClaims.                            *)
(***************************************************************************)
EXTENDS Governance, FiniteSetTheorems, TLAPS

USE DEF Times, Ids

\* A lease is named by the fence of its creation or, after a handover, by the
\* reservation it comes from, which it then replaces for good.
Numbered ==
    /\ DOMAIN leases \subseteq 1 .. fence /\ DOMAIN dispatches \subseteq 1 .. fence
    /\ \A l \in DOMAIN leases : leases[l].fence \in l .. fence
    /\ \A l \in DOMAIN leases \cap DOMAIN dispatches :
          dispatches[l].converted /\ leases[l].claim = dispatches[l].claim /\ l < leases[l].fence
    /\ \A d \in DOMAIN dispatches : dispatches[d].converted => d \in DOMAIN leases

\* Every tombstone is about a protection that has ended, and names its family.
Tombstones ==
    \A r \in recoveries :
        /\ r.kind = "lease" => /\ r.id \in DOMAIN leases /\ leases[r.id].released
                               /\ r.task = leases[r.id].claim.task
        /\ r.kind = "reservation" => /\ r.id \in DOMAIN dispatches /\ ~ dispatches[r.id].converted
                                     /\ r.task = dispatches[r.id].claim.task
        /\ LET s == TargetSession(r.kind, r.id)
           IN  r.family = IF s = NoSession THEN NoSession ELSE Family(s)

\* The inductive invariant.
Inv == TypeOK /\ Numbered /\ Tombstones /\ Exclusive /\ NewestFence

-----------------------------------------------------------------------------
(* The operators the operations are built from.                             *)

\* overlaps does not depend on the order of its arguments.
LEMMA OverlapSymmetric == \A c, d : Overlap(c, d) <=> Overlap(d, c)
BY DEF Overlap

\* historicalWorkerFamily finds an enrolled session of the lineage.
LEMMA FamilyInLineage ==
    \A s \in Sessions : Family(s) \in LineageOf[s] /\ Family(s) \in Sessions
BY RootedTree DEF Family, LineageOf

\* A wave is a sequence of claims.
LEMMA WaveShape ==
    ASSUME TypeOK, NEW w \in Waves
    PROVE  /\ PolicyRuns /\ Len(w) \in Nat \ {0} /\ DOMAIN w = 1 .. Len(w)
           /\ \A i \in 1 .. Len(w) : w[i] \in Claims
<1>1. PolicyRuns
  BY DEF Waves
<1>2. Policies[policy].width \in Nat
  BY <1>1, PolicyShape DEF PolicyRuns, TypeOK
<1>3. PICK n \in 1 .. Policies[policy].width : w \in [1 .. n -> Claims]
  BY <1>1 DEF Waves
<1>4. n \in Nat \ {0}
  BY <1>2
<1>5. w \in Seq(Claims) /\ Len(w) = n
  BY <1>3, <1>4
<1> QED BY <1>1, <1>3, <1>4, <1>5

-----------------------------------------------------------------------------
(* Types.                                                                   *)

\* newState: every map is there and empty.
LEMMA TypeInit == Init => TypeOK
<1> SUFFICES ASSUME Init PROVE TypeOK
  OBVIOUS
<1> DEFINE empty == [x \in {} |-> {}]
<1>1. DOMAIN empty = {} /\ \A T : empty \in [DOMAIN empty -> T]
  OBVIOUS
<1>2. leases = empty /\ dispatches = empty /\ intents = empty /\ observed = empty /\ cancelled = empty
  BY DEF Init
<1> HIDE DEF empty
<1>3. /\ DOMAIN leases = {} /\ leases \in [DOMAIN leases -> Lease]
      /\ DOMAIN dispatches = {} /\ dispatches \in [DOMAIN dispatches -> Dispatch]
      /\ DOMAIN intents = {} /\ intents \in [DOMAIN intents -> Intent]
      /\ DOMAIN observed = {} /\ observed \in [DOMAIN observed -> Report]
      /\ DOMAIN cancelled = {} /\ cancelled \in [DOMAIN cancelled -> Cancel]
  BY <1>1, <1>2
<1>4. /\ now \in Times /\ revoked = {} /\ admitted = Tasks /\ retired = {} /\ attempts = {}
      /\ fence \in 0 .. MaxFence /\ recoveries = {}
      /\ policy = NoPolicy /\ revisions = {} /\ channel = NoPolicy
  BY Bounds DEF Init
<1>5. acceptTerminal \in BOOLEAN
  BY Zenon DEF Init
<1> QED BY <1>3, <1>4, <1>5 DEF TypeOK

\* Every record written by an operation has its type.
LEMMA TypeNext ==
    ASSUME TypeOK, Numbered, [Next]_vars
    PROVE  TypeOK'
<1> USE Bounds, SessionTree DEF clock, bindings, protections, hosts, policies
<1>1. CASE Tick
  BY <1>1 DEF Tick, TypeOK
<1>2. CASE UNCHANGED vars
  BY <1>2 DEF vars, TypeOK
<1>3. CASE Worker
  <2>1. ASSUME NEW s \in Sessions, NEW c \in Claims, RegisterAttempt(s, c.task, c.checkout) PROVE TypeOK'
    <3>1. c.task \in Tasks /\ c.checkout \in Checkouts
      BY ClaimShape
    <3> QED BY <2>1, <3>1 DEF RegisterAttempt, TypeOK
  <2>2. ASSUME NEW s \in Sessions, NEW c \in Claims, NEW e \in Times, AcquireLease(s, c, e) PROVE TypeOK'
    <3>1. fence + 1 \in Ids /\ LeaseOf(s, c, e) \in Lease
      BY <2>2 DEF AcquireLease, LeaseOf, Lease, TypeOK
    <3>2. /\ leases \in [DOMAIN leases -> Lease] /\ DOMAIN leases \subseteq Ids
          /\ leases' = Put(leases, fence + 1, LeaseOf(s, c, e))
      BY <2>2 DEF AcquireLease, TypeOK
    <3>3. DOMAIN leases' \subseteq Ids /\ leases' \in [DOMAIN leases' -> Lease]
      BY <3>1, <3>2 DEF Put
    <3> QED BY <2>2, <3>1, <3>3 DEF AcquireLease, TypeOK
  <2>3. ASSUME NEW l \in DOMAIN leases, NEW e \in Times, RenewLease(l, e) PROVE TypeOK'
    BY <2>3 DEF RenewLease, ChangeLease, Lease, TypeOK
  <2>4. ASSUME NEW l \in DOMAIN leases, ReleaseLease(l) PROVE TypeOK'
    BY <2>4 DEF ReleaseLease, ChangeLease, Lease, TypeOK
  <2>5. ASSUME NEW s \in Sessions, NEW d \in DOMAIN dispatches, Handoff(s, d)
        PROVE  /\ fence' \in 0 .. MaxFence /\ recoveries' = recoveries
               /\ DOMAIN leases' \subseteq Ids /\ leases' \in [DOMAIN leases' -> Lease]
               /\ DOMAIN dispatches' = DOMAIN dispatches /\ dispatches' \in [DOMAIN dispatches' -> Dispatch]
    <3>1. fence + 1 \in Ids /\ fence' = fence + 1
      BY <2>5 DEF Handoff, MayHandoff, TypeOK
    <3> DEFINE v == [session |-> s, claim |-> dispatches[d].claim, fence |-> fence + 1,
                     expires |-> dispatches[d].expires, released |-> FALSE]
    <3>2. v \in Lease
      BY <2>5, <3>1 DEF Lease, Dispatch, TypeOK
    <3>3. /\ leases \in [DOMAIN leases -> Lease] /\ DOMAIN leases \subseteq Ids /\ d \in Ids
          /\ leases' = Put(leases, d, v)
      BY <2>5 DEF Handoff, TypeOK
    <3> HIDE DEF v
    <3>4. DOMAIN leases' \subseteq Ids /\ leases' \in [DOMAIN leases' -> Lease]
      BY <3>2, <3>3 DEF Put
    <3> DEFINE r == [dispatches[d] EXCEPT !.converted = TRUE, !.worker = s]
    <3>0. dispatches[d] \in Dispatch
      BY DEF TypeOK
    <3>5. r \in Dispatch
      BY <3>0 DEF Dispatch
    <3>6. dispatches \in [DOMAIN dispatches -> Dispatch] /\ dispatches' = [dispatches EXCEPT ![d] = r]
      BY <2>5 DEF Handoff, TypeOK
    <3> HIDE DEF r
    <3>7. DOMAIN dispatches' = DOMAIN dispatches /\ dispatches' \in [DOMAIN dispatches' -> Dispatch]
      BY <3>5, <3>6
    <3>8. recoveries' = recoveries
      BY <2>5 DEF Handoff
    <3> QED BY <3>1, <3>4, <3>7, <3>8
  <2>6. ASSUME NEW s \in Sessions, NEW d \in DOMAIN dispatches, HandoffDispatch(s, d) PROVE TypeOK'
    BY <2>6, <2>5 DEF HandoffDispatch, TypeOK
  <2>7. ASSUME NEW d \in DOMAIN intents, AcknowledgeDispatchIntent(d) PROVE TypeOK'
    <3>1. intents[d].worker \in Sessions /\ d \in DOMAIN dispatches
      BY DEF Intent, TypeOK
    <3> QED BY <2>7, <3>1, <2>5 DEF AcknowledgeDispatchIntent, Intent, IntentStates, TypeOK
  <2> QED BY <1>3, <2>1, <2>2, <2>3, <2>4, <2>6, <2>7 DEF Worker
<1>4. CASE SwarmController
  <2>1. ASSUME NEW s \in Sessions, NEW w \in Waves, NEW e \in Times, ReserveWave(s, w, e) PROVE TypeOK'
    <3>1. /\ policy \in DOMAIN Policies
          /\ Len(w) \in Nat /\ \A i \in 1 .. Len(w) : w[i] \in Claims
      BY WaveShape DEF PolicyRuns, TypeOK
    <3>2. \A i \in 1 .. Len(w) : Reservation(s, w[i], e) \in Dispatch
      BY <3>1 DEF Reservation, Dispatch
    <3>3. /\ DOMAIN dispatches' = DOMAIN dispatches \cup fence + 1 .. fence + Len(w)
          /\ \A d \in DOMAIN dispatches' :
                dispatches'[d] = IF d <= fence THEN dispatches[d] ELSE Reservation(s, w[d - fence], e)
      BY <2>1 DEF ReserveWave
    <3>4. /\ fence \in Nat /\ fence' = fence + Len(w) /\ fence' \in 0 .. MaxFence
          /\ DOMAIN dispatches \subseteq Ids /\ dispatches \in [DOMAIN dispatches -> Dispatch]
      BY <2>1, <3>1 DEF ReserveWave, TypeOK
    <3>5. ASSUME NEW d \in DOMAIN dispatches' PROVE d \in Ids /\ dispatches'[d] \in Dispatch
      <4>1. CASE d \in DOMAIN dispatches
        BY <3>3, <3>4, <4>1 DEF Numbered
      <4>2. CASE d \in fence + 1 .. fence + Len(w)
        <5>1. d - fence \in 1 .. Len(w) /\ ~ (d <= fence) /\ d \in Ids
          BY <3>1, <3>4, <4>2
        <5> QED BY <3>2, <3>3, <5>1
      <4> QED BY <3>3, <3>5, <4>1, <4>2
    <3>6. DOMAIN dispatches' \subseteq Ids /\ dispatches' \in [DOMAIN dispatches' -> Dispatch]
      BY <2>1, <3>5 DEF ReserveWave
    <3>7. DOMAIN dispatches \subseteq DOMAIN dispatches'
      BY <3>3
    <3> QED BY <2>1, <3>4, <3>6, <3>7 DEF ReserveWave, TypeOK
  <2>2. ASSUME NEW d \in DOMAIN dispatches, NEW b \in Sessions, NEW w \in Sessions, RequestDispatchIntent(d, b, w)
        PROVE  TypeOK'
    <3>1. [bridge |-> b, worker |-> w, state |-> "dispatch_requested"] \in Intent
      BY DEF Intent, IntentStates
    <3>2. intents \in [DOMAIN intents -> Intent]
      BY DEF TypeOK
    <3>3. DOMAIN intents' = DOMAIN intents \cup {d} /\ intents' \in [DOMAIN intents' -> Intent]
      BY <2>2, <3>1, <3>2 DEF RequestDispatchIntent, Put
    <3> QED BY <2>2, <3>3 DEF RequestDispatchIntent, TypeOK
  <2>3. ASSUME NEW d \in DOMAIN intents, CancelLifecycle(d) PROVE TypeOK'
    <3> DEFINE v == [channel |-> channel, leased |-> Leased(d), host |-> HostKnown(d),
                     state |-> IF channel = "unsupported" THEN "unsupported"
                               ELSE IF HostKnown(d) THEN "requested" ELSE "manual_handoff_required"]
    <3>1. v \in Cancel
      BY <2>3 DEF CancelLifecycle, Cancel, CancelStates, Leased, HostKnown, TypeOK
    <3>2. cancelled \in [DOMAIN cancelled -> Cancel] /\ cancelled' = Put(cancelled, d, v)
      BY <2>3 DEF CancelLifecycle, TypeOK
    <3> HIDE DEF v
    <3>3. DOMAIN cancelled' = DOMAIN cancelled \cup {d} /\ cancelled' \in [DOMAIN cancelled' -> Cancel]
      BY <3>1, <3>2 DEF Put
    <3> QED BY <2>3, <3>3 DEF CancelLifecycle, TypeOK
  <2> QED BY <1>4, <2>1, <2>2, <2>3 DEF SwarmController
<1>5. CASE Bridge
  <2>1. ASSUME NEW d \in DOMAIN intents, NEW state \in CorrelateStates, CorrelateDispatchIntent(d, state) PROVE TypeOK'
    BY <2>1 DEF CorrelateDispatchIntent, CorrelateStates, Intent, IntentStates, TypeOK
  <2>2. ASSUME NEW d \in DOMAIN intents, NEW state \in HostStates, ObserveLifecycle(d, state) PROVE TypeOK'
    <3>1. [state |-> state, leased |-> Leased(d)] \in Report
      BY DEF Report, Leased
    <3>2. observed \in [DOMAIN observed -> Report]
      BY DEF TypeOK
    <3>3. DOMAIN observed' = DOMAIN observed \cup {d} /\ observed' \in [DOMAIN observed' -> Report]
      BY <2>2, <3>1, <3>2 DEF ObserveLifecycle, Put
    <3> QED BY <2>2, <3>3 DEF ObserveLifecycle, TypeOK
  <2>3. ASSUME NEW d \in DOMAIN cancelled, NEW state \in CancelAnswers, AcknowledgeCancellation(d, state) PROVE TypeOK'
    BY <2>3 DEF AcknowledgeCancellation, CancelAnswers, Cancel, CancelStates, TypeOK
  <2> QED BY <1>5, <2>1, <2>2, <2>3 DEF Bridge
<1>6. CASE Owner
  <2>1. ASSUME NEW s \in Revocable, Revoke(s) PROVE TypeOK'
    BY <2>1 DEF Revoke, TypeOK
  <2>2. ASSUME NEW t \in Rebindable, NEW on \in BOOLEAN, BindTask(t, on) PROVE TypeOK'
    BY <2>2 DEF BindTask, TypeOK
  <2>3. ASSUME NEW r \in DOMAIN Policies, ConfigureSwarm(r) PROVE TypeOK'
    BY <2>3 DEF ConfigureSwarm, TypeOK
  <2>4. ASSUME NEW c \in Channels, ConfigureLifecycle(c) PROVE TypeOK'
    BY <2>4 DEF ConfigureLifecycle, TypeOK
  <2>5. ASSUME NEW accept \in Acceptances, ConfigureRecovery(accept) PROVE TypeOK'
    BY <2>5 DEF ConfigureRecovery, TypeOK
  <2>6. ASSUME NEW kind \in {"lease", "reservation"}, NEW id, NEW mode \in Modes, Recover(kind, id, mode) PROVE TypeOK'
    <3>0. /\ kind = "lease" => id \in DOMAIN leases
          /\ kind = "reservation" => id \in DOMAIN dispatches
      BY <2>6 DEF Recover, Held, Retained
    <3>1. Tombstone(kind, id, mode) \in RecoveryT
      <4>1. TargetSession(kind, id) \in Sessions \cup {NoSession} /\ id \in Ids
        BY <3>0 DEF TargetSession, Lease, Intent, TypeOK
      <4>2. /\ kind = "lease" => leases[id].claim.task \in Tasks
            /\ kind = "reservation" => dispatches[id].claim.task \in Tasks
        BY <3>0, ClaimShape DEF Lease, Dispatch, TypeOK
      <4> QED BY <4>1, <4>2, FamilyInLineage DEF Tombstone, RecoveryT
    <3>2. DOMAIN leases' = DOMAIN leases /\ leases' \in [DOMAIN leases' -> Lease]
      <4>1. leases' = leases \/ (id \in DOMAIN leases /\ leases' = [leases EXCEPT ![id].released = TRUE])
        BY <2>6, <3>0 DEF Recover
      <4>2. CASE leases' = leases
        BY <4>2 DEF TypeOK
      <4>3. CASE id \in DOMAIN leases /\ leases' = [leases EXCEPT ![id].released = TRUE]
        BY <4>3 DEF Lease, TypeOK
      <4> QED BY <4>1, <4>2, <4>3
    <3> QED BY <2>6, <3>1, <3>2 DEF Recover, TypeOK
  <2>7. ASSUME NEW l \in DOMAIN leases, Retire(l) PROVE TypeOK'
    <3>1. leases[l].claim.task \in Tasks
      BY ClaimShape DEF Lease, TypeOK
    <3> QED BY <2>7, <3>1 DEF Retire, TypeOK
  <2> QED BY <1>6, <2>1, <2>2, <2>3, <2>4, <2>5, <2>6, <2>7 DEF Owner
<1> QED BY <1>1, <1>2, <1>3, <1>4, <1>5, <1>6 DEF Next

-----------------------------------------------------------------------------
(* What each operation does to the protections.                             *)

\* The steps that touch leases, reservations, tombstones or the fence.
LEMMA ProtectionSteps ==
    ASSUME TypeOK, [Next]_vars
    PROVE  \/ UNCHANGED protections
           \/ \E s \in Sessions, c \in Claims, e \in Times : AcquireLease(s, c, e)
           \/ \E l \in DOMAIN leases, e \in Times : RenewLease(l, e)
           \/ \E l \in DOMAIN leases : ReleaseLease(l)
           \/ \E s \in Sessions, d \in DOMAIN dispatches : Handoff(s, d)
           \/ \E s \in Sessions, w \in Waves, e \in Times : ReserveWave(s, w, e)
           \/ \E kind \in {"lease", "reservation"}, id \in Ids, mode \in Modes : Recover(kind, id, mode)
<1>1. CASE UNCHANGED vars
  BY <1>1 DEF vars, protections
<1>2. CASE Tick
  BY <1>2 DEF Tick, protections
<1>3. CASE Worker
  <2>1. ASSUME NEW d \in DOMAIN intents, AcknowledgeDispatchIntent(d)
        PROVE  \E s \in Sessions, x \in DOMAIN dispatches : Handoff(s, x)
    BY <2>1 DEF AcknowledgeDispatchIntent, Intent, TypeOK
  <2> QED BY <1>3, <2>1 DEF Worker, RegisterAttempt, HandoffDispatch, protections
<1>4. CASE SwarmController
  BY <1>4 DEF SwarmController, RequestDispatchIntent, CancelLifecycle, protections
<1>5. CASE Bridge
  BY <1>5 DEF Bridge, CorrelateDispatchIntent, ObserveLifecycle, AcknowledgeCancellation, protections
<1>6. CASE Owner
  <2>1. DOMAIN leases \subseteq Ids /\ DOMAIN dispatches \subseteq Ids
    BY DEF TypeOK
  <2> QED BY <1>6, <2>1 DEF Owner, Revoke, BindTask, ConfigureSwarm, ConfigureLifecycle, ConfigureRecovery, Retire, protections
<1> QED BY <1>1, <1>2, <1>3, <1>4, <1>5, <1>6 DEF Next

\* No protection is added: some may end, none changes hands.
Fewer ==
    /\ fence' \in {fence, fence + 1} /\ dispatches' = dispatches
    /\ Held' \subseteq Held /\ Retained' \subseteq Retained
    /\ DOMAIN leases' = DOMAIN leases
    /\ \A l \in DOMAIN leases : /\ leases'[l].claim = leases[l].claim /\ leases'[l].fence = leases[l].fence
                                /\ leases'[l].session = leases[l].session
                                /\ leases[l].released => leases'[l].released

\* One lease more, on a claim c that nothing in force overlaps.  It has a new
\* name, or the name of the reservation it replaces.
OneMore(s, c, id) ==
    /\ fence' = fence + 1 /\ recoveries' = recoveries /\ id \notin DOMAIN leases
    /\ DOMAIN leases' = DOMAIN leases \cup {id}
    /\ leases'[id].session = s /\ leases'[id].claim = c /\ leases'[id].fence = fence + 1 /\ ~ leases'[id].released
    /\ \A l \in DOMAIN leases : leases'[l] = leases[l]
    /\ DOMAIN dispatches' = DOMAIN dispatches
    /\ \A d \in DOMAIN dispatches \ {id} : dispatches'[d] = dispatches[d]
    /\ Held' = Held \cup {id} /\ Retained' = Retained \ {id}
    /\ \A l \in Held : ~ Overlap(c, leases[l].claim)
    /\ \A d \in Retained \ {id} : ~ Overlap(c, dispatches[d].claim)

\* changeLease: renewal.
LEMMA RenewEffect ==
    ASSUME TypeOK, NEW l \in DOMAIN leases, NEW e \in Times, RenewLease(l, e)
    PROVE  Fewer /\ Held' = Held /\ Retained' = Retained /\ recoveries' = recoveries /\ fence' = fence
<1>1. /\ fence' = fence /\ dispatches' = dispatches /\ recoveries' = recoveries /\ DOMAIN leases' = DOMAIN leases
      /\ \A m \in DOMAIN leases :
            /\ leases'[m].claim = leases[m].claim /\ leases'[m].fence = leases[m].fence
            /\ leases'[m].session = leases[m].session /\ leases'[m].released = leases[m].released
  BY DEF RenewLease, ChangeLease, Lease, TypeOK
<1> QED BY <1>1 DEF Fewer, Held, Retained, Recovered

\* changeLease: release.
LEMMA ReleaseEffect ==
    ASSUME TypeOK, NEW l \in DOMAIN leases, ReleaseLease(l)
    PROVE  Fewer /\ Held' = Held \ {l} /\ l \in Held /\ Retained' = Retained /\ recoveries' = recoveries /\ fence' = fence
<1>1. /\ fence' = fence /\ dispatches' = dispatches /\ recoveries' = recoveries /\ DOMAIN leases' = DOMAIN leases
      /\ \A m \in DOMAIN leases :
            /\ leases'[m].claim = leases[m].claim /\ leases'[m].fence = leases[m].fence
            /\ leases'[m].session = leases[m].session
            /\ leases'[m].released <=> leases[m].released \/ m = l
  BY DEF ReleaseLease, ChangeLease, Lease, TypeOK
<1>2. ~ leases[l].released
  BY DEF ReleaseLease, ChangeLease, CurrentLease
<1> QED BY <1>1, <1>2 DEF Fewer, Held, Retained, Recovered

\* Recover ends exactly the protection it names.
LEMMA RecoverEffect ==
    ASSUME Inv, NEW kind \in {"lease", "reservation"}, NEW id \in Ids, NEW mode \in Modes, Recover(kind, id, mode)
    PROVE  /\ Fewer /\ fence' = fence + 1
           /\ kind = "lease" => id \in Held /\ Held' = Held \ {id} /\ Retained' = Retained
           /\ kind = "reservation" => /\ id \in Retained /\ leases' = leases
                                      /\ Held' = Held /\ Retained' = Retained \ {id}
           /\ recoveries' = recoveries \cup {Tombstone(kind, id, mode)} /\ Recovered(kind, id)'
<1>0. TypeOK
  BY DEF Inv
<1>1. /\ fence' = fence + 1 /\ dispatches' = dispatches /\ recoveries' = recoveries \cup {Tombstone(kind, id, mode)}
      /\ kind = "lease" => id \in Held /\ leases' = [leases EXCEPT ![id].released = TRUE]
      /\ kind = "reservation" => id \in Retained /\ leases' = leases
  BY DEF Recover
<1>2. \A k, x : Recovered(k, x)' <=> Recovered(k, x) \/ (k = kind /\ x = id)
  <2>1. PICK T : T = Tombstone(kind, id, mode)
    OBVIOUS
  <2>2. T.kind = kind /\ T.id = id
    BY <2>1 DEF Tombstone
  <2> QED BY <1>1, <2>1, <2>2 DEF Recovered
<1>3. CASE kind = "lease"
  <2>1. /\ id \in DOMAIN leases /\ DOMAIN leases' = DOMAIN leases
        /\ \A m \in DOMAIN leases :
            /\ leases'[m].claim = leases[m].claim /\ leases'[m].fence = leases[m].fence
            /\ leases'[m].session = leases[m].session
            /\ leases'[m].released <=> leases[m].released \/ m = id
    BY <1>0, <1>1, <1>3 DEF Held, Lease, TypeOK
  <2>2. Retained' = Retained
    BY <1>1, <1>2, <1>3 DEF Retained
  <2>3. Held' = Held \ {id}
    BY <2>1 DEF Held
  <2> QED BY <1>1, <1>2, <1>3, <2>1, <2>2, <2>3 DEF Fewer
<1>4. CASE kind = "reservation"
  <2>1. Retained' = Retained \ {id}
    BY <1>1, <1>2, <1>4 DEF Retained
  <2>2. Held' = Held
    BY <1>1, <1>4 DEF Held
  <2> QED BY <1>1, <1>2, <1>4, <2>1, <2>2 DEF Fewer
<1> QED BY <1>3, <1>4

\* AcquireLease adds one lease with a new name.
LEMMA AcquireEffect ==
    ASSUME Inv, NEW s \in Sessions, NEW c \in Claims, NEW e \in Times, AcquireLease(s, c, e)
    PROVE  OneMore(s, c, fence + 1) /\ fence + 1 \notin DOMAIN dispatches /\ dispatches' = dispatches
<1>1. /\ fence' = fence + 1 /\ dispatches' = dispatches /\ recoveries' = recoveries
      /\ leases' = Put(leases, fence + 1, LeaseOf(s, c, e))
      /\ \A l \in Held : ~ Overlap(c, leases[l].claim)
      /\ \A d \in Retained : ~ Overlap(c, dispatches[d].claim)
  BY DEF AcquireLease, FreeExcept
<1>2. fence \in Nat /\ fence + 1 \notin DOMAIN leases /\ fence + 1 \notin DOMAIN dispatches
  BY DEF Inv, Numbered, TypeOK
<1>3. /\ DOMAIN leases' = DOMAIN leases \cup {fence + 1} /\ leases'[fence + 1] = LeaseOf(s, c, e)
      /\ \A l \in DOMAIN leases : leases'[l] = leases[l]
  BY <1>1, <1>2 DEF Put
<1>4. Retained' = Retained
  BY <1>1 DEF Retained, Recovered
<1>5. Held' = Held \cup {fence + 1}
  BY <1>3 DEF Held, LeaseOf
<1>6. Retained = Retained \ {fence + 1}
  BY <1>2 DEF Retained
<1>7. /\ leases'[fence + 1].session = s /\ leases'[fence + 1].claim = c
      /\ leases'[fence + 1].fence = fence + 1 /\ ~ leases'[fence + 1].released
  BY <1>3 DEF LeaseOf
<1>8. \A d \in Retained \ {fence + 1} : ~ Overlap(c, dispatches[d].claim)
  BY <1>1
<1> QED BY <1>1, <1>2, <1>3, <1>4, <1>5, <1>6, <1>7, <1>8 DEF OneMore

\* handoffDispatch replaces the reservation by a lease of the same name.
LEMMA HandoffEffect ==
    ASSUME Inv, NEW s \in Sessions, NEW d \in DOMAIN dispatches, Handoff(s, d)
    PROVE  /\ OneMore(s, dispatches[d].claim, d) /\ d \in Retained
           /\ dispatches'[d] = [dispatches[d] EXCEPT !.converted = TRUE, !.worker = s]
<1>1. /\ fence' = fence + 1 /\ recoveries' = recoveries /\ d \in Retained
      /\ dispatches' = [dispatches EXCEPT ![d].converted = TRUE, ![d].worker = s]
      /\ \A l \in Held : ~ Overlap(dispatches[d].claim, leases[l].claim)
      /\ \A x \in Retained \ {d} : ~ Overlap(dispatches[d].claim, dispatches[x].claim)
  BY DEF Handoff, MayHandoff, FreeExcept
<1> DEFINE v == [session |-> s, claim |-> dispatches[d].claim, fence |-> fence + 1,
                 expires |-> dispatches[d].expires, released |-> FALSE]
<1>2. leases' = Put(leases, d, v)
  BY DEF Handoff
<1>3. d \notin DOMAIN leases
  BY <1>1 DEF Inv, Numbered, Retained
<1>4. /\ DOMAIN leases' = DOMAIN leases \cup {d} /\ leases'[d] = v
      /\ \A l \in DOMAIN leases : leases'[l] = leases[l]
  BY <1>2, <1>3 DEF Put
<1>5. /\ DOMAIN dispatches' = DOMAIN dispatches
      /\ dispatches'[d] = [dispatches[d] EXCEPT !.converted = TRUE, !.worker = s]
      /\ \A x \in DOMAIN dispatches \ {d} : dispatches'[x] = dispatches[x]
  BY <1>1 DEF Inv, TypeOK
<1>6. dispatches'[d].converted
  <2>1. dispatches[d] \in Dispatch
    BY DEF Inv, TypeOK
  <2> QED BY <1>5, <2>1 DEF Dispatch
<1>7. Retained' = Retained \ {d}
  BY <1>1, <1>5, <1>6 DEF Retained, Recovered
<1>8. Held' = Held \cup {d}
  BY <1>4 DEF Held
<1> QED BY <1>1, <1>3, <1>4, <1>5, <1>7, <1>8 DEF OneMore

\* reserveWaveState adds reservations with new names and fences.
LEMMA ReserveEffect ==
    ASSUME Inv, NEW s \in Sessions, NEW w \in Waves, NEW e \in Times, ReserveWave(s, w, e)
    PROVE  /\ fence \in Nat /\ Len(w) \in Nat \ {0} /\ fence' = fence + Len(w)
           /\ leases' = leases /\ recoveries' = recoveries /\ Held' = Held
           /\ DOMAIN dispatches' = DOMAIN dispatches \cup fence + 1 .. fence'
           /\ \A d \in DOMAIN dispatches : dispatches'[d] = dispatches[d]
           /\ \A d \in fence + 1 .. fence' :
                /\ d - fence \in DOMAIN w /\ w[d - fence] \in Claims
                /\ d \notin DOMAIN dispatches /\ d \notin DOMAIN leases
                /\ dispatches'[d] = Reservation(s, w[d - fence], e)
           /\ Retained' = Retained \cup fence + 1 .. fence'
<1>1. /\ fence' = fence + Len(w) /\ leases' = leases /\ recoveries' = recoveries
      /\ dispatches' = [d \in DOMAIN dispatches \cup fence + 1 .. fence + Len(w) |->
                          IF d <= fence THEN dispatches[d] ELSE Reservation(s, w[d - fence], e)]
  BY DEF ReserveWave
<1>2. fence \in Nat /\ Len(w) \in Nat \ {0} /\ DOMAIN w = 1 .. Len(w) /\ \A i \in 1 .. Len(w) : w[i] \in Claims
  BY WaveShape DEF Inv, TypeOK
<1>3. \A x \in DOMAIN dispatches \cup DOMAIN leases : x \in Nat /\ x <= fence
  BY <1>2 DEF Inv, Numbered
<1>4. /\ DOMAIN dispatches' = DOMAIN dispatches \cup fence + 1 .. fence'
      /\ \A d \in DOMAIN dispatches : dispatches'[d] = dispatches[d]
  BY <1>1, <1>3
<1>5. \A d \in fence + 1 .. fence' :
        /\ d - fence \in DOMAIN w /\ w[d - fence] \in Claims
        /\ d \notin DOMAIN dispatches /\ d \notin DOMAIN leases
        /\ dispatches'[d] = Reservation(s, w[d - fence], e)
  BY <1>1, <1>2, <1>3
<1>6. \A d \in fence + 1 .. fence' : ~ Recovered("reservation", d)'
  <2>1. \A r \in recoveries : r.kind = "reservation" => r.id \in DOMAIN dispatches
    BY DEF Inv, Tombstones
  <2> QED BY <1>1, <1>5, <2>1 DEF Recovered
<1>7. Retained' = Retained \cup fence + 1 .. fence'
  <2>1. \A d \in fence + 1 .. fence' : ~ dispatches'[d].converted
    <3>1. \A i : Reservation(s, w[i], e).converted = FALSE
      BY DEF Reservation
    <3> QED BY <1>5, <3>1
  <2>2. \A d : Recovered("reservation", d)' <=> Recovered("reservation", d)
    BY <1>1 DEF Recovered
  <2> QED BY <1>4, <1>5, <1>6, <2>1, <2>2 DEF Retained
<1>8. Held' = Held
  BY <1>1 DEF Held
<1> QED BY <1>1, <1>2, <1>4, <1>5, <1>7, <1>8

-----------------------------------------------------------------------------
(* Exclusion and fences are preserved.                                      *)

\* A protection that ends disturbs nothing.
LEMMA FewerKeeps ==
    ASSUME Inv, Fewer
    PROVE  (Numbered /\ Exclusive /\ NewestFence)'
<1>1. fence \in Nat /\ fence' \in Nat /\ fence <= fence'
  BY DEF Inv, TypeOK, Fewer
<1>2. Numbered'
  BY <1>1 DEF Inv, Numbered, Fewer
<1>3. Held' \subseteq DOMAIN leases /\ Retained' \subseteq DOMAIN dispatches
  BY DEF Fewer, Held, Retained
<1>4. Exclusive'
  BY <1>3 DEF Inv, Exclusive, Fewer
<1>5. NewestFence'
  BY <1>3 DEF Inv, NewestFence, Fewer
<1> QED BY <1>2, <1>4, <1>5

\* A lease that is new, or replaces its reservation, keeps the order.
LEMMA OneMoreKeeps ==
    ASSUME Inv, NEW s, NEW c, NEW id, OneMore(s, c, id),
           \/ id = fence + 1 /\ id \notin DOMAIN dispatches
           \/ id \in Retained /\ c = dispatches[id].claim /\ dispatches'[id].converted /\ dispatches'[id].claim = c
    PROVE  (Numbered /\ Exclusive /\ NewestFence)'
<1>0. /\ fence \in Nat /\ fence' = fence + 1 /\ DOMAIN leases' = DOMAIN leases \cup {id} /\ id \notin DOMAIN leases
      /\ leases'[id].claim = c /\ leases'[id].fence = fence + 1
      /\ \A l \in DOMAIN leases : leases'[l] = leases[l]
      /\ DOMAIN dispatches' = DOMAIN dispatches
      /\ \A d \in DOMAIN dispatches \ {id} : dispatches'[d] = dispatches[d]
      /\ Held' = Held \cup {id} /\ Retained' = Retained \ {id}
      /\ \A l \in Held : ~ Overlap(c, leases[l].claim)
      /\ \A d \in Retained \ {id} : ~ Overlap(c, dispatches[d].claim)
      /\ Held \subseteq DOMAIN leases /\ Retained \subseteq DOMAIN dispatches
  BY DEF Inv, TypeOK, OneMore, Held, Retained
<1>1. /\ \A l \in DOMAIN leases : l \in Nat /\ l <= fence /\ leases[l].fence \in Nat /\ leases[l].fence <= fence
      /\ \A d \in DOMAIN dispatches : d \in Nat /\ d <= fence
      /\ id \in 1 .. fence + 1 /\ id \in DOMAIN dispatches => id <= fence
  BY <1>0 DEF Inv, Numbered
<1>2. \A d \in DOMAIN dispatches : dispatches'[d].claim = dispatches[d].claim
  BY <1>0
<1>3. Numbered'
  <2>1. DOMAIN leases' \subseteq 1 .. fence' /\ DOMAIN dispatches' \subseteq 1 .. fence'
    BY <1>0, <1>1 DEF Inv, Numbered
  <2>2. \A l \in DOMAIN leases' : leases'[l].fence \in l .. fence'
    BY <1>0, <1>1 DEF Inv, Numbered
  <2>3. ASSUME NEW l \in DOMAIN leases' \cap DOMAIN dispatches'
        PROVE  dispatches'[l].converted /\ leases'[l].claim = dispatches'[l].claim /\ l < leases'[l].fence
    <3>1. CASE l = id
      BY <1>0, <1>1, <2>3, <3>1
    <3>2. CASE l # id
      BY <1>0, <2>3, <3>2 DEF Inv, Numbered
    <3> QED BY <3>1, <3>2
  <2>4. \A d \in DOMAIN dispatches' : dispatches'[d].converted => d \in DOMAIN leases'
    BY <1>0 DEF Inv, Numbered
  <2> QED BY <2>1, <2>2, <2>3, <2>4 DEF Numbered
<1>4. Exclusive'
  <2>1. \A l, m \in Held' : l # m => ~ Overlap(leases'[l].claim, leases'[m].claim)
    BY <1>0, OverlapSymmetric DEF Inv, Exclusive
  <2>2. \A x, d \in Retained' : x # d => ~ Overlap(dispatches'[x].claim, dispatches'[d].claim)
    BY <1>0, <1>2 DEF Inv, Exclusive
  <2>3. \A l \in Held', d \in Retained' : ~ Overlap(leases'[l].claim, dispatches'[d].claim)
    BY <1>0, <1>2 DEF Inv, Exclusive
  <2> QED BY <2>1, <2>2, <2>3 DEF Exclusive
<1>5. NewestFence'
  <2>1. ASSUME NEW l \in Held', NEW m \in DOMAIN leases' \ {l}, Overlap(leases'[l].claim, leases'[m].claim)
        PROVE  leases'[m].fence < leases'[l].fence
    <3>1. CASE l = id
      BY <1>0, <1>1, <3>1
    <3>2. CASE l # id /\ m = id
      BY <1>0, <2>1, <3>2, OverlapSymmetric
    <3>3. CASE l # id /\ m # id
      BY <1>0, <2>1, <3>3 DEF Inv, NewestFence
    <3> QED BY <3>1, <3>2, <3>3
  <2>2. ASSUME NEW l \in Held', NEW d \in DOMAIN dispatches', Overlap(leases'[l].claim, dispatches'[d].claim)
        PROVE  d < leases'[l].fence
    <3>1. CASE l = id
      BY <1>0, <1>1, <3>1
    <3>2. CASE l # id
      BY <1>0, <1>2, <2>2, <3>2 DEF Inv, NewestFence
    <3> QED BY <3>1, <3>2
  <2>3. ASSUME NEW d \in Retained', NEW m \in DOMAIN leases', Overlap(dispatches'[d].claim, leases'[m].claim)
        PROVE  leases'[m].fence < d
    <3>1. CASE m = id
      BY <1>0, <2>3, <3>1, OverlapSymmetric
    <3>2. CASE m # id
      BY <1>0, <2>3, <3>2 DEF Inv, NewestFence
    <3> QED BY <3>1, <3>2
  <2>4. ASSUME NEW d \in Retained', NEW x \in DOMAIN dispatches' \ {d}, Overlap(dispatches'[d].claim, dispatches'[x].claim)
        PROVE  x < d
    BY <1>0, <1>2, <2>4 DEF Inv, NewestFence
  <2> QED BY <2>1, <2>2, <2>3, <2>4 DEF NewestFence
<1> QED BY <1>3, <1>4, <1>5

\* The reservations of a wave overlap nothing in force and not each other.
LEMMA WaveIsFree ==
    ASSUME Inv, NEW s \in Sessions, NEW w \in Waves, NEW e \in Times, ReserveWave(s, w, e),
           NEW d \in fence + 1 .. fence'
    PROVE  /\ dispatches'[d].claim = w[d - fence]
           /\ \A l \in Held : ~ Overlap(dispatches'[d].claim, leases[l].claim)
           /\ \A x \in Retained' \ {d} : ~ Overlap(dispatches'[d].claim, dispatches'[x].claim)
<1>1. /\ \A i \in DOMAIN w : /\ \A l \in Held : ~ Overlap(w[i], leases[l].claim)
                             /\ \A x \in Retained : ~ Overlap(w[i], dispatches[x].claim)
                             /\ \A j \in DOMAIN w : i # j => ~ Overlap(w[i], w[j])
  BY DEF ReserveWave, Admissible, FreeExcept
<1>2. \A x \in fence + 1 .. fence' : x - fence \in DOMAIN w /\ dispatches'[x].claim = w[x - fence]
  <2>1. \A i : Reservation(s, w[i], e).claim = w[i]
    BY DEF Reservation
  <2> QED BY <2>1, ReserveEffect
<1>3. ASSUME NEW x \in Retained' \ {d} PROVE ~ Overlap(dispatches'[d].claim, dispatches'[x].claim)
  <2>1. CASE x \in Retained
    <3>1. dispatches'[x] = dispatches[x]
      BY <2>1, ReserveEffect DEF Retained
    <3> QED BY <1>1, <1>2, <2>1, <3>1
  <2>2. CASE x \in fence + 1 .. fence'
    <3>1. x - fence # d - fence
      BY <1>3, <2>2, ReserveEffect
    <3> QED BY <1>1, <1>2, <2>2, <3>1
  <2> QED BY <1>3, <2>1, <2>2, ReserveEffect
<1> QED BY <1>1, <1>2, <1>3

\* The reservations of a wave keep the order.
LEMMA ReserveKeeps ==
    ASSUME Inv, NEW s \in Sessions, NEW w \in Waves, NEW e \in Times, ReserveWave(s, w, e)
    PROVE  (Numbered /\ Exclusive /\ NewestFence)'
<1> DEFINE N == fence + 1 .. fence'
<1>0. /\ fence \in Nat /\ Len(w) \in Nat /\ fence' = fence + Len(w)
      /\ leases' = leases /\ Held' = Held
      /\ DOMAIN dispatches' = DOMAIN dispatches \cup N
      /\ \A d \in DOMAIN dispatches : dispatches'[d] = dispatches[d]
      /\ \A d \in N : d \notin DOMAIN dispatches /\ d \notin DOMAIN leases
      /\ Retained' = Retained \cup N
      /\ Held \subseteq DOMAIN leases /\ Retained \subseteq DOMAIN dispatches
  BY ReserveEffect DEF Held, Retained
<1>1. \A d \in N : ~ dispatches'[d].converted
  BY <1>0 DEF Retained
<1>2. ASSUME NEW d \in N
      PROVE  /\ \A l \in Held : ~ Overlap(dispatches'[d].claim, leases[l].claim)
             /\ \A x \in Retained' \ {d} : ~ Overlap(dispatches'[d].claim, dispatches'[x].claim)
  BY <1>2, WaveIsFree
<1>3. /\ \A l \in DOMAIN leases : l \in Nat /\ l <= fence /\ leases[l].fence \in Nat /\ leases[l].fence <= fence
      /\ \A d \in DOMAIN dispatches : d \in Nat /\ d <= fence
  BY <1>0 DEF Inv, Numbered
<1>4. Numbered'
  <2>1. DOMAIN leases' \subseteq 1 .. fence' /\ DOMAIN dispatches' \subseteq 1 .. fence'
    BY <1>0, <1>3 DEF Inv, Numbered
  <2>2. \A l \in DOMAIN leases' : leases'[l].fence \in l .. fence'
    BY <1>0, <1>3 DEF Inv, Numbered
  <2>3. \A l \in DOMAIN leases' \cap DOMAIN dispatches' :
            dispatches'[l].converted /\ leases'[l].claim = dispatches'[l].claim /\ l < leases'[l].fence
    BY <1>0 DEF Inv, Numbered
  <2>4. \A d \in DOMAIN dispatches' : dispatches'[d].converted => d \in DOMAIN leases'
    BY <1>0, <1>1 DEF Inv, Numbered
  <2> QED BY <2>1, <2>2, <2>3, <2>4 DEF Numbered
<1> HIDE DEF N
<1>5. Exclusive'
  <2>1. \A l, m \in Held' : l # m => ~ Overlap(leases'[l].claim, leases'[m].claim)
    BY <1>0 DEF Inv, Exclusive
  <2>2. \A x, d \in Retained' : x # d => ~ Overlap(dispatches'[x].claim, dispatches'[d].claim)
    BY <1>0, <1>2, OverlapSymmetric DEF Inv, Exclusive
  <2>3. \A l \in Held', d \in Retained' : ~ Overlap(leases'[l].claim, dispatches'[d].claim)
    BY <1>0, <1>2, OverlapSymmetric DEF Inv, Exclusive
  <2> QED BY <2>1, <2>2, <2>3 DEF Exclusive
<1>6. NewestFence'
  <2>0. \A d \in N : d \in Nat /\ fence < d
    BY <1>0 DEF N
  <2>1. \A l \in Held' : \A m \in DOMAIN leases' \ {l} :
            Overlap(leases'[l].claim, leases'[m].claim) => leases'[m].fence < leases'[l].fence
    BY <1>0 DEF Inv, NewestFence
  <2>2. \A l \in Held', d \in DOMAIN dispatches' : Overlap(leases'[l].claim, dispatches'[d].claim) => d < leases'[l].fence
    BY <1>0, <1>2, OverlapSymmetric DEF Inv, NewestFence
  <2>3. ASSUME NEW d \in Retained', NEW m \in DOMAIN leases', Overlap(dispatches'[d].claim, leases'[m].claim)
        PROVE  leases'[m].fence < d
    <3>1. CASE d \in N
      BY <1>0, <1>3, <2>0, <3>1
    <3>2. CASE d \in Retained
      BY <1>0, <2>3, <3>2 DEF Inv, NewestFence
    <3> QED BY <1>0, <2>3, <3>1, <3>2
  <2>4. ASSUME NEW d \in Retained', NEW x \in DOMAIN dispatches' \ {d}, Overlap(dispatches'[d].claim, dispatches'[x].claim)
        PROVE  x < d
    <3>1. CASE d \in N /\ x \in N
      BY <1>0, <1>2, <2>4, <3>1
    <3>2. CASE d \in N /\ x \in DOMAIN dispatches
      BY <1>0, <1>3, <2>0, <3>2
    <3>3. CASE d \in Retained /\ x \in N
      BY <1>0, <1>2, <2>4, <3>3, OverlapSymmetric
    <3>4. CASE d \in Retained /\ x \in DOMAIN dispatches
      BY <1>0, <2>4, <3>4 DEF Inv, NewestFence
    <3> QED BY <1>0, <2>4, <3>1, <3>2, <3>3, <3>4
  <2> QED BY <2>1, <2>2, <2>3, <2>4 DEF NewestFence
<1> QED BY <1>4, <1>5, <1>6

-----------------------------------------------------------------------------
(* Tombstones.                                                              *)

\* An intent keeps its worker, and appears only for a retained reservation.
LEMMA IntentsKeepWorkers ==
    ASSUME TypeOK, [Next]_vars
    PROVE  /\ DOMAIN intents \subseteq DOMAIN intents'
           /\ \A d \in DOMAIN intents : intents'[d].worker = intents[d].worker
           /\ \A d \in DOMAIN intents' \ DOMAIN intents : d \in Retained /\ UNCHANGED protections
<1> USE DEF clock, bindings, protections, hosts, policies
<1>1. CASE UNCHANGED intents
  BY <1>1
<1>2. ASSUME NEW d \in DOMAIN intents, NEW state, intents' = [intents EXCEPT ![d].state = state]
      PROVE  DOMAIN intents' = DOMAIN intents /\ \A x \in DOMAIN intents : intents'[x].worker = intents[x].worker
  BY <1>2 DEF TypeOK, Intent
<1>3. CASE Worker
  BY <1>1, <1>2, <1>3 DEF Worker, RegisterAttempt, AcquireLease, RenewLease, ReleaseLease, ChangeLease,
                          HandoffDispatch, AcknowledgeDispatchIntent
<1>4. CASE SwarmController
  <2>1. ASSUME NEW d \in DOMAIN dispatches, NEW b \in Sessions, NEW w \in Sessions, RequestDispatchIntent(d, b, w)
        PROVE  /\ DOMAIN intents' = DOMAIN intents \cup {d} /\ d \in Retained /\ UNCHANGED protections
               /\ \A x \in DOMAIN intents : intents'[x] = intents[x]
    BY <2>1 DEF RequestDispatchIntent, AdmitDispatch, Put
  <2>2. ASSUME NEW s \in Sessions, NEW w \in Waves, NEW e \in Times, ReserveWave(s, w, e) PROVE UNCHANGED intents
    BY <2>2 DEF ReserveWave
  <2>3. ASSUME NEW d \in DOMAIN intents, CancelLifecycle(d) PROVE UNCHANGED intents
    BY <2>3 DEF CancelLifecycle
  <2> QED BY <1>1, <1>4, <2>1, <2>2, <2>3 DEF SwarmController
<1>5. CASE Bridge
  BY <1>1, <1>2, <1>5 DEF Bridge, CorrelateDispatchIntent, ObserveLifecycle, AcknowledgeCancellation
<1>6. CASE Owner
  BY <1>1, <1>6 DEF Owner, Revoke, BindTask, ConfigureSwarm, ConfigureLifecycle, ConfigureRecovery, Recover, Retire
<1> QED BY <1>1, <1>3, <1>4, <1>5, <1>6 DEF Next, Tick, vars

\* Names, claims and holders of what exists do not change.
LEMMA RecordsStay ==
    ASSUME Inv, [Next]_vars
    PROVE  /\ recoveries \subseteq recoveries'
           /\ DOMAIN leases \subseteq DOMAIN leases' /\ DOMAIN dispatches \subseteq DOMAIN dispatches'
           /\ \A l \in DOMAIN leases : /\ leases'[l].session = leases[l].session /\ leases'[l].claim = leases[l].claim
                                       /\ leases[l].released => leases'[l].released
           /\ \A d \in DOMAIN dispatches : dispatches'[d].claim = dispatches[d].claim
           /\ \A d \in DOMAIN dispatches \ Retained : dispatches'[d] = dispatches[d]
<1>0. TypeOK
  BY DEF Inv
<1>1. CASE UNCHANGED protections
  BY <1>1 DEF protections
<1>2. ASSUME NEW s \in Sessions, NEW c \in Claims, NEW e \in Times, AcquireLease(s, c, e) PROVE OneMore(s, c, fence + 1) /\ dispatches' = dispatches
  BY <1>2, AcquireEffect
<1>3. ASSUME NEW s \in Sessions, NEW d \in DOMAIN dispatches, Handoff(s, d)
      PROVE  /\ OneMore(s, dispatches[d].claim, d) /\ d \in Retained
             /\ dispatches'[d].claim = dispatches[d].claim
  <2>1. dispatches[d] \in Dispatch
    BY <1>0 DEF TypeOK
  <2>2. [dispatches[d] EXCEPT !.converted = TRUE, !.worker = s].claim = dispatches[d].claim
    BY <2>1 DEF Dispatch
  <2> QED BY <1>3, <2>2, HandoffEffect
<1>4. ASSUME NEW kind \in {"lease", "reservation"}, NEW id \in Ids, NEW mode \in Modes, Recover(kind, id, mode)
      PROVE  Fewer /\ recoveries \subseteq recoveries'
  BY <1>4, RecoverEffect
<1>5. ASSUME NEW s \in Sessions, NEW w \in Waves, NEW e \in Times, ReserveWave(s, w, e)
      PROVE  /\ leases' = leases /\ recoveries' = recoveries /\ DOMAIN dispatches \subseteq DOMAIN dispatches'
             /\ \A d \in DOMAIN dispatches : dispatches'[d] = dispatches[d]
  BY <1>5, ReserveEffect
<1>6. ASSUME NEW l \in DOMAIN leases, \/ ReleaseLease(l) \/ \E e \in Times : RenewLease(l, e)
      PROVE  Fewer /\ recoveries' = recoveries
  BY <1>0, <1>6, ReleaseEffect, RenewEffect
<1>7. CASE Fewer /\ recoveries \subseteq recoveries'
  BY <1>7 DEF Fewer
<1>8. ASSUME NEW s, NEW c, NEW id, OneMore(s, c, id),
             id \in DOMAIN dispatches => id \in Retained /\ dispatches'[id].claim = dispatches[id].claim
      PROVE  /\ recoveries' = recoveries
             /\ DOMAIN leases \subseteq DOMAIN leases' /\ DOMAIN dispatches' = DOMAIN dispatches
             /\ \A l \in DOMAIN leases : leases'[l] = leases[l]
             /\ \A d \in DOMAIN dispatches : dispatches'[d].claim = dispatches[d].claim
             /\ \A d \in DOMAIN dispatches \ Retained : dispatches'[d] = dispatches[d]
  BY <1>8 DEF OneMore
<1>9. \A s \in Sessions, c \in Claims, e \in Times : AcquireLease(s, c, e) => fence + 1 \notin DOMAIN dispatches
  BY AcquireEffect
<1> QED BY <1>0, <1>1, <1>2, <1>3, <1>4, <1>5, <1>6, <1>7, <1>8, <1>9, ProtectionSteps

\* recoveryTarget goes on finding the same session behind a tombstone.
LEMMA TargetStays ==
    ASSUME Inv, [Next]_vars, NEW r \in recoveries
    PROVE  TargetSession(r.kind, r.id)' = TargetSession(r.kind, r.id)
<1>0. r.kind \in {"lease", "reservation"} /\ TypeOK
  BY DEF Inv, TypeOK, RecoveryT
<1>1. CASE r.kind = "lease"
  <2>1. r.id \in DOMAIN leases
    BY <1>1 DEF Inv, Tombstones
  <2> QED BY <1>1, <2>1, RecordsStay DEF TargetSession
<1>2. CASE r.kind = "reservation"
  <2>1. r.id \notin Retained
    BY <1>2 DEF Retained, Recovered
  <2>2. r.id \in DOMAIN intents' <=> r.id \in DOMAIN intents
    BY <1>0, <2>1, IntentsKeepWorkers
  <2>3. r.id \in DOMAIN intents => intents'[r.id].worker = intents[r.id].worker
    BY <1>0, IntentsKeepWorkers
  <2> QED BY <1>2, <2>2, <2>3 DEF TargetSession
<1> QED BY <1>0, <1>1, <1>2

\* Every operation leaves each tombstone about something that has ended.
LEMMA TombstonesNext ==
    ASSUME Inv, [Next]_vars
    PROVE  Tombstones'
<1> DEFINE P(r) ==
        /\ r.kind = "lease" => /\ r.id \in DOMAIN leases' /\ leases'[r.id].released
                               /\ r.task = leases'[r.id].claim.task
        /\ r.kind = "reservation" => /\ r.id \in DOMAIN dispatches' /\ ~ dispatches'[r.id].converted
                                     /\ r.task = dispatches'[r.id].claim.task
        /\ r.family = IF TargetSession(r.kind, r.id)' = NoSession THEN NoSession
                      ELSE Family(TargetSession(r.kind, r.id)')
<1>1. ASSUME NEW r \in recoveries PROVE P(r)
  <2>1. /\ r.kind = "lease" => /\ r.id \in DOMAIN leases /\ leases[r.id].released
                               /\ r.task = leases[r.id].claim.task
        /\ r.kind = "reservation" => /\ r.id \in DOMAIN dispatches /\ ~ dispatches[r.id].converted
                                     /\ r.task = dispatches[r.id].claim.task /\ r.id \notin Retained
        /\ r.family = IF TargetSession(r.kind, r.id) = NoSession THEN NoSession
                      ELSE Family(TargetSession(r.kind, r.id))
    BY DEF Inv, Tombstones, Retained, Recovered
  <2>2. TargetSession(r.kind, r.id)' = TargetSession(r.kind, r.id)
    BY TargetStays
  <2> QED BY <2>1, <2>2, RecordsStay
<1>2. ASSUME NEW kind \in {"lease", "reservation"}, NEW id \in Ids, NEW mode \in Modes, Recover(kind, id, mode)
      PROVE  \A T : T = Tombstone(kind, id, mode) => P(T)
  <2>1. UNCHANGED <<intents, dispatches>>
    BY <1>2 DEF Recover, hosts
  <2>2. /\ kind = "lease" => /\ id \in DOMAIN leases /\ id \in DOMAIN leases' /\ leases'[id].released
                             /\ leases'[id].claim = leases[id].claim /\ leases'[id].session = leases[id].session
        /\ kind = "reservation" => id \in DOMAIN dispatches /\ ~ dispatches[id].converted
    <3>1. Fewer /\ (kind = "lease" => id \in Held /\ id \notin Held') /\ (kind = "reservation" => id \in Retained)
      BY <1>2, RecoverEffect
    <3> QED BY <3>1 DEF Fewer, Held, Retained
  <2>3. TargetSession(kind, id)' = TargetSession(kind, id)
    BY <2>1, <2>2 DEF TargetSession
  <2>4. SUFFICES ASSUME NEW T, T = Tombstone(kind, id, mode) PROVE P(T)
    OBVIOUS
  <2>5. /\ T.kind = kind /\ T.id = id
        /\ T.task = (IF kind = "lease" THEN leases[id].claim ELSE dispatches[id].claim).task
        /\ T.family = IF TargetSession(kind, id) = NoSession THEN NoSession ELSE Family(TargetSession(kind, id))
    BY <2>4 DEF Tombstone
  <2> QED BY <2>1, <2>2, <2>3, <2>5
<1>3. \A r \in recoveries' : P(r)
  <2>1. \/ recoveries' = recoveries
        \/ \E kind \in {"lease", "reservation"}, id \in Ids, mode \in Modes :
                Recover(kind, id, mode) /\ recoveries' = recoveries \cup {Tombstone(kind, id, mode)}
    BY ProtectionSteps DEF Inv, AcquireLease, RenewLease, ReleaseLease, ChangeLease, Handoff, ReserveWave,
                           Recover, protections
  <2> HIDE DEF P
  <2> QED BY <1>1, <1>2, <2>1
<1> QED BY <1>3 DEF Tombstones

-----------------------------------------------------------------------------
(* Theorems.                                                                *)

\* Every operation preserves the inductive invariant.
LEMMA InvNext ==
    ASSUME Inv, [Next]_vars
    PROVE  Inv'
<1>0. TypeOK /\ Numbered
  BY DEF Inv
<1>1. TypeOK' /\ Tombstones'
  BY <1>0, TypeNext, TombstonesNext
<1>2. (Numbered /\ Exclusive /\ NewestFence)'
  <2>1. CASE UNCHANGED protections
    <3>1. Held' = Held /\ Retained' = Retained
      BY <2>1 DEF protections, Held, Retained, Recovered
    <3> QED BY <2>1, <3>1 DEF protections, Inv, Numbered, Exclusive, NewestFence
  <2>2. ASSUME NEW s \in Sessions, NEW c \in Claims, NEW e \in Times, AcquireLease(s, c, e)
        PROVE  (Numbered /\ Exclusive /\ NewestFence)'
    BY <2>2, AcquireEffect, OneMoreKeeps
  <2>3. ASSUME NEW s \in Sessions, NEW d \in DOMAIN dispatches, Handoff(s, d)
        PROVE  (Numbered /\ Exclusive /\ NewestFence)'
    <3>1. OneMore(s, dispatches[d].claim, d) /\ d \in Retained
      BY <2>3, HandoffEffect
    <3>2. dispatches'[d].claim = dispatches[d].claim
      BY RecordsStay
    <3>3. dispatches'[d].converted
      <4>1. dispatches[d] \in Dispatch
        BY <1>0 DEF TypeOK
      <4>2. [dispatches[d] EXCEPT !.converted = TRUE, !.worker = s].converted
        BY <4>1 DEF Dispatch
      <4> QED BY <2>3, <4>2, HandoffEffect
    <3> QED BY <3>1, <3>2, <3>3, OneMoreKeeps
  <2> QED BY <1>0, <2>1, <2>2, <2>3, ProtectionSteps, RenewEffect, ReleaseEffect, RecoverEffect, FewerKeeps, ReserveKeeps
<1> QED BY <1>1, <1>2 DEF Inv

\* The inductive invariant: every record has its type and place, and the
\* protections in force exclude each other in the order of their fences.
THEOREM Invariance == Spec => []Inv
<1>1. Init => Inv
  <2> SUFFICES ASSUME Init PROVE Inv
    OBVIOUS
  <2>1. DOMAIN leases = {} /\ DOMAIN dispatches = {} /\ recoveries = {} /\ fence = 0
    BY DEF Init
  <2>2. Held = {} /\ Retained = {}
    BY <2>1 DEF Held, Retained
  <2> QED BY <2>1, <2>2, TypeInit DEF Inv, Numbered, Tombstones, Exclusive, NewestFence
<1>2. Inv /\ [Next]_vars => Inv'
  BY InvNext
<1> QED BY <1>1, <1>2, PTL DEF Spec

\* The aggregate stays well formed, whatever operations are applied.
THEOREM TypeCorrect == Spec => []TypeOK
<1>1. Inv => TypeOK
  BY DEF Inv
<1> QED BY <1>1, Invariance, PTL

\* Leases and reservations in force never overlap.
THEOREM Exclusion == Spec => []Exclusive
<1>1. Inv => Exclusive
  BY DEF Inv
<1> QED BY <1>1, Invariance, PTL

\* What is in force has the newest fence of all it overlaps.
THEOREM FencesOrder == Spec => []NewestFence
<1>1. Inv => NewestFence
  BY DEF Inv
<1> QED BY <1>1, Invariance, PTL

-----------------------------------------------------------------------------
(* What the protocols promise.                                             *)

HIDE DEF Times, Ids


\* A handover leaves no moment at which the claim is free.
THEOREM NoGapInHandover == Spec => NoGap
<1> DEFINE A == \A d \in Retained :
                 \/ d \in Retained' \/ Recovered("reservation", d)'
                 \/ /\ d \in Held' /\ leases'[d].claim = dispatches[d].claim
                    /\ leases'[d].session = dispatches'[d].worker
<1>1. Inv /\ [Next]_vars => [A]_vars
  <2> SUFFICES ASSUME Inv, [Next]_vars, NEW d \in Retained, d \notin Retained', ~ Recovered("reservation", d)'
               PROVE  /\ d \in Held' /\ leases'[d].claim = dispatches[d].claim
                      /\ leases'[d].session = dispatches'[d].worker
    OBVIOUS
  <2>0. TypeOK
    BY DEF Inv
  <2>1. CASE UNCHANGED protections
    BY <2>1 DEF protections, Retained, Recovered
  <2>2. ASSUME NEW s \in Sessions, NEW c \in Claims, NEW e \in Times, AcquireLease(s, c, e) PROVE FALSE
    BY <2>2, AcquireEffect DEF OneMore, Retained
  <2>3. ASSUME NEW s \in Sessions, NEW x \in DOMAIN dispatches, Handoff(s, x)
        PROVE  /\ d \in Held' /\ leases'[d].claim = dispatches[d].claim
               /\ leases'[d].session = dispatches'[d].worker
    <3>1. OneMore(s, dispatches[x].claim, x) /\ dispatches'[x] = [dispatches[x] EXCEPT !.converted = TRUE, !.worker = s]
      BY <2>3, HandoffEffect
    <3>2. d = x
      BY <3>1 DEF OneMore
    <3>3. dispatches[x] \in Dispatch
      BY <2>0 DEF TypeOK
    <3>4. dispatches'[x].worker = s
      BY <3>1, <3>3 DEF Dispatch
    <3> QED BY <3>1, <3>2, <3>4 DEF OneMore
  <2>4. ASSUME NEW kind \in {"lease", "reservation"}, NEW id \in Ids, NEW mode \in Modes, Recover(kind, id, mode) PROVE FALSE
    BY <2>4, RecoverEffect
  <2>5. ASSUME NEW s \in Sessions, NEW w \in Waves, NEW e \in Times, ReserveWave(s, w, e) PROVE FALSE
    BY <2>5, ReserveEffect
  <2>6. ASSUME NEW l \in DOMAIN leases, ReleaseLease(l) \/ \E e \in Times : RenewLease(l, e) PROVE FALSE
    BY <2>0, <2>6, ReleaseEffect, RenewEffect
  <2> QED BY <2>0, <2>1, <2>2, <2>3, <2>4, <2>5, <2>6, ProtectionSteps
<1> QED BY <1>1, Invariance, PTL DEF Spec, NoGap

\* A worker withdrawn from a task neither gets, extends nor gives back a lease
\* on it.
THEOREM WithdrawalIsFinal == Spec => WithdrawnIsInert
<1> DEFINE A == \A l \in DOMAIN leases' :
                 WorkerTaskWithdrawn(leases'[l].session, leases'[l].claim.task) =>
                    /\ l \in DOMAIN leases /\ leases'[l].expires = leases[l].expires
                    /\ leases'[l].released # leases[l].released => Recovered("lease", l)'
<1>1. Inv /\ [Next]_vars => [A]_vars
  <2> SUFFICES ASSUME Inv, [Next]_vars, NEW l \in DOMAIN leases',
                      WorkerTaskWithdrawn(leases'[l].session, leases'[l].claim.task)
               PROVE  /\ l \in DOMAIN leases /\ leases'[l].expires = leases[l].expires
                      /\ leases'[l].released # leases[l].released => Recovered("lease", l)'
    OBVIOUS
  <2>0. TypeOK
    BY DEF Inv
  <2>1. CASE UNCHANGED leases
    BY <2>1
  <2>2. ASSUME NEW s \in Sessions, NEW c, NEW id, OneMore(s, c, id), ~ WorkerTaskWithdrawn(s, c.task)
        PROVE  l \in DOMAIN leases /\ leases'[l] = leases[l]
    BY <2>2 DEF OneMore
  <2>3. ASSUME NEW s \in Sessions, NEW c \in Claims, NEW e \in Times, AcquireLease(s, c, e)
        PROVE  l \in DOMAIN leases /\ leases'[l] = leases[l]
    BY <2>2, <2>3, AcquireEffect DEF AcquireLease, LeaseAuth
  <2>4. ASSUME NEW s \in Sessions, NEW d \in DOMAIN dispatches, Handoff(s, d)
        PROVE  l \in DOMAIN leases /\ leases'[l] = leases[l]
    BY <2>2, <2>4, HandoffEffect DEF Handoff, MayHandoff, LeaseAuth
  <2>5. ASSUME NEW m \in DOMAIN leases, \/ ReleaseLease(m) \/ \E e \in Times : RenewLease(m, e)
        PROVE  l \in DOMAIN leases /\ leases'[l] = leases[l]
    <3>1. ~ WorkerTaskWithdrawn(leases[m].session, leases[m].claim.task)
      BY <2>5 DEF ReleaseLease, RenewLease, ChangeLease, LeaseAuth
    <3>2. l # m
      BY <3>1, RecordsStay
    <3> QED BY <2>5, <3>2 DEF ReleaseLease, RenewLease
  <2>6. ASSUME NEW kind \in {"lease", "reservation"}, NEW id \in Ids, NEW mode \in Modes, Recover(kind, id, mode)
        PROVE  /\ l \in DOMAIN leases /\ leases'[l].expires = leases[l].expires
               /\ leases'[l].released # leases[l].released => Recovered("lease", l)'
    <3>1. CASE kind = "reservation"
      BY <2>1, <2>6, <3>1, RecoverEffect
    <3>2. CASE kind = "lease"
      <4>1. leases' = [leases EXCEPT ![id].released = TRUE] /\ Recovered("lease", id)' /\ DOMAIN leases' = DOMAIN leases
        BY <2>6, <3>2, RecoverEffect DEF Recover
      <4>2. leases[l] \in Lease /\ l \in DOMAIN leases
        BY <2>0, <4>1 DEF TypeOK
      <4> QED BY <4>1, <4>2 DEF Lease
    <3> QED BY <3>1, <3>2
  <2>7. ASSUME NEW s \in Sessions, NEW w \in Waves, NEW e \in Times, ReserveWave(s, w, e) PROVE UNCHANGED leases
    BY <2>7, ReserveEffect
  <2>8. CASE l \in DOMAIN leases /\ leases'[l] = leases[l]
    BY <2>8
  <2> QED BY <2>0, <2>1, <2>3, <2>4, <2>5, <2>6, <2>7, <2>8, ProtectionSteps DEF protections
<1> QED BY <1>1, Invariance, PTL DEF Spec, WithdrawnIsInert

\* No session of a recovered family holds a lease on the recovered task.
THEOREM RecoveryIsFinal == Spec => []RecoveredHoldsNothing
<1>1. Init => RecoveredHoldsNothing
  BY DEF Init, RecoveredHoldsNothing
<1>2. Inv /\ RecoveredHoldsNothing /\ [Next]_vars => RecoveredHoldsNothing'
  <2> SUFFICES ASSUME Inv, RecoveredHoldsNothing, [Next]_vars, NEW r \in recoveries', NEW l \in Held',
                      TargetSession(r.kind, r.id)' # NoSession,
                      Family(TargetSession(r.kind, r.id)') = Family(leases'[l].session),
                      r.task = leases'[l].claim.task
               PROVE  FALSE
    BY DEF RecoveredHoldsNothing
  <2>0. TypeOK
    BY DEF Inv
  <2>1. CASE r \in recoveries /\ l \in Held
    <3>1. TargetSession(r.kind, r.id)' = TargetSession(r.kind, r.id)
      BY <2>1, TargetStays
    <3>2. leases'[l].session = leases[l].session /\ leases'[l].claim = leases[l].claim
      BY <2>1, RecordsStay DEF Held
    <3> QED BY <2>1, <3>1, <3>2 DEF RecoveredHoldsNothing
  <2>2. ASSUME NEW s \in Sessions, NEW c, NEW id, OneMore(s, c, id), ~ WorkerTaskWithdrawn(s, c.task)
        PROVE  FALSE
    <3>1. recoveries' = recoveries /\ Held' = Held \cup {id} /\ leases'[id].session = s /\ leases'[id].claim = c
      BY <2>2 DEF OneMore
    <3>2. r \in recoveries /\ l = id
      BY <2>1, <3>1
    <3>3. TargetSession(r.kind, r.id)' = TargetSession(r.kind, r.id)
      BY <3>2, TargetStays
    <3>4. r.family = Family(s)
      BY <3>1, <3>2, <3>3 DEF Inv, Tombstones
    <3> QED BY <2>2, <3>1, <3>2, <3>4, FamilyInLineage DEF WorkerTaskWithdrawn
  <2>3. ASSUME NEW s \in Sessions, NEW c \in Claims, NEW e \in Times, AcquireLease(s, c, e) PROVE FALSE
    BY <2>2, <2>3, AcquireEffect DEF AcquireLease, LeaseAuth
  <2>4. ASSUME NEW s \in Sessions, NEW d \in DOMAIN dispatches, Handoff(s, d) PROVE FALSE
    BY <2>2, <2>4, HandoffEffect DEF Handoff, MayHandoff, LeaseAuth
  <2>5. ASSUME NEW kind \in {"lease", "reservation"}, NEW id \in Ids, NEW mode \in Modes, Recover(kind, id, mode)
        PROVE  FALSE
    <3>1. /\ recoveries' = recoveries \cup {Tombstone(kind, id, mode)} /\ Held' \subseteq Held
          /\ kind = "lease" => id \in Held /\ id \notin Held'
          /\ kind = "reservation" => id \in Retained
      BY <2>5, RecoverEffect DEF Fewer
    <3>2. r = Tombstone(kind, id, mode) /\ l \in Held
      BY <2>1, <3>1
    <3>3. /\ kind = "lease" => r.task = leases[id].claim.task
          /\ kind = "reservation" => r.task = dispatches[id].claim.task
      BY <3>2 DEF Tombstone
    <3>4. leases'[l].claim = leases[l].claim
      BY <3>2, RecordsStay DEF Held
    <3>5. CASE kind = "lease"
      BY <3>1, <3>2, <3>3, <3>4, <3>5 DEF Inv, Exclusive, Overlap
    <3>6. CASE kind = "reservation"
      BY <3>1, <3>2, <3>3, <3>4, <3>6 DEF Inv, Exclusive, Overlap
    <3> QED BY <3>5, <3>6
  <2>6. CASE recoveries' = recoveries /\ Held' \subseteq Held
    BY <2>1, <2>6
  <2>7. CASE UNCHANGED protections
    BY <2>6, <2>7 DEF protections, Held
  <2>8. ASSUME NEW m \in DOMAIN leases, \/ ReleaseLease(m) \/ \E e \in Times : RenewLease(m, e) PROVE FALSE
    BY <2>0, <2>6, <2>8, ReleaseEffect, RenewEffect
  <2>9. ASSUME NEW s \in Sessions, NEW w \in Waves, NEW e \in Times, ReserveWave(s, w, e) PROVE FALSE
    BY <2>6, <2>9, ReserveEffect
  <2> QED BY <2>0, <2>3, <2>4, <2>5, <2>7, <2>8, <2>9, ProtectionSteps
<1> QED BY <1>1, <1>2, Invariance, PTL DEF Spec

-----------------------------------------------------------------------------
(* Intents, reports and cancellations.                                      *)

\* The steps that touch intents, reports or cancellations, or convert a
\* reservation.
LEMMA HostSteps ==
    ASSUME Inv, [Next]_vars
    PROVE  \/ UNCHANGED hosts /\ \A d \in DOMAIN dispatches : dispatches'[d] = dispatches[d]
           \/ \E s \in Sessions, d \in DOMAIN dispatches : HandoffDispatch(s, d)
           \/ \E d \in DOMAIN intents : AcknowledgeDispatchIntent(d)
           \/ \E d \in DOMAIN dispatches, b, w \in Sessions : RequestDispatchIntent(d, b, w)
           \/ \E d \in DOMAIN intents, state \in CorrelateStates : CorrelateDispatchIntent(d, state)
           \/ \E d \in DOMAIN intents, state \in HostStates : ObserveLifecycle(d, state)
           \/ \E d \in DOMAIN intents : CancelLifecycle(d)
           \/ \E d \in DOMAIN cancelled, state \in CancelAnswers : AcknowledgeCancellation(d, state)
<1> USE DEF clock, bindings, protections, hosts, policies
<1>1. CASE UNCHANGED vars \/ Tick
  BY <1>1 DEF vars, Tick
<1>2. CASE Worker
  BY <1>2 DEF Worker, RegisterAttempt, AcquireLease, RenewLease, ReleaseLease, ChangeLease
<1>3. CASE SwarmController
  <2>1. ASSUME NEW s \in Sessions, NEW w \in Waves, NEW e \in Times, ReserveWave(s, w, e)
        PROVE  UNCHANGED hosts /\ \A d \in DOMAIN dispatches : dispatches'[d] = dispatches[d]
    BY <2>1, ReserveEffect DEF ReserveWave
  <2> QED BY <1>3, <2>1 DEF SwarmController
<1>4. CASE Bridge
  BY <1>4 DEF Bridge
<1>5. CASE Owner
  BY <1>5 DEF Owner, Revoke, BindTask, ConfigureSwarm, ConfigureLifecycle, ConfigureRecovery, Recover, Retire
<1> QED BY <1>1, <1>2, <1>3, <1>4, <1>5 DEF Next

\* The reservation behind an intent goes to the worker it names, exactly when
\* the intent is acknowledged.
THEOREM IntentsDecide == Spec => []IntentDecidesWorker
<1>1. Init => IntentDecidesWorker
  BY DEF Init, IntentDecidesWorker
<1>2. Inv /\ IntentDecidesWorker /\ [Next]_vars => IntentDecidesWorker'
  <2> SUFFICES ASSUME Inv, IntentDecidesWorker, [Next]_vars, NEW d \in DOMAIN intents'
               PROVE  /\ dispatches'[d].converted <=> intents'[d].state = "acknowledged"
                      /\ intents'[d].state = "acknowledged" =>
                            leases'[d].session = intents'[d].worker /\ dispatches'[d].worker = intents'[d].worker
    BY DEF IntentDecidesWorker, Leased
  <2>0. TypeOK
    BY DEF Inv
  <2>1. ASSUME d \in DOMAIN intents, dispatches'[d] = dispatches[d], intents'[d].worker = intents[d].worker,
               intents'[d].state = "acknowledged" <=> intents[d].state = "acknowledged"
        PROVE  /\ dispatches'[d].converted <=> intents'[d].state = "acknowledged"
               /\ intents'[d].state = "acknowledged" =>
                     leases'[d].session = intents'[d].worker /\ dispatches'[d].worker = intents'[d].worker
    <3>1. /\ dispatches[d].converted <=> intents[d].state = "acknowledged"
          /\ intents[d].state = "acknowledged" =>
                leases[d].session = intents[d].worker /\ dispatches[d].worker = intents[d].worker
      BY <2>1 DEF IntentDecidesWorker, Leased
    <3>2. dispatches[d].converted => d \in DOMAIN leases
      BY <2>0, <2>1 DEF Inv, Numbered, TypeOK
    <3>3. d \in DOMAIN leases => leases'[d].session = leases[d].session
      BY RecordsStay
    <3> QED BY <2>1, <3>1, <3>2, <3>3
  <2>2. ASSUME NEW s \in Sessions, NEW x \in DOMAIN dispatches, Handoff(s, x)
        PROVE  /\ dispatches'[x].converted /\ dispatches'[x].worker = s /\ leases'[x].session = s
               /\ \A y \in DOMAIN dispatches \ {x} : dispatches'[y] = dispatches[y]
    <3>1. dispatches[x] \in Dispatch
      BY <2>0 DEF TypeOK
    <3>2. /\ [dispatches[x] EXCEPT !.converted = TRUE, !.worker = s].converted
          /\ [dispatches[x] EXCEPT !.converted = TRUE, !.worker = s].worker = s
      BY <3>1 DEF Dispatch
    <3> QED BY <2>2, <3>2, HandoffEffect DEF OneMore
  <2>3. DOMAIN intents \subseteq DOMAIN dispatches /\ \A x \in DOMAIN intents : intents[x] \in Intent
    BY <2>0 DEF TypeOK
  <2>4. CASE UNCHANGED hosts /\ \A x \in DOMAIN dispatches : dispatches'[x] = dispatches[x]
    BY <2>1, <2>3, <2>4 DEF hosts
  <2>5. ASSUME NEW s \in Sessions, NEW x \in DOMAIN dispatches, HandoffDispatch(s, x)
        PROVE  intents' = intents /\ d \in DOMAIN intents /\ dispatches'[d] = dispatches[d]
    BY <2>2, <2>3, <2>5 DEF HandoffDispatch, hosts
  <2>6. ASSUME NEW x \in DOMAIN intents, AcknowledgeDispatchIntent(x)
        PROVE  /\ dispatches'[d].converted <=> intents'[d].state = "acknowledged"
               /\ intents'[d].state = "acknowledged" =>
                     leases'[d].session = intents'[d].worker /\ dispatches'[d].worker = intents'[d].worker
    <3>1. /\ intents' = [intents EXCEPT ![x].state = "acknowledged"] /\ Handoff(intents[x].worker, x)
          /\ intents[x].worker \in Sessions
      BY <2>3, <2>6 DEF AcknowledgeDispatchIntent, Intent
    <3>2. CASE d = x
      <4>1. intents'[d].state = "acknowledged" /\ intents'[d].worker = intents[d].worker
        BY <2>3, <3>1, <3>2 DEF Intent
      <4> QED BY <2>2, <2>3, <3>1, <3>2, <4>1
    <3>3. CASE d # x
      BY <2>1, <2>2, <2>3, <3>1, <3>3
    <3> QED BY <3>2, <3>3
  <2>7. ASSUME NEW x \in DOMAIN dispatches, NEW b \in Sessions, NEW w \in Sessions, RequestDispatchIntent(x, b, w)
        PROVE  /\ dispatches'[d].converted <=> intents'[d].state = "acknowledged"
               /\ intents'[d].state = "acknowledged" =>
                     leases'[d].session = intents'[d].worker /\ dispatches'[d].worker = intents'[d].worker
    <3>1. /\ DOMAIN intents' = DOMAIN intents \cup {x} /\ x \in Retained /\ dispatches' = dispatches /\ x \notin DOMAIN intents
          /\ intents'[x].state = "dispatch_requested" /\ \A y \in DOMAIN intents : intents'[y] = intents[y]
      BY <2>7 DEF RequestDispatchIntent, AdmitDispatch, Put, protections
    <3>2. CASE d = x
      BY <3>1, <3>2 DEF Retained
    <3>3. CASE d # x
      BY <2>1, <3>1, <3>3
    <3> QED BY <3>2, <3>3
  <2>8. ASSUME NEW x \in DOMAIN intents, NEW state \in CorrelateStates, CorrelateDispatchIntent(x, state)
        PROVE  /\ d \in DOMAIN intents /\ dispatches'[d] = dispatches[d] /\ intents'[d].worker = intents[d].worker
               /\ intents'[d].state = "acknowledged" <=> intents[d].state = "acknowledged"
    <3>1. /\ intents' = [intents EXCEPT ![x].state = state] /\ dispatches' = dispatches
          /\ state # "acknowledged" /\ intents[x].state # "acknowledged"
      BY <2>8 DEF CorrelateDispatchIntent, CorrelateStates, protections
    <3> QED BY <2>3, <3>1 DEF Intent
  <2>9. ASSUME \/ \E x \in DOMAIN intents, state \in HostStates : ObserveLifecycle(x, state)
               \/ \E x \in DOMAIN intents : CancelLifecycle(x)
               \/ \E x \in DOMAIN cancelled, state \in CancelAnswers : AcknowledgeCancellation(x, state)
        PROVE  intents' = intents /\ dispatches' = dispatches
    BY <2>9 DEF ObserveLifecycle, CancelLifecycle, AcknowledgeCancellation, protections
  <2> QED BY <2>1, <2>4, <2>5, <2>6, <2>7, <2>8, <2>9, HostSteps
<1> QED BY <1>1, <1>2, Invariance, PTL DEF Spec

\* A cancellation and a terminal report stay about the binding that exists.
THEOREM StopsHold == Spec => []StopIsNotOvertaken
<1>1. Init => StopIsNotOvertaken
  BY DEF Init, StopIsNotOvertaken
<1>2. Inv /\ StopIsNotOvertaken /\ [Next]_vars => StopIsNotOvertaken'
  <2> SUFFICES ASSUME Inv, StopIsNotOvertaken, [Next]_vars PROVE StopIsNotOvertaken'
    OBVIOUS
  <2>0. TypeOK /\ DOMAIN cancelled \subseteq DOMAIN intents /\ DOMAIN observed \subseteq DOMAIN intents
    BY DEF Inv, TypeOK
  <2>1. CASE UNCHANGED hosts
    BY <2>1 DEF hosts, StopIsNotOvertaken, Leased, HostKnown
  <2>2. ASSUME UNCHANGED <<observed, cancelled>>,
               \A d \in DOMAIN cancelled : intents'[d] = intents[d],
               \A d \in DOMAIN observed : observed[d].state = "terminal" =>
                    (intents'[d].state = "acknowledged" <=> intents[d].state = "acknowledged")
        PROVE  StopIsNotOvertaken'
    BY <2>2 DEF StopIsNotOvertaken, Leased, HostKnown
  <2>3. ASSUME NEW d \in DOMAIN intents, AcknowledgeDispatchIntent(d) PROVE StopIsNotOvertaken'
    <3>1. /\ UNCHANGED <<observed, cancelled>> /\ intents' = [intents EXCEPT ![d].state = "acknowledged"]
          /\ d \notin DOMAIN cancelled /\ Eligible(d)
      BY <2>3 DEF AcknowledgeDispatchIntent
    <3>2. \A x \in DOMAIN cancelled : intents'[x] = intents[x]
      BY <2>0, <3>1
    <3>3. \A x \in DOMAIN observed : observed[x].state = "terminal" => intents'[x] = intents[x]
      BY <2>0, <3>1 DEF Eligible
    <3> QED BY <2>2, <3>1, <3>2, <3>3
  <2>4. ASSUME NEW d \in DOMAIN dispatches, NEW b \in Sessions, NEW w \in Sessions, RequestDispatchIntent(d, b, w)
        PROVE  StopIsNotOvertaken'
    <3>1. UNCHANGED <<observed, cancelled>> /\ \A x \in DOMAIN intents : intents'[x] = intents[x]
      BY <2>4 DEF RequestDispatchIntent, Put
    <3> QED BY <2>0, <2>2, <3>1
  <2>5. ASSUME NEW d \in DOMAIN intents, NEW state \in CorrelateStates, CorrelateDispatchIntent(d, state)
        PROVE  StopIsNotOvertaken'
    <3>1. /\ UNCHANGED <<observed, cancelled>> /\ intents' = [intents EXCEPT ![d].state = state]
          /\ d \notin DOMAIN cancelled /\ state # "acknowledged" /\ intents[d].state # "acknowledged"
      BY <2>5 DEF CorrelateDispatchIntent, CorrelateStates
    <3>2. \A x \in DOMAIN cancelled : intents'[x] = intents[x]
      BY <2>0, <3>1
    <3>3. \A x \in DOMAIN observed : intents'[x].state = "acknowledged" <=> intents[x].state = "acknowledged"
      <4>1. \A x \in DOMAIN intents : intents[x] \in Intent
        BY <2>0 DEF TypeOK
      <4> QED BY <2>0, <3>1, <4>1 DEF Intent
    <3> QED BY <2>2, <3>1, <3>2, <3>3
  <2>6. ASSUME NEW d \in DOMAIN intents, NEW state \in HostStates, ObserveLifecycle(d, state) PROVE StopIsNotOvertaken'
    <3>1. /\ UNCHANGED <<intents, cancelled>> /\ DOMAIN observed' = DOMAIN observed \cup {d}
          /\ observed'[d] = [state |-> state, leased |-> Leased(d)]
          /\ \A x \in DOMAIN observed \ {d} : observed'[x] = observed[x]
      BY <2>6 DEF ObserveLifecycle, Put
    <3>2. ASSUME NEW x \in DOMAIN cancelled' PROVE (cancelled[x].leased = Leased(x) /\ cancelled[x].host = HostKnown(x))'
      BY <3>1 DEF StopIsNotOvertaken, Leased, HostKnown
    <3>3. ASSUME NEW x \in DOMAIN observed', observed'[x].state = "terminal" PROVE (observed[x].leased = Leased(x))'
      <4>1. CASE x = d
        BY <3>1, <4>1 DEF Leased
      <4>2. CASE x # d
        BY <3>1, <3>3, <4>2 DEF StopIsNotOvertaken, Leased
      <4> QED BY <4>1, <4>2
    <3> QED BY <3>2, <3>3 DEF StopIsNotOvertaken
  <2>7. ASSUME NEW d \in DOMAIN intents, CancelLifecycle(d) PROVE StopIsNotOvertaken'
    <3>1. /\ UNCHANGED <<intents, observed>> /\ DOMAIN cancelled' = DOMAIN cancelled \cup {d}
          /\ cancelled'[d].leased = Leased(d) /\ cancelled'[d].host = HostKnown(d)
          /\ \A x \in DOMAIN cancelled \ {d} : cancelled'[x] = cancelled[x]
      BY <2>7 DEF CancelLifecycle, Put
    <3>2. ASSUME NEW x \in DOMAIN cancelled' PROVE (cancelled[x].leased = Leased(x) /\ cancelled[x].host = HostKnown(x))'
      <4>1. CASE x = d
        BY <3>1, <4>1 DEF Leased, HostKnown
      <4>2. CASE x # d
        BY <3>1, <4>2 DEF StopIsNotOvertaken, Leased, HostKnown
      <4> QED BY <4>1, <4>2
    <3>3. ASSUME NEW x \in DOMAIN observed', observed'[x].state = "terminal" PROVE (observed[x].leased = Leased(x))'
      BY <3>1, <3>3 DEF StopIsNotOvertaken, Leased
    <3> QED BY <3>2, <3>3 DEF StopIsNotOvertaken
  <2>8. ASSUME NEW d \in DOMAIN cancelled, NEW state \in CancelAnswers, AcknowledgeCancellation(d, state)
        PROVE  StopIsNotOvertaken'
    <3>1. UNCHANGED <<intents, observed>> /\ cancelled' = [cancelled EXCEPT ![d].state = state]
      BY <2>8 DEF AcknowledgeCancellation
    <3>2. /\ DOMAIN cancelled' = DOMAIN cancelled
          /\ \A x \in DOMAIN cancelled : cancelled'[x].leased = cancelled[x].leased /\ cancelled'[x].host = cancelled[x].host
      BY <2>0, <3>1 DEF TypeOK, Cancel
    <3>3. ASSUME NEW x \in DOMAIN cancelled' PROVE (cancelled[x].leased = Leased(x) /\ cancelled[x].host = HostKnown(x))'
      BY <3>1, <3>2 DEF StopIsNotOvertaken, Leased, HostKnown
    <3>4. ASSUME NEW x \in DOMAIN observed', observed'[x].state = "terminal" PROVE (observed[x].leased = Leased(x))'
      BY <3>1, <3>4 DEF StopIsNotOvertaken, Leased
    <3> QED BY <3>3, <3>4 DEF StopIsNotOvertaken
  <2>9. ASSUME NEW s \in Sessions, NEW d \in DOMAIN dispatches, HandoffDispatch(s, d) PROVE UNCHANGED hosts
    BY <2>9 DEF HandoffDispatch, hosts
  <2> QED BY <2>1, <2>3, <2>4, <2>5, <2>6, <2>7, <2>8, <2>9, HostSteps
<1> QED BY <1>1, <1>2, Invariance, PTL DEF Spec

-----------------------------------------------------------------------------
(* Capacity.                                                                *)

\* The values of a finite function are at most as many as its arguments.
LEMMA ImageSize ==
    ASSUME NEW S, IsFiniteSet(S), NEW f
    PROVE  IsFiniteSet({f[x] : x \in S}) /\ Cardinality({f[x] : x \in S}) <= Cardinality(S)
<1> DEFINE T == {f[x] : x \in S}
           g == [x \in S |-> f[x]]
<1>1. g \in Surjection(S, T)
  BY DEF Surjection
<1> HIDE DEF g
<1> QED BY <1>1, FS_Surjection

\* The occupied tasks, and so the busy ones, are finitely many.
LEMMA OccupiedFinite ==
    ASSUME Inv
    PROVE  IsFiniteSet(Occupied) /\ Busy \subseteq Occupied /\ Cardinality(Occupied) \in Nat
<1> DEFINE f == [d \in Retained |-> dispatches[d].claim.task]
           g == [l \in Held |-> leases[l].claim.task]
<1>1. fence \in Nat /\ Retained \in SUBSET (1 .. fence) /\ Held \in SUBSET (1 .. fence)
  BY DEF Inv, TypeOK, Numbered, Retained, Held
<1>2. IsFiniteSet(1 .. fence)
  BY <1>1, FS_Interval
<1>3. IsFiniteSet(Retained) /\ IsFiniteSet(Held)
  BY <1>1, <1>2, FS_Subset
<1>4. IsFiniteSet({f[d] : d \in Retained}) /\ IsFiniteSet({g[l] : l \in Held})
  <2> HIDE DEF f, g
  <2> QED BY <1>3, ImageSize
<1>5. Occupied = {f[d] : d \in Retained} \cup {g[l] : l \in Held}
  BY DEF Occupied
<1>6. Busy \subseteq Occupied
  BY DEF Busy, Occupied
<1> HIDE DEF f, g
<1> QED BY <1>4, <1>5, <1>6, FS_Union, FS_CardinalityType

\* A revision of the swarm policy stays on record.
LEMMA PoliciesGrow ==
    ASSUME [Next]_vars
    PROVE  revisions \subseteq revisions'
<1> USE DEF clock, bindings, protections, hosts, policies
<1>1. CASE Worker
  BY <1>1 DEF Worker, RegisterAttempt, AcquireLease, RenewLease, ReleaseLease, ChangeLease,
              HandoffDispatch, AcknowledgeDispatchIntent
<1>2. CASE SwarmController
  BY <1>2 DEF SwarmController, ReserveWave, RequestDispatchIntent, CancelLifecycle
<1>3. CASE Bridge
  BY <1>3 DEF Bridge, CorrelateDispatchIntent, ObserveLifecycle, AcknowledgeCancellation
<1>4. CASE Owner
  BY <1>4 DEF Owner, Revoke, BindTask, ConfigureSwarm, ConfigureLifecycle, ConfigureRecovery, Recover, Retire
<1> QED BY <1>1, <1>2, <1>3, <1>4 DEF Next, Tick, vars

\* A swarm's busy tasks stay within the largest WIP limit ever configured.
THEOREM CapacityHolds == Spec => []SwarmWithinWip
<1>1. Init => SwarmWithinWip
  <2> SUFFICES ASSUME Init PROVE Busy = {}
    BY DEF SwarmWithinWip
  <2>1. DOMAIN leases = {} /\ DOMAIN dispatches = {}
    BY DEF Init
  <2> QED BY <2>1 DEF Busy, Held, Retained
<1>2. Inv /\ SwarmWithinWip /\ [Next]_vars => SwarmWithinWip'
  <2> SUFFICES ASSUME Inv, SwarmWithinWip, [Next]_vars, Busy' # {}
               PROVE  \E r \in revisions' : Cardinality(Busy') <= Policies[r].wip
    BY DEF SwarmWithinWip
  <2>0. TypeOK /\ IsFiniteSet(Busy) /\ Cardinality(Busy) \in Nat
    BY OccupiedFinite, FS_Subset, FS_CardinalityType DEF Inv
  <2>1. revisions \subseteq revisions'
    BY PoliciesGrow
  <2>2. ASSUME Busy' \in SUBSET Busy PROVE \E r \in revisions' : Cardinality(Busy') <= Policies[r].wip
    <3>1. IsFiniteSet(Busy') /\ Cardinality(Busy') <= Cardinality(Busy) /\ Cardinality(Busy') \in Nat
      BY <2>0, <2>2, FS_Subset, FS_CardinalityType
    <3>2. PICK r \in revisions : Cardinality(Busy) <= Policies[r].wip
      BY <2>2 DEF SwarmWithinWip
    <3>3. Policies[r].wip \in Nat
      BY <2>0, PolicyShape DEF TypeOK
    <3> QED BY <2>0, <2>1, <3>1, <3>2, <3>3
  <2>3. ASSUME Fewer PROVE Busy' \in SUBSET Busy
    BY <2>3 DEF Fewer, Busy, Held, Retained
  <2>4. CASE UNCHANGED protections
    BY <2>2, <2>4 DEF protections, Busy, Held, Retained, Recovered
  <2>5. ASSUME NEW s \in Sessions, NEW c \in Claims, NEW e \in Times, AcquireLease(s, c, e) PROVE Busy' \in SUBSET Busy
    <3>1. /\ dispatches' = dispatches /\ fence + 1 \notin DOMAIN dispatches
          /\ Held' = Held \cup {fence + 1} /\ Retained' \subseteq Retained /\ \A l \in DOMAIN leases : leases'[l] = leases[l]
      BY <2>5, AcquireEffect DEF OneMore
    <3> QED BY <3>1 DEF Busy, Held
  <2>6. ASSUME NEW s \in Sessions, NEW d \in DOMAIN dispatches, Handoff(s, d) PROVE Busy' \in SUBSET Busy
    <3>1. OneMore(s, dispatches[d].claim, d) /\ d \in Retained
      BY <2>6, HandoffEffect
    <3>2. /\ Held' = Held \cup {d} /\ Retained' = Retained \ {d} /\ DOMAIN dispatches' = DOMAIN dispatches
          /\ Retained \subseteq DOMAIN dispatches /\ Held \subseteq DOMAIN leases
          /\ leases'[d].claim = dispatches[d].claim
          /\ \A l \in DOMAIN leases : leases'[l] = leases[l]
          /\ \A x \in DOMAIN dispatches \ {d} : dispatches'[x] = dispatches[x]
      BY <3>1 DEF OneMore, Held, Retained
    <3>3. ASSUME NEW x \in Busy' PROVE x \in Busy
      <4>1. CASE \E y \in Retained' : x = dispatches'[y].claim.task
        BY <3>2, <4>1 DEF Busy
      <4>2. CASE \E y \in Held' \cap DOMAIN dispatches' : x = leases'[y].claim.task
        BY <3>1, <3>2, <4>2 DEF Busy
      <4> QED BY <3>3, <4>1, <4>2 DEF Busy
    <3> QED BY <3>3
  <2>7. ASSUME NEW s \in Sessions, NEW w \in Waves, NEW e \in Times, ReserveWave(s, w, e)
        PROVE  \E r \in revisions' : Cardinality(Busy') <= Policies[r].wip
    <3> DEFINE f == [i \in DOMAIN w |-> w[i].task]
               New == {f[i] : i \in DOMAIN w}
    <3>1. /\ PolicyRuns /\ Len(w) \in Nat /\ DOMAIN w = 1 .. Len(w)
          /\ Cardinality(Occupied) + Len(w) <= Policies[policy].wip
      BY <2>0, <2>7, WaveShape DEF ReserveWave, Admissible
    <3>2. policy \in revisions /\ policy \in revisions' /\ Policies[policy].wip \in Nat
      BY <2>0, <2>1, <3>1, PolicyShape DEF PolicyRuns, TypeOK
    <3>3. IsFiniteSet(DOMAIN w) /\ Cardinality(DOMAIN w) = Len(w)
      <4>1. \A n \in Nat : IsFiniteSet(1 .. n) /\ Cardinality(1 .. n) = n
        <5> TAKE n \in Nat
        <5>1. 1 \in Int /\ n \in Int
          OBVIOUS
        <5>2. IsFiniteSet(1 .. n) /\ Cardinality(1 .. n) = IF 1 > n THEN 0 ELSE n - 1 + 1
          BY <5>1, FS_Interval
        <5> QED BY <5>2
      <4> QED BY <3>1, <4>1
    <3>4. IsFiniteSet(New) /\ Cardinality(New) <= Len(w) /\ Cardinality(New) \in Nat
      <4> HIDE DEF f
      <4> QED BY <3>3, ImageSize, FS_CardinalityType
    <3>5. IsFiniteSet(Occupied \cup New) /\ Cardinality(Occupied \cup New) <= Cardinality(Occupied) + Cardinality(New)
          /\ Cardinality(Occupied \cup New) \in Nat
      <4> HIDE DEF New
      <4>1. /\ IsFiniteSet(Occupied \cap New) /\ IsFiniteSet(Occupied) /\ IsFiniteSet(Occupied \cup New)
            /\ Cardinality(Occupied \cup New) = Cardinality(Occupied) + Cardinality(New) - Cardinality(Occupied \cap New)
        BY <3>4, OccupiedFinite, FS_Union, FS_Intersection
      <4> QED BY <4>1, <3>4, OccupiedFinite, FS_CardinalityType
    <3>6. Busy' \in SUBSET (Occupied \cup New)
      <4>1. /\ Retained' = Retained \cup fence + 1 .. fence' /\ Held' = Held /\ leases' = leases
            /\ \A d \in DOMAIN dispatches : dispatches'[d] = dispatches[d]
            /\ \A d \in fence + 1 .. fence' : d - fence \in DOMAIN w /\ dispatches'[d].claim = w[d - fence]
        BY <2>7, ReserveEffect, WaveIsFree
      <4>2. ASSUME NEW x \in Busy' PROVE x \in Occupied \cup New
        <5>1. CASE \E l \in Held : x = leases[l].claim.task
          BY <5>1 DEF Occupied
        <5>2. CASE \E d \in Retained : x = dispatches[d].claim.task
          BY <5>2 DEF Occupied
        <5>3. CASE \E d \in fence + 1 .. fence' : x = dispatches'[d].claim.task
          <6>1. \E i \in DOMAIN w : x = w[i].task
            BY <4>1, <5>3
          <6> QED BY <6>1
        <5> QED BY <4>1, <4>2, <5>1, <5>2, <5>3 DEF Busy, Retained
      <4> QED BY <4>2
    <3>7. Cardinality(Busy') <= Cardinality(Occupied \cup New) /\ Cardinality(Busy') \in Nat
      <4> HIDE DEF New
      <4> QED BY <3>5, <3>6, FS_Subset, FS_CardinalityType
    <3>8. Cardinality(Busy') <= Policies[policy].wip
      <4> HIDE DEF New
      <4> QED BY <3>1, <3>2, <3>4, <3>5, <3>7, OccupiedFinite
    <3> QED BY <3>2, <3>8
  <2> QED BY <2>0, <2>2, <2>3, <2>4, <2>5, <2>6, <2>7, ProtectionSteps, RenewEffect, ReleaseEffect, RecoverEffect
<1> QED BY <1>1, <1>2, Invariance, PTL DEF Spec

-----------------------------------------------------------------------------
(* Governance implements FencedClaims: every operation is a grant, a pass  *)
(* or a drop of claims, or invisible at that level.                        *)

Entry(c, f) == [claim |-> c, fence |-> f]

\* The fields of an entry.
LEMMA EntryFields == \A c, f : Entry(c, f).claim = c /\ Entry(c, f).fence = f
BY DEF Entry

\* What is in force, record by record.
LEMMA InForceShape ==
    ASSUME Inv
    PROVE  /\ DOMAIN InForce = Held \cup Retained /\ Held \cap Retained = {}
           /\ InForce = [p \in Held \cup Retained |-> InForce[p]]
           /\ \A l \in Held : InForce[l] = Entry(leases[l].claim, leases[l].fence)
           /\ \A d \in Retained : InForce[d] = Entry(dispatches[d].claim, d)
<1>1. Held \cap Retained = {}
  BY DEF Inv, Numbered, Held, Retained
<1> QED BY <1>1 DEF InForce, Entry

\* The same after a step.
LEMMA InForceShapeNext ==
    ASSUME Inv, [Next]_vars
    PROVE  /\ DOMAIN InForce' = Held' \cup Retained' /\ Held' \cap Retained' = {}
           /\ InForce' = [p \in Held' \cup Retained' |-> InForce'[p]]
           /\ \A l \in Held' : InForce'[l] = Entry(leases'[l].claim, leases'[l].fence)
           /\ \A d \in Retained' : InForce'[d] = Entry(dispatches'[d].claim, d)
<1>1. Inv'
  BY InvNext
<1>2. Held' \cap Retained' = {}
  BY <1>1 DEF Inv, Numbered, Held, Retained
<1> QED BY <1>2 DEF InForce, Entry

\* Every claim and fence ever given stays on record.
LEMMA GivenShape ==
    /\ \A x : x \in Given <=> \/ \E l \in DOMAIN leases : x = Entry(leases[l].claim, leases[l].fence)
                              \/ \E d \in DOMAIN dispatches : x = Entry(dispatches[d].claim, d)
    /\ \A x : x \in Given' <=> \/ \E l \in DOMAIN leases' : x = Entry(leases'[l].claim, leases'[l].fence)
                               \/ \E d \in DOMAIN dispatches' : x = Entry(dispatches'[d].claim, d)
BY DEF Given, Entry

\* An operation that gives nothing leaves the record of what was given alone.
LEMMA GivenSame == ASSUME Fewer PROVE Given' = Given
<1>1. /\ DOMAIN leases' = DOMAIN leases /\ dispatches' = dispatches
      /\ \A l \in DOMAIN leases : leases'[l].claim = leases[l].claim /\ leases'[l].fence = leases[l].fence
  BY DEF Fewer
<1>2. ASSUME NEW x PROVE x \in Given' <=> x \in Given
  BY <1>1, GivenShape
<1> QED BY <1>2

\* An end of protections p, if any, is a drop.
LEMMA EndIsDrop ==
    ASSUME Inv, [Next]_vars, Fewer, NEW p \in DOMAIN InForce,
           Held' \cup Retained' = (Held \cup Retained) \ {p}
    PROVE  Fenced!Drop(p)
<1>1. Given' = Given
  BY GivenSame
<1>2. \A q \in Held' \cup Retained' : InForce'[q] = InForce[q]
  BY InForceShape, InForceShapeNext DEF Fewer, Held, Retained
<1>3. InForce' = [q \in DOMAIN InForce \ {p} |-> InForce[q]]
  BY <1>2, InForceShape, InForceShapeNext
<1> QED BY <1>1, <1>3 DEF Fenced!Drop, Fewer

\* Renewal is invisible.
LEMMA RenewIsStutter ==
    ASSUME Inv, [Next]_vars, Fewer, Held' = Held, Retained' = Retained, fence' = fence
    PROVE  UNCHANGED <<InForce, Given, fence>>
<1>1. Given' = Given
  BY GivenSame
<1>2. \A q \in Held \cup Retained : InForce'[q] = InForce[q]
  BY InForceShape, InForceShapeNext DEF Fewer, Held, Retained
<1> QED BY <1>1, <1>2, InForceShape, InForceShapeNext

\* A handover is a pass.
LEMMA HandoffIsPass ==
    ASSUME Inv, [Next]_vars, NEW s \in Sessions, NEW d \in DOMAIN dispatches, Handoff(s, d)
    PROVE  d \in DOMAIN InForce /\ Fenced!Pass(d)
<1>1. OneMore(s, dispatches[d].claim, d) /\ d \in Retained
  BY HandoffEffect
<1>2. \A x \in DOMAIN dispatches : dispatches'[x].claim = dispatches[x].claim
  BY RecordsStay
<1>3. /\ DOMAIN leases' = DOMAIN leases \cup {d} /\ DOMAIN dispatches' = DOMAIN dispatches /\ fence' = fence + 1
      /\ leases'[d].claim = dispatches[d].claim /\ leases'[d].fence = fence + 1
      /\ \A l \in DOMAIN leases : leases'[l] = leases[l]
      /\ Held' = Held \cup {d} /\ Retained' = Retained \ {d}
      /\ Held \subseteq DOMAIN leases /\ Retained \subseteq DOMAIN dispatches
      /\ d \notin DOMAIN leases
  BY <1>1 DEF OneMore, Held, Retained
<1>4. InForce[d] = Entry(dispatches[d].claim, d) /\ InForce'[d] = Entry(dispatches[d].claim, fence + 1)
  BY <1>1, <1>3, InForceShape, InForceShapeNext
<1>5. InForce[d].claim = dispatches[d].claim
  BY <1>4 DEF Entry
<1>6. \A q \in (Held \cup Retained) \ {d} : InForce'[q] = InForce[q]
  BY <1>2, <1>3, InForceShape, InForceShapeNext
<1>7. DOMAIN InForce' = DOMAIN InForce /\ d \in DOMAIN InForce
  BY <1>1, <1>3, InForceShape, InForceShapeNext
<1>8. InForce' = [InForce EXCEPT ![d] = Entry(dispatches[d].claim, fence + 1)]
  BY <1>4, <1>6, <1>7, InForceShape, InForceShapeNext
<1>9. Given' = Given \cup {InForce'[d]}
  BY <1>2, <1>3, <1>4, GivenShape
<1> QED BY <1>3, <1>5, <1>7, <1>8, <1>9 DEF Fenced!Pass, Entry

\* A lease that a worker takes by itself is a grant.
LEMMA AcquireIsGrant ==
    ASSUME Inv, [Next]_vars, NEW s \in Sessions, NEW c \in Claims, NEW e \in Times, AcquireLease(s, c, e)
    PROVE  Fenced!Grant
<1> DEFINE id == fence + 1
<1>1. OneMore(s, c, id) /\ id \notin DOMAIN dispatches /\ dispatches' = dispatches /\ fence \in Nat
  BY AcquireEffect DEF Inv, TypeOK
<1> HIDE DEF id
<1>2. /\ DOMAIN leases' = DOMAIN leases \cup {id} /\ id \notin DOMAIN leases /\ fence' = fence + 1
      /\ leases'[id].claim = c /\ leases'[id].fence = fence + 1
      /\ \A l \in DOMAIN leases : leases'[l] = leases[l]
      /\ Held' = Held \cup {id} /\ Retained' = Retained
      /\ Held \subseteq DOMAIN leases /\ Retained \subseteq DOMAIN dispatches
      /\ \A l \in Held : ~ Overlap(c, leases[l].claim)
      /\ \A d \in Retained : ~ Overlap(c, dispatches[d].claim)
  BY <1>1 DEF OneMore, Held, Retained
<1>3. InForce'[id] = Entry(c, fence + 1)
  BY <1>2, InForceShapeNext
<1>4. \A q \in Held \cup Retained : InForce'[q] = InForce[q]
  BY <1>1, <1>2, InForceShape, InForceShapeNext
<1>5. DOMAIN InForce' = DOMAIN InForce \cup {id} /\ id \notin DOMAIN InForce
  BY <1>1, <1>2, InForceShape, InForceShapeNext
<1>6. Fenced!Fresh = {id}
  BY <1>5 DEF Fenced!Fresh
<1>7. Given' = Given \cup {InForce'[id]}
  BY <1>1, <1>2, <1>3, GivenShape
<1>8. InForce'[id].claim = c /\ InForce'[id].fence = fence + 1
  BY <1>3 DEF Entry
<1>9. ASSUME NEW q \in DOMAIN InForce
      PROVE  /\ ~ Overlap(c, InForce'[q].claim) /\ fence + 1 # InForce'[q].fence
  <2>1. CASE q \in Held
    <3>1. InForce'[q].claim = leases[q].claim /\ InForce'[q].fence = leases[q].fence /\ leases[q].fence \in q .. fence
      BY <1>4, <2>1, InForceShape, EntryFields DEF Inv, Numbered, Held
    <3>2. q \in Nat
      BY <2>1 DEF Inv, Numbered, Held
    <3> QED BY <1>1, <1>2, <2>1, <3>1, <3>2
  <2>2. CASE q \in Retained
    <3>1. InForce'[q].claim = dispatches[q].claim /\ InForce'[q].fence = q /\ q \in 1 .. fence
      BY <1>4, <2>2, InForceShape, EntryFields DEF Inv, Numbered, Retained
    <3> QED BY <1>1, <1>2, <2>2, <3>1
  <2> QED BY <2>1, <2>2, InForceShape
<1>10. \A q \in DOMAIN InForce' \ {id} : /\ <<InForce'[id].claim, InForce'[q].claim>> \notin Conflict
                                         /\ InForce'[id].fence # InForce'[q].fence
  BY <1>5, <1>8, <1>9 DEF Conflict
<1>11. {InForce'[p] : p \in Fenced!Fresh} = {InForce'[id]}
  BY <1>6
<1> QED BY <1>1, <1>2, <1>4, <1>5, <1>6, <1>7, <1>8, <1>10, <1>11, InForceShape DEF Fenced!Grant

\* A wave of reservations is one grant.
LEMMA WaveIsGrant ==
    ASSUME Inv, [Next]_vars, NEW s \in Sessions, NEW w \in Waves, NEW e \in Times, ReserveWave(s, w, e)
    PROVE  Fenced!Grant
<1> DEFINE N == fence + 1 .. fence'
<1>0. fence \in Nat /\ fence' \in Nat /\ fence < fence'
  BY ReserveEffect
<1>1. /\ leases' = leases /\ Held' = Held
      /\ DOMAIN dispatches' = DOMAIN dispatches \cup N
      /\ \A d \in DOMAIN dispatches : dispatches'[d] = dispatches[d]
      /\ \A d \in N : d \notin DOMAIN dispatches /\ d \notin DOMAIN leases
      /\ Retained' = Retained \cup N
      /\ Held \subseteq DOMAIN leases /\ Retained \subseteq DOMAIN dispatches
  BY ReserveEffect DEF Held, Retained
<1>2. \A d \in N : /\ \A l \in Held : ~ Overlap(dispatches'[d].claim, leases[l].claim)
                   /\ \A x \in Retained' \ {d} : ~ Overlap(dispatches'[d].claim, dispatches'[x].claim)
  BY WaveIsFree
<1>3. N # {} /\ \A d \in N : d \in Nat /\ fence < d /\ d <= fence'
  BY <1>0
<1> HIDE DEF N
<1>4. \A d \in N : InForce'[d] = Entry(dispatches'[d].claim, d)
  BY <1>1, InForceShapeNext
<1>5. \A q \in Held \cup Retained : InForce'[q] = InForce[q]
  BY <1>1, InForceShape, InForceShapeNext
<1>6. DOMAIN InForce' = DOMAIN InForce \cup N /\ DOMAIN InForce \cap N = {}
  BY <1>1, InForceShape, InForceShapeNext
<1>7. Fenced!Fresh = N
  BY <1>6 DEF Fenced!Fresh
<1>8. Given' = Given \cup {InForce'[p] : p \in N}
  BY <1>1, <1>4, GivenShape
<1>9. \A d \in N : InForce'[d].claim = dispatches'[d].claim /\ InForce'[d].fence = d
  BY <1>4, EntryFields
<1>10. ASSUME NEW d \in N, NEW q \in DOMAIN InForce' \ {d}
       PROVE  ~ Overlap(InForce'[d].claim, InForce'[q].claim) /\ d # InForce'[q].fence
  <2>1. CASE q \in Held
    <3>1. InForce'[q].claim = leases[q].claim /\ InForce'[q].fence = leases[q].fence /\ leases[q].fence \in q .. fence
      BY <1>5, <2>1, InForceShape, EntryFields DEF Inv, Numbered, Held
    <3>2. q \in Nat
      BY <2>1 DEF Inv, Numbered, Held
    <3> QED BY <1>0, <1>2, <1>3, <1>9, <2>1, <3>1, <3>2
  <2>2. CASE q \in Retained'
    <3>1. InForce'[q] = Entry(dispatches'[q].claim, q)
      BY <2>2, InForceShapeNext
    <3>2. InForce'[q].claim = dispatches'[q].claim /\ InForce'[q].fence = q
      BY <3>1 DEF Entry
    <3> QED BY <1>2, <1>9, <1>10, <2>2, <3>2
  <2> QED BY <1>1, <1>10, <2>1, <2>2, InForceShapeNext
<1>11. \A d \in N : \A q \in DOMAIN InForce' \ {d} :
          /\ <<InForce'[d].claim, InForce'[q].claim>> \notin Conflict
          /\ InForce'[d].fence # InForce'[q].fence
  BY <1>9, <1>10 DEF Conflict
<1> QED BY <1>0, <1>3, <1>5, <1>6, <1>7, <1>8, <1>9, <1>11, InForceShape DEF Fenced!Grant

\* Leases, reservations, handover and recovery give, pass on and drop claims
\* the way FencedClaims says, whatever else happens in between.
THEOREM Refinement == Spec => ImplementsFencedClaims
<1>1. Init => Fenced!AInit
  <2> SUFFICES ASSUME Init PROVE Fenced!AInit
    OBVIOUS
  <2>1. DOMAIN leases = {} /\ DOMAIN dispatches = {} /\ fence = 0
    BY DEF Init
  <2>2. Held \cup Retained = {}
    BY <2>1 DEF Held, Retained
  <2>3. InForce = [x \in {} |-> {}]
    BY <2>2 DEF InForce
  <2>4. Given = {}
    BY <2>1 DEF Given
  <2> QED BY <2>1, <2>3, <2>4 DEF Fenced!AInit
<1>2. Inv /\ [Next]_vars => [Fenced!ANext]_(Fenced!avars)
  <2> SUFFICES ASSUME Inv, [Next]_vars PROVE Fenced!ANext \/ UNCHANGED <<InForce, Given, fence>>
    BY DEF Fenced!avars
  <2>0. TypeOK /\ DOMAIN InForce = Held \cup Retained
    BY InForceShape DEF Inv
  <2>1. CASE UNCHANGED protections
    BY <2>1 DEF protections, InForce, Given, Held, Retained, Recovered
  <2>2. ASSUME NEW l \in DOMAIN leases, NEW e \in Times, RenewLease(l, e) PROVE UNCHANGED <<InForce, Given, fence>>
    BY <2>0, <2>2, RenewEffect, RenewIsStutter
  <2>3. ASSUME NEW l \in DOMAIN leases, ReleaseLease(l) PROVE Fenced!ANext
    <3>1. Fewer /\ l \in Held /\ Held' \cup Retained' = (Held \cup Retained) \ {l}
      BY <2>0, <2>3, ReleaseEffect, InForceShape
    <3> QED BY <2>0, <3>1, EndIsDrop DEF Fenced!ANext
  <2>4. ASSUME NEW kind \in {"lease", "reservation"}, NEW id \in Ids, NEW mode \in Modes, Recover(kind, id, mode)
        PROVE  Fenced!ANext
    <3>1. /\ Fewer /\ id \in Held \cup Retained
          /\ Held' \cup Retained' = (Held \cup Retained) \ {id}
      BY <2>4, RecoverEffect, InForceShape
    <3> QED BY <2>0, <3>1, EndIsDrop DEF Fenced!ANext
  <2>5. ASSUME NEW s \in Sessions, NEW d \in DOMAIN dispatches, Handoff(s, d) PROVE Fenced!ANext
    BY <2>5, HandoffIsPass DEF Fenced!ANext
  <2>6. ASSUME NEW s \in Sessions, NEW c \in Claims, NEW e \in Times, AcquireLease(s, c, e) PROVE Fenced!ANext
    BY <2>6, AcquireIsGrant DEF Fenced!ANext
  <2>7. ASSUME NEW s \in Sessions, NEW w \in Waves, NEW e \in Times, ReserveWave(s, w, e) PROVE Fenced!ANext
    BY <2>7, WaveIsGrant DEF Fenced!ANext
  <2> QED BY <2>0, <2>1, <2>2, <2>3, <2>4, <2>5, <2>6, <2>7, ProtectionSteps
<1> QED BY <1>1, <1>2, Invariance, PTL DEF Spec, ImplementsFencedClaims, Fenced!ASpec

=============================================================================
