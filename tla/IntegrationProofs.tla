------------------------- MODULE IntegrationProofs --------------------------
(***************************************************************************)
(* An owner's effect is launched at most once, the trunk moves only to the *)
(* commit that was approved after the target was pinned, and what counts   *)
(* as integrated is on its trunk: for any number of processes, operations, *)
(* tasks and policies, whatever other people do and whoever stops when.    *)
(***************************************************************************)
EXTENDS Integration, TLAPS

Launching == {"effect", "update-ref", "push", "create_pr"}
Steps == {"idle", "begun", "read-tree", "observe"} \cup Launching
Reviews == [commit : Commits, after : [Classes -> Nat]]
Remotes == [head : Commits, trunk : Commits, pr : PullRequests \cup {None}, checks : BOOLEAN]
Calls == [pc : Steps, key : Keys \cup {None}, fresh : BOOLEAN]

TypeOK ==
    /\ trunk \in Commits /\ remote \in Remotes
    /\ policy \in [Classes -> [Tasks -> Policies \cup {None}]]
    /\ candidate \in [Tasks -> Commits] /\ review \in [Tasks -> Reviews \cup {None}]
    /\ ops \in [Keys -> Operations \cup {None}] /\ proc \in [Procs -> Calls]
    /\ launched \in [Keys -> Nat]

\* A record is kept under its key, and an outcome is of its kind.
OpsAreOwn == \A k \in Keys : ops[k] # None =>
    /\ ops[k].key = k
    /\ Class(k) = "external" /\ ops[k].outcome # None => ops[k].outcome \in ExternalOutcomes

\* Every call works on a recorded operation, and beyond the first transaction
\* it holds the authority's lock.
Anchored == \A p \in Procs :
    /\ proc[p].pc # "idle" => proc[p].key \in Keys /\ ops[proc[p].key] # None
    /\ proc[p].pc \notin {"idle", "begun"} => transaction = p

\* The call recorded the intent itself.
Begun(p) == proc[p].pc # "idle" /\ proc[p].fresh

\* Only the one call that recorded the intent launches, and has not yet.
LaunchIsOwn ==
    /\ \A p \in Procs : /\ proc[p].pc \in Launching => proc[p].fresh
                        /\ proc[p].pc \in Launching \cup {"begun"} /\ proc[p].fresh => launched[proc[p].key] = 0
    /\ \A p, q \in Procs : Begun(p) /\ Begun(q) /\ proc[p].key = proc[q].key => p = q
    /\ \A k \in Keys : launched[k] > 0 => ops[k] # None

Approved(r) == LET v == review[TaskOf[r.key]]
               IN  v # None /\ v.commit = r.commit /\ v.after[Class(r.key)] = r.policy.rev

\* What was examined before the effect still holds when it happens.
Movable(r) == KindOf[r.key] = "local" /\ Approved(r) /\ IsPrefix(r.policy.expected, r.commit)
Examined == \A p \in Procs : /\ proc[p].pc = "update-ref" => Movable(ops[proc[p].key])
                             /\ proc[p].pc = "push" => KindOf[proc[p].key] = "push"

\* An outcome was the truth once, and the trunks only grow.
OutcomesAreReal == \A k \in Keys : ops[k] # None =>
    /\ ops[k].state = "done" /\ Class(k) = "local" => IsPrefix(ops[k].commit, trunk)
    /\ Class(k) = "external" /\ ops[k].outcome # None => IsPrefix(ops[k].outcome.trunk, remote.trunk)

Inv == TypeOK /\ OpsAreOwn /\ Anchored /\ LaunchIsOwn /\ Examined /\ OutcomesAreReal /\ EffectOnce

-----------------------------------------------------------------------------
(* Prefixes.                                                               *)

LEMMA PrefixOf ==
    ASSUME NEW S, NEW s \in Seq(S), NEW t \in Seq(S)
    PROVE  IsPrefix(s, t) <=> Len(s) <= Len(t) /\ \A i \in 1 .. Len(s) : s[i] = t[i]
<1>1. Len(s) \in Nat /\ Len(t) \in Nat
  OBVIOUS
<1>2. CASE Len(s) <= Len(t)
  <2>1. /\ SubSeq(s, 1, Len(s)) \in Seq(S) /\ SubSeq(t, 1, Len(s)) \in Seq(S)
        /\ Len(SubSeq(s, 1, Len(s))) = Len(s) /\ Len(SubSeq(t, 1, Len(s))) = Len(s)
        /\ \A i \in 1 .. Len(s) : SubSeq(s, 1, Len(s))[i] = s[i] /\ SubSeq(t, 1, Len(s))[i] = t[i]
    BY <1>1, <1>2
  <2>2. SubSeq(s, 1, Len(s)) = SubSeq(t, 1, Len(s)) <=> \A i \in 1 .. Len(s) : s[i] = t[i]
    BY <2>1
  <2> QED BY <1>2, <2>2 DEF IsPrefix
<1>3. CASE ~(Len(s) <= Len(t))
  BY <1>3 DEF IsPrefix
<1> QED BY <1>2, <1>3

LEMMA PrefixOfItself == ASSUME NEW S, NEW s \in Seq(S) PROVE IsPrefix(s, s)
  BY PrefixOf

LEMMA PrefixOfLonger ==
    ASSUME NEW S, NEW s \in Seq(S), NEW t \in Seq(S), NEW e \in S, IsPrefix(s, t)
    PROVE  IsPrefix(s, Append(t, e))
<1>1. Len(s) <= Len(t) /\ \A i \in 1 .. Len(s) : s[i] = t[i]
  BY PrefixOf
<1>2. Append(t, e) \in Seq(S) /\ Len(Append(t, e)) = Len(t) + 1
  OBVIOUS
<1>3. \A i \in 1 .. Len(t) : Append(t, e)[i] = t[i]
  OBVIOUS
<1>4. Len(s) \in Nat /\ Len(t) \in Nat
  OBVIOUS
<1>5. Len(s) <= Len(Append(t, e)) /\ \A i \in 1 .. Len(s) : s[i] = Append(t, e)[i]
  BY <1>1, <1>2, <1>3, <1>4
<1> QED BY <1>2, <1>5, PrefixOf

LEMMA PrefixOfPrefix ==
    ASSUME NEW S, NEW s \in Seq(S), NEW t \in Seq(S), NEW u \in Seq(S), IsPrefix(s, t), IsPrefix(t, u)
    PROVE  IsPrefix(s, u)
<1>1. Len(s) \in Nat /\ Len(t) \in Nat /\ Len(u) \in Nat
  OBVIOUS
<1>2. /\ Len(s) <= Len(t) /\ \A i \in 1 .. Len(s) : s[i] = t[i]
      /\ Len(t) <= Len(u) /\ \A i \in 1 .. Len(t) : t[i] = u[i]
  BY PrefixOf
<1>3. Len(s) <= Len(u) /\ \A i \in 1 .. Len(s) : s[i] = u[i]
  BY <1>1, <1>2
<1> QED BY <1>3, PrefixOf

-----------------------------------------------------------------------------
(* How the records advance.                                                *)

LEMMA KeysHaveTasks == ASSUME NEW k \in Keys PROVE TaskOf[k] \in Tasks /\ Class(k) \in Classes
  BY DEF Tasks, Classes

\* Records keep what they were made for.
OpsAdvance ==
    /\ ops' \in [Keys -> Operations \cup {None}]
    /\ \A k \in Keys :
          /\ ops'[k] = None <=> ops[k] = None
          /\ ops[k] # None => ops'[k].key = ops[k].key /\ ops'[k].commit = ops[k].commit /\ ops'[k].policy = ops[k].policy

LEMMA ObservedLocally ==
    ASSUME TypeOK
    PROVE  ObserveNativeIntegrationTarget \in LocalOutcomes /\ ObserveNativeIntegrationTarget.commit = trunk
  BY DEF TypeOK, ObserveNativeIntegrationTarget, LocalOutcomes

LEMMA ObservedRemotely ==
    ASSUME TypeOK, NEW c \in BOOLEAN
    PROVE  ObserveNativeExternal(c) \in ExternalOutcomes /\ ObserveNativeExternal(c).trunk = remote.trunk
<1>1. /\ remote.trunk \in Commits /\ remote.head \in Commits /\ remote.pr \in PullRequests \cup {None}
      /\ remote.checks \in BOOLEAN
  BY DEF TypeOK, Remotes
<1>2. CASE c = TRUE
  <2>1. ObserveNativeExternal(c) = [trunk |-> remote.trunk, head |-> remote.head, pr |-> remote.pr,
                                    checks |-> remote.checks, complete |-> TRUE, fresh |-> TRUE]
    BY <1>1, <1>2 DEF ObserveNativeExternal
  <2> QED BY <1>1, <2>1 DEF ExternalOutcomes
<1>3. CASE c = FALSE
  <2>1. ObserveNativeExternal(c) = [trunk |-> remote.trunk, head |-> remote.head, pr |-> None,
                                    checks |-> FALSE, complete |-> FALSE, fresh |-> TRUE]
    BY <1>3 DEF ObserveNativeExternal
  <2> QED BY <1>1, <2>1 DEF ExternalOutcomes
<1> QED BY <1>2, <1>3

LEMMA SettledRecord ==
    ASSUME NEW r \in Operations, NEW o \in LocalOutcomes \cup ExternalOutcomes
    PROVE  LET s == Settled(r, o) IN
           /\ s \in Operations /\ s.key = r.key /\ s.commit = r.commit /\ s.policy = r.policy /\ s.outcome = o
           /\ s.state = "done" => r.state = "done" \/ Class(r.key) # "local" \/ integrationDone(r, o)
<1> DEFINE d == IF Class(r.key) = "local" THEN integrationDone(r, o) ELSE externalEffectDone(r, o)
<1>1. CASE d
  <2>1. Settled(r, o) = [r EXCEPT !.outcome = o, !.state = "done"]
    BY <1>1 DEF Settled
  <2> QED BY <1>1, <2>1 DEF Operations
<1>2. CASE ~d
  <2>1. Settled(r, o) = [r EXCEPT !.outcome = o, !.state = r.state]
    BY <1>2 DEF Settled
  <2> QED BY <2>1 DEF Operations
<1> QED BY <1>1, <1>2

\* Recording what is observed now.
LEMMA Settling ==
    ASSUME Bounds, Inv, NEW k \in Keys, ops[k] # None, UNCHANGED <<trunk, remote>>,
           NEW o \in LocalOutcomes \cup ExternalOutcomes,
           Class(k) = "local" => o = ObserveNativeIntegrationTarget,
           Class(k) = "external" => o \in ExternalOutcomes /\ o.trunk = remote.trunk,
           ops' = [ops EXCEPT ![k] = Settled(ops[k], o)]
    PROVE  OpsAdvance /\ OpsAreOwn' /\ OutcomesAreReal'
<1> DEFINE s == Settled(ops[k], o)
<1>1. ops[k] \in Operations /\ ops[k].key = k
  BY DEF Inv, TypeOK, OpsAreOwn
<1>2. /\ s \in Operations /\ s.key = k /\ s.commit = ops[k].commit /\ s.policy = ops[k].policy /\ s.outcome = o
      /\ s.state = "done" => ops[k].state = "done" \/ Class(k) # "local" \/ integrationDone(ops[k], o)
  BY <1>1, SettledRecord
<1> HIDE DEF s
<1>3. ops' = [ops EXCEPT ![k] = s] /\ ops' \in [Keys -> Operations \cup {None}]
      /\ ops'[k] = s /\ \A j \in Keys : j # k => ops'[j] = ops[j]
  BY <1>2 DEF s, Inv, TypeOK
<1>4. s # None
  BY <1>2 DEF Bounds
<1>5. OpsAdvance
  BY <1>1, <1>2, <1>3, <1>4 DEF OpsAdvance
<1>6. OpsAreOwn'
  BY <1>2, <1>3 DEF Inv, OpsAreOwn
<1>7. s.state = "done" /\ Class(k) = "local" => IsPrefix(s.commit, trunk)
  <2>1. ASSUME Class(k) = "local", integrationDone(ops[k], o) PROVE IsPrefix(s.commit, trunk)
    <3>1. s.commit = trunk
      BY <1>2, <2>1, ObservedLocally DEF integrationDone, Inv
    <3>2. trunk \in Seq(Changes)
      BY DEF Inv, TypeOK, Commits
    <3> QED BY <3>1, <3>2, PrefixOfItself
  <2> QED BY <1>2, <2>1 DEF Inv, OutcomesAreReal
<1>8. Class(k) = "external" => IsPrefix(o.trunk, remote.trunk)
  <2>1. remote.trunk \in Seq(Changes)
    BY DEF Inv, TypeOK, Remotes, Commits
  <2> QED BY <2>1, PrefixOfItself
<1>9. OutcomesAreReal'
  BY <1>2, <1>3, <1>7, <1>8 DEF Inv, OutcomesAreReal
<1> QED BY <1>5, <1>6, <1>9

LEMMA NothingRecorded ==
    ASSUME Bounds, Inv, UNCHANGED ops, UNCHANGED <<trunk, remote>>
    PROVE  OpsAdvance /\ OpsAreOwn' /\ OutcomesAreReal'
<1>1. OpsAdvance
  BY DEF OpsAdvance, Inv, TypeOK
<1>2. OpsAreOwn'
  BY DEF Inv, OpsAreOwn
<1>3. OutcomesAreReal'
  BY DEF Inv, OutcomesAreReal
<1> QED BY <1>1, <1>2, <1>3

\* What a record was examined for does not depend on its outcome.
LEMMA ExaminedStays ==
    ASSUME OpsAdvance, Examined, Anchored, UNCHANGED review, NEW p \in Procs, UNCHANGED proc[p],
           proc[p].pc = "update-ref"
    PROVE  Movable(ops[proc[p].key])'
<1> DEFINE r == ops[proc[p].key]
<1>1. proc[p].key \in Keys /\ r # None
  BY DEF Anchored
<1>2. ops'[proc[p].key].key = r.key /\ ops'[proc[p].key].commit = r.commit /\ ops'[proc[p].key].policy = r.policy
  BY <1>1 DEF OpsAdvance
<1>3. Movable(r)
  BY DEF Examined
<1> QED BY <1>2, <1>3 DEF Movable, Approved

\* The command of a call ran at most here.
LaunchedBy(p) ==
    /\ launched' \in [Keys -> Nat]
    /\ \A k \in Keys : launched'[k] # launched[k] => k = proc[p].key /\ proc[p].fresh /\ launched'[k] = 1

\* A process returns, and with it the lock it held.
LEMMA LaunchedReturnKeeps ==
    ASSUME Bounds, Inv, NEW p \in Procs, proc[p].pc # "idle", Return(p), LaunchedBy(p),
           transaction' = transaction \/ transaction = p,
           OpsAdvance, OpsAreOwn', OutcomesAreReal',
           UNCHANGED <<trunk, remote, policy, candidate, review>>
    PROVE  Inv'
<1>1. proc' \in [Procs -> Calls] /\ proc'[p].pc = "idle" /\ \A q \in Procs : q # p => proc'[q] = proc[q]
  <2>1. Idle \in Calls /\ Idle.pc = "idle"
    BY DEF Idle, Calls, Steps
  <2> QED BY <2>1 DEF Return, Inv, TypeOK
<1>2. TypeOK'
  BY <1>1 DEF Inv, TypeOK, OpsAdvance, LaunchedBy
<1>3. Anchored'
  BY <1>1 DEF Inv, Anchored, OpsAdvance
<1>4. LaunchIsOwn'
  <2>1. \A q \in Procs : Begun(q)' => q # p /\ Begun(q)
    BY <1>1 DEF Begun
  <2>2. ASSUME NEW k \in Keys, launched'[k] > 0 PROVE ops'[k] # None
    <3>1. CASE launched'[k] = launched[k]
      BY <2>2, <3>1 DEF Inv, LaunchIsOwn, OpsAdvance
    <3>2. CASE launched'[k] # launched[k]
      BY <3>2 DEF Inv, Anchored, OpsAdvance, LaunchedBy
    <3> QED BY <3>1, <3>2
  <2>3. ASSUME NEW q \in Procs
        PROVE  /\ proc'[q].pc \in Launching => proc'[q].fresh
               /\ proc'[q].pc \in Launching \cup {"begun"} /\ proc'[q].fresh => launched'[proc'[q].key] = 0
    <3>1. CASE q = p
      BY <1>1, <3>1 DEF Launching
    <3>2. CASE q # p
      <4>1. proc'[q] = proc[q]
        BY <1>1, <3>2
      <4>2. ASSUME proc[q].pc \in Launching \cup {"begun"}, proc[q].fresh PROVE launched'[proc[q].key] = 0
        <5>1. launched[proc[q].key] = 0 /\ proc[q].key \in Keys /\ Begun(q)
          BY <4>2 DEF Inv, LaunchIsOwn, Anchored, Launching, Begun
        <5>2. ASSUME proc[p].pc # "idle", proc[p].fresh PROVE proc[q].key # proc[p].key
          BY <3>2, <5>1, <5>2 DEF Inv, LaunchIsOwn, Begun
        <5> QED BY <5>1, <5>2 DEF LaunchedBy
      <4> QED BY <4>1, <4>2 DEF Inv, LaunchIsOwn
    <3> QED BY <3>1, <3>2
  <2>4. ASSUME NEW q \in Procs, NEW u \in Procs, Begun(q)', Begun(u)', proc'[q].key = proc'[u].key PROVE q = u
    BY <1>1, <2>1, <2>4 DEF Inv, LaunchIsOwn
  <2> QED BY <2>2, <2>3, <2>4 DEF LaunchIsOwn
<1>5. Examined'
  <2>1. ASSUME NEW q \in Procs, q # p, proc'[q].pc = "update-ref" PROVE Movable(ops[proc[q].key])'
    BY <1>1, <2>1, ExaminedStays DEF Inv
  <2>2. ASSUME NEW q \in Procs, q # p, proc'[q].pc = "push" PROVE KindOf[proc'[q].key] = "push"
    BY <1>1, <2>2 DEF Inv, Examined
  <2> QED BY <1>1, <2>1, <2>2 DEF Examined
<1>6. EffectOnce'
  BY DEF Inv, EffectOnce, LaunchedBy
<1> QED BY <1>2, <1>3, <1>4, <1>5, <1>6 DEF Inv

LEMMA ReturnKeeps ==
    ASSUME Bounds, Inv, NEW p \in Procs, proc[p].pc # "idle", Return(p),
           transaction' = transaction \/ transaction = p,
           OpsAdvance, OpsAreOwn', OutcomesAreReal',
           UNCHANGED <<trunk, remote, policy, candidate, review, launched>>
    PROVE  Inv'
<1>1. LaunchedBy(p)
  BY DEF LaunchedBy, Inv, TypeOK
<1> QED BY <1>1, LaunchedReturnKeeps

\* A process goes on to its next step, under the lock.
LEMMA ToKeeps ==
    ASSUME Bounds, Inv, NEW p \in Procs, NEW x \in Steps \ {"idle", "begun"}, To(p, x),
           proc[p].pc # "idle", transaction' = p, transaction = None \/ transaction = p,
           x \in Launching => proc[p].fresh /\ launched'[proc[p].key] = 0,
           x = "push" => KindOf[proc[p].key] = "push",
           x = "update-ref" => Movable(ops[proc[p].key]),
           LaunchedBy(p), UNCHANGED <<policy, candidate, review, ops>>,
           trunk' \in Commits, remote' \in Remotes, OutcomesAreReal'
    PROVE  Inv'
<1>1. proc' \in [Procs -> Calls] /\ proc'[p].pc = x /\ proc'[p].key = proc[p].key /\ proc'[p].fresh = proc[p].fresh
      /\ \A q \in Procs : q # p => proc'[q] = proc[q]
  <2>1. proc' = [proc EXCEPT ![p] = [@ EXCEPT !.pc = x]] /\ proc[p] \in Calls /\ proc \in [Procs -> Calls]
    BY DEF To, Inv, TypeOK
  <2>2. [proc[p] EXCEPT !.pc = x] \in Calls
    BY <2>1 DEF Calls
  <2> QED BY <2>1, <2>2 DEF Calls
<1>2. TypeOK'
  BY <1>1 DEF Inv, TypeOK, LaunchedBy
<1>3. Anchored'
  <2>1. proc[p].key \in Keys /\ ops[proc[p].key] # None
    BY DEF Inv, Anchored
  <2>2. \A q \in Procs : q # p => proc[q].pc \in {"idle", "begun"}
    BY DEF Inv, Anchored, Bounds
  <2> QED BY <1>1, <2>1, <2>2 DEF Inv, Anchored
<1>4. \A q \in Procs : q # p => proc[q].pc \in {"idle", "begun"}
  BY DEF Inv, Anchored, Bounds
<1>5. LaunchIsOwn'
  <2>1. \A q \in Procs : Begun(q)' <=> Begun(q)
    BY <1>1 DEF Begun
  <2>2. \A q \in Procs : proc'[q].key = proc[q].key
    BY <1>1
  <2>3. ASSUME NEW q \in Procs, NEW u \in Procs, Begun(q)', Begun(u)', proc'[q].key = proc'[u].key PROVE q = u
    BY <2>1, <2>2, <2>3 DEF Inv, LaunchIsOwn
  <2>4. ASSUME NEW k \in Keys, launched'[k] > 0 PROVE ops'[k] # None
    <3>1. CASE launched'[k] = launched[k]
      BY <2>4, <3>1 DEF Inv, LaunchIsOwn
    <3>2. CASE launched'[k] # launched[k]
      BY <3>2 DEF Inv, Anchored, LaunchedBy
    <3> QED BY <3>1, <3>2
  <2>5. ASSUME NEW q \in Procs, q # p
        PROVE  /\ proc'[q].pc \in Launching => proc'[q].fresh
               /\ proc'[q].pc \in Launching \cup {"begun"} /\ proc'[q].fresh => launched'[proc'[q].key] = 0
    <3>1. proc'[q] = proc[q] /\ proc[q].pc \in {"idle", "begun"}
      BY <1>1, <1>4, <2>5
    <3>2. ASSUME proc[q].pc = "begun", proc[q].fresh PROVE launched'[proc[q].key] = 0
      <4>1. launched[proc[q].key] = 0 /\ proc[q].key \in Keys
        BY <3>2 DEF Inv, LaunchIsOwn, Anchored
      <4>2. ASSUME proc[p].fresh PROVE proc[q].key # proc[p].key
        BY <2>5, <3>2, <4>2 DEF Inv, LaunchIsOwn, Begun
      <4> QED BY <4>1, <4>2 DEF LaunchedBy
    <3> QED BY <3>1, <3>2 DEF Launching
  <2>6. /\ proc'[p].pc \in Launching => proc'[p].fresh
        /\ proc'[p].pc \in Launching \cup {"begun"} /\ proc'[p].fresh => launched'[proc'[p].key] = 0
    BY <1>1
  <2> QED BY <2>3, <2>4, <2>5, <2>6 DEF LaunchIsOwn
<1>6. Examined'
  <2>1. proc'[p].pc = "update-ref" => Movable(ops[proc[p].key])'
    BY <1>1 DEF Movable, Approved
  <2> QED BY <1>1, <1>4, <2>1 DEF Examined
<1>7. EffectOnce'
  BY DEF Inv, EffectOnce, LaunchedBy
<1>8. OpsAreOwn'
  BY DEF Inv, OpsAreOwn
<1> QED BY <1>2, <1>3, <1>5, <1>6, <1>7, <1>8 DEF Inv

-----------------------------------------------------------------------------
(* The steps of a process.                                                 *)

\* The record a process works on.
LEMMA OwnRecord ==
    ASSUME Inv, NEW p \in Procs, proc[p].pc # "idle"
    PROVE  /\ proc[p].key \in Keys /\ ops[proc[p].key] # None
           /\ ops[proc[p].key] \in Operations /\ ops[proc[p].key].key = proc[p].key
           /\ ops[proc[p].key].commit \in Commits /\ ops[proc[p].key].policy \in Policies
<1>1. proc[p].key \in Keys /\ ops[proc[p].key] # None
  BY DEF Inv, Anchored
<1> QED BY <1>1 DEF Inv, TypeOK, OpsAreOwn, Operations

LEMMA BeginKeeps ==
    ASSUME Bounds, Inv, NEW p \in Procs, NEW k \in Keys, beginNativeIntegration(p, k)
    PROVE  Inv'
<1>1. /\ proc[p].pc = "idle" /\ transaction = None
      /\ UNCHANGED <<trunk, remote, policy, candidate, review, transaction, launched>>
  BY DEF beginNativeIntegration, git, authority
<1>2. CASE beginFresh(k) /\ proc' = [proc EXCEPT ![p] = [pc |-> "begun", key |-> k, fresh |-> TRUE]]
  <2> DEFINE i == Intent(k)
  <2>1. ops[k] = None /\ ops' = [ops EXCEPT ![k] = i] /\ policy[Class(k)][TaskOf[k]] # None
    BY <1>2 DEF beginFresh
  <2>2. i \in Operations /\ i.key = k /\ i.state = "pending" /\ i.outcome = None
    <3>1. candidate[TaskOf[k]] \in Commits /\ policy[Class(k)][TaskOf[k]] \in Policies
      BY <2>1, KeysHaveTasks DEF Inv, TypeOK
    <3> QED BY <3>1 DEF Intent, Operations
  <2>3. i # None
    BY <2>2 DEF Bounds
  <2> HIDE DEF i
  <2>4. ops' \in [Keys -> Operations \cup {None}] /\ ops'[k] = i /\ \A j \in Keys : j # k => ops'[j] = ops[j]
    BY <2>1, <2>2 DEF Inv, TypeOK
  <2>5. /\ proc' \in [Procs -> Calls] /\ proc'[p].pc = "begun" /\ proc'[p].key = k /\ proc'[p].fresh
        /\ \A q \in Procs : q # p => proc'[q] = proc[q]
    <3>1. [pc |-> "begun", key |-> k, fresh |-> TRUE] \in Calls
      BY DEF Calls, Steps
    <3> QED BY <1>2, <3>1 DEF Inv, TypeOK
  <2>6. \A q \in Procs : proc[q].pc # "idle" => proc[q].key # k /\ proc[q].key \in Keys /\ ops[proc[q].key] # None
    BY <2>1 DEF Inv, Anchored
  <2>7. TypeOK'
    BY <1>1, <2>4, <2>5 DEF Inv, TypeOK
  <2>8. OpsAreOwn' /\ OutcomesAreReal'
    BY <1>1, <2>2, <2>4 DEF Inv, OpsAreOwn, OutcomesAreReal
  <2>9. Anchored'
    BY <1>1, <2>3, <2>4, <2>5, <2>6 DEF Inv, Anchored
  <2>10. launched[k] = 0
    BY <2>1 DEF Inv, LaunchIsOwn, TypeOK
  <2>11. LaunchIsOwn'
    <3>1. ASSUME NEW q \in Procs, NEW u \in Procs, Begun(q)', Begun(u)', proc'[q].key = proc'[u].key PROVE q = u
      BY <2>5, <2>6, <3>1 DEF Inv, LaunchIsOwn, Begun
    <3>2. ASSUME NEW q \in Procs
          PROVE  /\ proc'[q].pc \in Launching => proc'[q].fresh
                 /\ proc'[q].pc \in Launching \cup {"begun"} /\ proc'[q].fresh => launched'[proc'[q].key] = 0
      BY <1>1, <2>5, <2>10 DEF Inv, LaunchIsOwn, Launching
    <3>3. \A j \in Keys : launched'[j] > 0 => ops'[j] # None
      BY <1>1, <2>3, <2>4 DEF Inv, LaunchIsOwn
    <3> QED BY <3>1, <3>2, <3>3 DEF LaunchIsOwn
  <2>12. Examined' /\ EffectOnce'
    <3>1. \A q \in Procs : proc'[q].pc \in {"idle", "begun"}
      BY <1>1, <2>5 DEF Inv, Anchored, Bounds
    <3> QED BY <1>1, <3>1 DEF Inv, Examined, EffectOnce
  <2> QED BY <2>7, <2>8, <2>9, <2>11, <2>12 DEF Inv
<1>3. CASE ops[k] # None /\ proc' = [proc EXCEPT ![p] = [pc |-> "begun", key |-> k, fresh |-> FALSE]] /\ UNCHANGED ops
  <2>1. /\ proc' \in [Procs -> Calls] /\ proc'[p].pc = "begun" /\ proc'[p].key = k /\ ~proc'[p].fresh
        /\ \A q \in Procs : q # p => proc'[q] = proc[q]
    <3>1. [pc |-> "begun", key |-> k, fresh |-> FALSE] \in Calls
      BY DEF Calls, Steps
    <3> QED BY <1>3, <3>1 DEF Inv, TypeOK
  <2>2. TypeOK'
    BY <1>1, <1>3, <2>1 DEF Inv, TypeOK
  <2>3. OpsAreOwn' /\ OutcomesAreReal'
    BY <1>1, <1>3, NothingRecorded
  <2>4. Anchored'
    BY <1>1, <1>3, <2>1 DEF Inv, Anchored
  <2>5. LaunchIsOwn'
    <3>1. ASSUME NEW q \in Procs, NEW u \in Procs, Begun(q)', Begun(u)', proc'[q].key = proc'[u].key PROVE q = u
      BY <2>1, <3>1 DEF Inv, LaunchIsOwn, Begun
    <3>2. ASSUME NEW q \in Procs
          PROVE  /\ proc'[q].pc \in Launching => proc'[q].fresh
                 /\ proc'[q].pc \in Launching \cup {"begun"} /\ proc'[q].fresh => launched'[proc'[q].key] = 0
      BY <1>1, <2>1 DEF Inv, LaunchIsOwn, Launching
    <3>3. \A j \in Keys : launched'[j] > 0 => ops'[j] # None
      BY <1>1, <1>3 DEF Inv, LaunchIsOwn
    <3> QED BY <3>1, <3>2, <3>3 DEF LaunchIsOwn
  <2>6. Examined' /\ EffectOnce'
    <3>1. \A q \in Procs : proc'[q].pc \in {"idle", "begun"}
      BY <1>1, <2>1 DEF Inv, Anchored, Bounds
    <3> QED BY <1>1, <3>1 DEF Inv, Examined, EffectOnce
  <2> QED BY <2>2, <2>3, <2>4, <2>5, <2>6 DEF Inv
<1> QED BY <1>2, <1>3 DEF beginNativeIntegration

\* A call that began goes on to the effect only if it may launch.
LEMMA GoesOn ==
    ASSUME Bounds, Inv, NEW p \in Procs, proc[p].pc = "begun", transaction = None, mayLaunch(p),
           To(p, "effect"), transaction' = p, UNCHANGED <<trunk, remote, policy, candidate, review, launched, ops>>
    PROVE  Inv'
<1>1. proc[p].fresh /\ launched[proc[p].key] = 0
  BY DEF mayLaunch, Inv, LaunchIsOwn
<1>2. "effect" \in Steps \ {"idle", "begun"} /\ "effect" # "push" /\ "effect" # "update-ref" /\ proc[p].pc # "idle"
  BY DEF Steps, Launching
<1>3. LaunchedBy(p) /\ trunk' \in Commits /\ remote' \in Remotes
  BY DEF Inv, TypeOK, LaunchedBy
<1>4. OutcomesAreReal'
  BY NothingRecorded
<1> QED BY <1>1, <1>2, <1>3, <1>4, ToKeeps

LEMMA LocalContinueKeeps ==
    ASSUME Bounds, Inv, NEW p \in Procs, continueNativeIntegration(p)
    PROVE  Inv'
<1> DEFINE r == ops[proc[p].key]
           o == ObserveNativeIntegrationTarget
<1>1. /\ proc[p].pc = "begun" /\ Class(proc[p].key) = "local" /\ transaction = None
      /\ UNCHANGED <<trunk, remote, policy, candidate, review, launched>>
  BY DEF continueNativeIntegration, git, authority
<1>2. CASE Return(p) /\ UNCHANGED <<ops, transaction>>
  BY <1>1, <1>2, NothingRecorded, ReturnKeeps
<1>3. CASE Return(p) /\ ops' = [ops EXCEPT ![r.key] = Settled(r, o)] /\ UNCHANGED transaction
  <2>1. proc[p].key \in Keys /\ r # None /\ r.key = proc[p].key
    BY <1>1, OwnRecord
  <2>2. o \in LocalOutcomes
    BY ObservedLocally DEF Inv
  <2>3. ops' = [ops EXCEPT ![proc[p].key] = Settled(ops[proc[p].key], o)]
    BY <1>3, <2>1
  <2>4. Class(proc[p].key) # "external"
    BY <1>1
  <2>5. OpsAdvance /\ OpsAreOwn' /\ OutcomesAreReal'
    <3> HIDE DEF o
    <3> QED BY <1>1, <2>1, <2>2, <2>3, <2>4, Settling DEF o
  <2> QED BY <1>1, <1>3, <2>5, ReturnKeeps
<1>4. CASE mayLaunch(p) /\ To(p, "effect") /\ transaction' = p /\ UNCHANGED ops
  BY <1>1, <1>4, GoesOn
<1> QED BY <1>2, <1>3, <1>4 DEF continueNativeIntegration

LEMMA ExternalContinueKeeps ==
    ASSUME Bounds, Inv, NEW p \in Procs, continueNativeExternal(p)
    PROVE  Inv'
<1> DEFINE r == ops[proc[p].key]
<1>1. /\ proc[p].pc = "begun" /\ Class(proc[p].key) = "external" /\ transaction = None
      /\ UNCHANGED <<trunk, remote, policy, candidate, review, launched>>
  BY DEF continueNativeExternal, git, authority
<1>2. PICK c \in BOOLEAN :
        LET o == ObserveNativeExternal(c)
        IN  \/ Return(p) /\ UNCHANGED <<ops, transaction>>
            \/ Return(p) /\ ops' = [ops EXCEPT ![r.key] = Settled(r, o)] /\ UNCHANGED transaction
            \/ mayLaunch(p) /\ To(p, "effect") /\ transaction' = p /\ UNCHANGED ops
  BY DEF continueNativeExternal
<1> DEFINE o == ObserveNativeExternal(c)
<1>3. CASE Return(p) /\ UNCHANGED <<ops, transaction>>
  BY <1>1, <1>3, NothingRecorded, ReturnKeeps
<1>4. CASE Return(p) /\ ops' = [ops EXCEPT ![r.key] = Settled(r, o)] /\ UNCHANGED transaction
  <2>1. proc[p].key \in Keys /\ r # None /\ r.key = proc[p].key
    BY <1>1, OwnRecord
  <2>2. o \in ExternalOutcomes /\ o.trunk = remote.trunk
    BY ObservedRemotely DEF Inv
  <2>3. ops' = [ops EXCEPT ![proc[p].key] = Settled(ops[proc[p].key], o)]
    BY <1>4, <2>1
  <2>4. Class(proc[p].key) # "local"
    BY <1>1
  <2>5. OpsAdvance /\ OpsAreOwn' /\ OutcomesAreReal'
    <3> HIDE DEF o
    <3> QED BY <1>1, <2>1, <2>2, <2>3, <2>4, Settling
  <2> QED BY <1>1, <1>4, <2>5, ReturnKeeps
<1>5. CASE mayLaunch(p) /\ To(p, "effect") /\ transaction' = p /\ UNCHANGED ops
  BY <1>1, <1>5, GoesOn
<1> QED BY <1>2, <1>3, <1>4, <1>5

\* A process in a later step holds the lock, and no other is past its first.
LEMMA HoldsLock ==
    ASSUME Bounds, Inv, NEW p \in Procs, proc[p].pc \notin {"idle", "begun"}
    PROVE  /\ transaction = p /\ proc[p].pc # "idle"
           /\ proc[p].pc \in Launching => proc[p].fresh /\ launched[proc[p].key] = 0
  BY DEF Inv, Anchored, LaunchIsOwn

LEMMA ApplyEffectKeeps == ASSUME Bounds, Inv, NEW p \in Procs, ApplyEffect(p) PROVE Inv'
<1> DEFINE r == ops[proc[p].key]
<1>1. /\ proc[p].pc = "effect" /\ UNCHANGED <<trunk, remote, policy, candidate, review, ops, launched>>
  BY DEF ApplyEffect, git, authority
<1>2. transaction = p /\ proc[p].pc # "idle" /\ proc[p].fresh /\ launched[proc[p].key] = 0
  BY <1>1, HoldsLock DEF Launching
<1>3. OpsAdvance /\ OpsAreOwn' /\ OutcomesAreReal'
  BY <1>1, NothingRecorded
<1>4. CASE Return(p) /\ transaction' = None
  BY <1>1, <1>2, <1>3, <1>4, ReturnKeeps
<1>5. ASSUME FastForward(r), integrationFinalCurrent(r), UNCHANGED transaction,
             To(p, IF KindOf[r.key] = "local" THEN "update-ref" ELSE KindOf[r.key])
      PROVE  Inv'
  <2> DEFINE x == IF KindOf[r.key] = "local" THEN "update-ref" ELSE KindOf[r.key]
  <2>1. r.key = proc[p].key /\ proc[p].key \in Keys
    BY <1>1, OwnRecord
  <2>2. KindOf[proc[p].key] \in {"local", "push", "create_pr"}
    BY <2>1 DEF Bounds
  <2>3. x \in Steps \ {"idle", "begun"} /\ (x = "push" => KindOf[proc[p].key] = "push")
    BY <2>1, <2>2 DEF Steps, Launching
  <2>4. x = "update-ref" => Movable(r)
    BY <1>5, <2>1, <2>2 DEF FastForward, integrationFinalCurrent, Movable, Approved
  <2>5. LaunchedBy(p) /\ trunk' \in Commits /\ remote' \in Remotes
    BY <1>1 DEF Inv, TypeOK, LaunchedBy
  <2>6. To(p, x)
    BY <1>5
  <2> HIDE DEF x
  <2> QED BY <1>1, <1>2, <1>3, <1>5, <2>3, <2>4, <2>5, <2>6, ToKeeps
<1> QED BY <1>4, <1>5 DEF ApplyEffect

\* The call that began starts its command, for the first time.
LEMMA Launches ==
    ASSUME Bounds, Inv, NEW p \in Procs, proc[p].pc \in Launching,
           launched' = [launched EXCEPT ![proc[p].key] = @ + 1]
    PROVE  LaunchedBy(p)
<1>1. proc[p].pc \notin {"idle", "begun"}
  BY DEF Launching
<1>2. proc[p].fresh /\ launched[proc[p].key] = 0 /\ proc[p].key \in Keys
  BY <1>1, HoldsLock, OwnRecord
<1> QED BY <1>2 DEF Inv, TypeOK, LaunchedBy

LEMMA CommandFailsKeeps == ASSUME Bounds, Inv, NEW p \in Procs, CommandFails(p) PROVE Inv'
<1>1. /\ proc[p].pc \in Launching /\ proc[p].pc \notin {"idle", "begun"} /\ Return(p) /\ transaction' = None
      /\ UNCHANGED <<trunk, remote, policy, candidate, review, ops>>
      /\ launched' = [launched EXCEPT ![proc[p].key] = @ + 1]
  BY DEF CommandFails, git, authority, Launching
<1>2. transaction = p /\ proc[p].pc # "idle" /\ LaunchedBy(p)
  BY <1>1, HoldsLock, Launches
<1>3. OpsAdvance /\ OpsAreOwn' /\ OutcomesAreReal'
  BY <1>1, NothingRecorded
<1> QED BY <1>1, <1>2, <1>3, LaunchedReturnKeeps

\* The ref moves from where it was pinned to a commit that continues it.
LEMMA UpdateRefKeeps == ASSUME Bounds, Inv, NEW p \in Procs, UpdateRef(p) PROVE Inv'
<1> DEFINE r == ops[proc[p].key]
<1>1. /\ proc[p].pc = "update-ref" /\ UNCHANGED <<remote, policy, candidate, review, ops, transaction>>
      /\ trunk = r.policy.expected /\ trunk' = r.commit /\ To(p, "read-tree")
      /\ launched' = [launched EXCEPT ![r.key] = @ + 1]
  BY DEF UpdateRef, authority
<1>2. transaction = p /\ proc[p].pc # "idle"
  BY <1>1, HoldsLock DEF Launching
<1>3. r.key = proc[p].key /\ proc[p].key \in Keys /\ r.commit \in Commits
  BY <1>1, OwnRecord
<1>4. LaunchedBy(p)
  BY <1>1, <1>3, Launches DEF Launching
<1>5. IsPrefix(trunk, r.commit)
  BY <1>1 DEF Inv, Examined, Movable
<1>6. OutcomesAreReal'
  <2>1. ASSUME NEW k \in Keys, ops[k] # None, ops[k].state = "done", Class(k) = "local"
        PROVE  IsPrefix(ops[k].commit, r.commit)
    <3>1. IsPrefix(ops[k].commit, trunk)
      BY <2>1 DEF Inv, OutcomesAreReal
    <3>2. ops[k].commit \in Seq(Changes) /\ trunk \in Seq(Changes) /\ r.commit \in Seq(Changes)
      BY <1>3, <2>1 DEF Inv, TypeOK, Operations, Commits
    <3> QED BY <1>5, <3>1, <3>2, PrefixOfPrefix
  <2> QED BY <1>1, <2>1 DEF Inv, OutcomesAreReal
<1>7. trunk' \in Commits /\ remote' \in Remotes
  BY <1>1, <1>3 DEF Inv, TypeOK
<1>8. "read-tree" \in Steps \ {"idle", "begun"} /\ "read-tree" \notin Launching
  BY DEF Steps, Launching
<1>9. "read-tree" # "push" /\ "read-tree" # "update-ref"
  OBVIOUS
<1> QED BY <1>1, <1>2, <1>4, <1>6, <1>7, <1>8, <1>9, ToKeeps

LEMMA ReadTreeKeeps == ASSUME Bounds, Inv, NEW p \in Procs, ReadTree(p) PROVE Inv'
<1>1. /\ proc[p].pc = "read-tree" /\ UNCHANGED <<trunk, remote, policy, candidate, review, ops, launched>>
  BY DEF ReadTree, authority
<1>2. transaction = p /\ proc[p].pc # "idle"
  BY <1>1, HoldsLock
<1>3. OpsAdvance /\ OpsAreOwn' /\ OutcomesAreReal'
  BY <1>1, NothingRecorded
<1>4. CASE Return(p) /\ transaction' = None
  BY <1>1, <1>2, <1>3, <1>4, ReturnKeeps
<1>5. CASE To(p, "observe") /\ UNCHANGED transaction
  <2>1. "observe" \in Steps \ {"idle", "begun"} /\ "observe" \notin Launching
    BY DEF Steps, Launching
  <2>2. "observe" # "push" /\ "observe" # "update-ref"
    OBVIOUS
  <2>3. LaunchedBy(p) /\ trunk' \in Commits /\ remote' \in Remotes
    BY <1>1 DEF Inv, TypeOK, LaunchedBy
  <2> QED BY <1>1, <1>2, <1>3, <1>5, <2>1, <2>2, <2>3, ToKeeps
<1> QED BY <1>4, <1>5 DEF ReadTree

\* A push or a new pull request leaves the target branch where it is.
LEMMA RemoteEffectKeeps ==
    ASSUME Bounds, Inv, NEW p \in Procs, proc[p].pc \in {"push", "create_pr"}, To(p, "observe"),
           UNCHANGED <<trunk, policy, candidate, review, ops, transaction>>,
           remote' \in Remotes, remote'.trunk = remote.trunk,
           launched' = [launched EXCEPT ![ops[proc[p].key].key] = @ + 1]
    PROVE  Inv'
<1>1. transaction = p /\ proc[p].pc # "idle"
  BY HoldsLock DEF Launching
<1>2. ops[proc[p].key].key = proc[p].key
  BY OwnRecord
<1>3. OutcomesAreReal'
  BY DEF Inv, OutcomesAreReal
<1>4. LaunchedBy(p)
  BY <1>2, Launches DEF Launching
<1>5. trunk' \in Commits
  BY DEF Inv, TypeOK
<1>6. "observe" \in Steps \ {"idle", "begun"} /\ "observe" \notin Launching
  BY DEF Steps, Launching
<1>7. "observe" # "push" /\ "observe" # "update-ref"
  OBVIOUS
<1> QED BY <1>1, <1>3, <1>4, <1>5, <1>6, <1>7, ToKeeps

LEMMA PushKeeps == ASSUME Bounds, Inv, NEW p \in Procs, Push(p) PROVE Inv'
<1> DEFINE r == ops[proc[p].key]
<1>1. /\ proc[p].pc = "push" /\ UNCHANGED <<trunk, policy, candidate, review, ops, transaction>>
      /\ To(p, "observe") /\ remote' = [remote EXCEPT !.head = r.commit]
      /\ launched' = [launched EXCEPT ![r.key] = @ + 1]
  BY DEF Push, authority
<1>2. r.commit \in Commits
  BY <1>1, OwnRecord
<1>3. remote' \in Remotes /\ remote'.trunk = remote.trunk
  BY <1>1, <1>2 DEF Inv, TypeOK, Remotes
<1> QED BY <1>1, <1>3, RemoteEffectKeeps

LEMMA CreatePRKeeps == ASSUME Bounds, Inv, NEW p \in Procs, CreatePR(p) PROVE Inv'
<1>1. /\ proc[p].pc = "create_pr" /\ UNCHANGED <<trunk, policy, candidate, review, ops, transaction>>
      /\ To(p, "observe") /\ launched' = [launched EXCEPT ![ops[proc[p].key].key] = @ + 1]
      /\ remote' = [remote EXCEPT !.pr = [commit |-> remote.head, merged |-> None]]
  BY DEF CreatePR, authority
<1>2. [commit |-> remote.head, merged |-> None] \in PullRequests
  BY DEF Inv, TypeOK, Remotes, PullRequests
<1>3. remote' \in Remotes /\ remote'.trunk = remote.trunk
  BY <1>1, <1>2 DEF Inv, TypeOK, Remotes
<1> QED BY <1>1, <1>3, RemoteEffectKeeps

LEMMA RecordOutcomeKeeps == ASSUME Bounds, Inv, NEW p \in Procs, RecordOutcome(p) PROVE Inv'
<1> DEFINE r == ops[proc[p].key]
<1>1. /\ proc[p].pc = "observe" /\ UNCHANGED <<trunk, remote, policy, candidate, review, launched>>
      /\ Return(p) /\ transaction' = None
  BY DEF RecordOutcome, git, authority
<1>2. transaction = p
  BY <1>1, HoldsLock
<1>3. proc[p].key \in Keys /\ r # None /\ r.key = proc[p].key
  BY <1>1, OwnRecord
<1>4. PICK o \in IF Class(r.key) = "local" THEN {ObserveNativeIntegrationTarget}
                 ELSE {ObserveNativeExternal(c) : c \in BOOLEAN} :
        ops' = ops \/ ops' = [ops EXCEPT ![r.key] = Settled(r, o)]
  BY DEF RecordOutcome
<1>5. CASE ops' = ops
  BY <1>1, <1>2, <1>5, NothingRecorded, ReturnKeeps
<1>6. CASE ops' = [ops EXCEPT ![r.key] = Settled(r, o)]
  <2>1. Class(proc[p].key) \in {"local", "external"}
    BY DEF Class
  <2>2. CASE Class(proc[p].key) = "local"
    <3>1. o = ObserveNativeIntegrationTarget /\ o \in LocalOutcomes
      BY <1>3, <1>4, <2>2, ObservedLocally DEF Inv
    <3>2. OpsAdvance /\ OpsAreOwn' /\ OutcomesAreReal'
      BY <1>1, <1>3, <1>6, <2>2, <3>1, Settling
    <3> QED BY <1>1, <1>2, <3>2, ReturnKeeps
  <2>3. CASE Class(proc[p].key) = "external"
    <3>1. PICK c \in BOOLEAN : o = ObserveNativeExternal(c)
      BY <1>3, <1>4, <2>3
    <3>2. o \in ExternalOutcomes /\ o.trunk = remote.trunk
      BY <3>1, ObservedRemotely DEF Inv
    <3>3. OpsAdvance /\ OpsAreOwn' /\ OutcomesAreReal'
      BY <1>1, <1>3, <1>6, <2>3, <3>2, Settling
    <3> QED BY <1>1, <1>2, <3>3, ReturnKeeps
  <2> QED BY <2>1, <2>2, <2>3
<1> QED BY <1>4, <1>5, <1>6

LEMMA StopsKeeps == ASSUME Bounds, Inv, NEW p \in Procs, Stops(p) PROVE Inv'
<1>1. /\ proc[p].pc # "idle" /\ Return(p) /\ UNCHANGED <<trunk, remote, policy, candidate, review, ops, launched>>
      /\ transaction' = transaction \/ transaction = p
  BY DEF Stops, git, authority
<1> QED BY <1>1, NothingRecorded, ReturnKeeps

-----------------------------------------------------------------------------
(* The owner, the worker and the reviewer; other people; time.             *)

\* What leaves the calls and the targets alone, and the approvals a process
\* relies on.
LEMMA AuthorityKeeps ==
    ASSUME Bounds, Inv, UNCHANGED <<trunk, remote, ops, proc, transaction, launched>>,
           review' = review \/ transaction = None,
           policy' \in [Classes -> [Tasks -> Policies \cup {None}]],
           candidate' \in [Tasks -> Commits], review' \in [Tasks -> Reviews \cup {None}]
    PROVE  Inv'
<1>1. TypeOK'
  BY DEF Inv, TypeOK
<1>2. OpsAreOwn' /\ OutcomesAreReal' /\ Anchored' /\ EffectOnce'
  BY NothingRecorded DEF Inv, Anchored, EffectOnce
<1>3. LaunchIsOwn'
  <2>1. \A q \in Procs : Begun(q)' <=> Begun(q)
    BY DEF Begun
  <2> QED BY <2>1 DEF Inv, LaunchIsOwn
<1>4. Examined'
  <2>1. CASE review' = review
    BY <2>1 DEF Inv, Examined, Movable, Approved
  <2>2. CASE transaction = None
    BY <2>2 DEF Inv, Anchored, Examined, Bounds
  <2> QED BY <2>1, <2>2
<1> QED BY <1>1, <1>2, <1>3, <1>4 DEF Inv

LEMMA RevIsNatural ==
    ASSUME TypeOK, NEW c \in Classes, NEW t \in Tasks
    PROVE  Rev(c, t) \in Nat
  BY DEF TypeOK, Rev, Policies

LEMMA ConfigureKeeps ==
    ASSUME Bounds, Inv, NEW c \in Classes, NEW t \in Tasks, Configure(c, t)
    PROVE  Inv'
<1> DEFINE n == [rev |-> Rev(c, t) + 1, commit |-> candidate[t], head |-> remote.head,
                 expected |-> IF c = "local" THEN trunk ELSE remote.trunk]
<1>1. n \in Policies
  <2>1. Rev(c, t) + 1 \in Nat
    BY RevIsNatural DEF Inv
  <2>2. /\ candidate[t] \in Commits /\ remote.head \in Commits
        /\ (IF c = "local" THEN trunk ELSE remote.trunk) \in Commits
    BY DEF Inv, TypeOK, Remotes
  <2> QED BY <2>1, <2>2 DEF Policies
<1>2. policy' = [policy EXCEPT ![c] = [@ EXCEPT ![t] = n]]
  BY DEF Configure
<1> HIDE DEF n
<1>3. policy' \in [Classes -> [Tasks -> Policies \cup {None}]]
  <2>1. [policy[c] EXCEPT ![t] = n] \in [Tasks -> Policies \cup {None}]
    BY <1>1 DEF Inv, TypeOK
  <2> QED BY <1>2, <2>1 DEF Inv, TypeOK
<1> QED BY <1>3, AuthorityKeeps DEF Configure, git, Inv, TypeOK

LEMMA WorkKeeps ==
    ASSUME Bounds, Inv, NEW t \in Tasks, PublishRevision(t) \/ Approve(t) \/ Lapses(t)
    PROVE  Inv'
<1>1. CASE PublishRevision(t)
  <2>1. Append(trunk, t) \in Commits
    BY DEF Inv, TypeOK, Commits, Changes
  <2>2. candidate' \in [Tasks -> Commits] /\ review' \in [Tasks -> Reviews \cup {None}]
    BY <1>1, <2>1 DEF PublishRevision, Inv, TypeOK
  <2> QED BY <1>1, <2>2, AuthorityKeeps DEF PublishRevision, git, Inv, TypeOK
<1>2. CASE Approve(t)
  <2>1. [commit |-> candidate[t], after |-> [c \in Classes |-> Rev(c, t)]] \in Reviews
    <3>1. [c \in Classes |-> Rev(c, t)] \in [Classes -> Nat]
      BY RevIsNatural DEF Inv
    <3> QED BY <3>1 DEF Inv, TypeOK, Reviews
  <2>2. review' \in [Tasks -> Reviews \cup {None}]
    BY <1>2, <2>1 DEF Approve, Inv, TypeOK
  <2> QED BY <1>2, <2>2, AuthorityKeeps DEF Approve, git, Inv, TypeOK
<1>3. CASE Lapses(t)
  BY <1>3, AuthorityKeeps DEF Lapses, git, Inv, TypeOK
<1> QED BY <1>1, <1>2, <1>3

\* Whatever others do to the targets, the trunks only grow.
LEMMA OthersGrow ==
    ASSUME Inv, Foreign
    PROVE  trunk' \in Commits /\ remote' \in Remotes /\ IsPrefix(trunk, trunk') /\ IsPrefix(remote.trunk, remote'.trunk)
<1>1. /\ trunk \in Seq(Changes) /\ remote \in Remotes /\ remote.trunk \in Seq(Changes) /\ remote.head \in Seq(Changes)
      /\ "x" \in Changes /\ "m" \in Changes
  BY DEF Inv, TypeOK, Remotes, Commits, Changes
<1>2. IsPrefix(trunk, trunk) /\ IsPrefix(remote.trunk, remote.trunk)
  BY <1>1, PrefixOfItself
<1>3. ASSUME SomeoneCommits
      PROVE  trunk' \in Commits /\ remote' = remote /\ IsPrefix(trunk, trunk')
  <2>1. trunk' = Append(trunk, "x") /\ remote' = remote
    BY <1>3 DEF SomeoneCommits
  <2>2. IsPrefix(trunk, Append(trunk, "x"))
    BY <1>1, <1>2, PrefixOfLonger
  <2> QED BY <1>1, <2>1, <2>2 DEF Commits
<1>4. ASSUME SomeonePushes
      PROVE  trunk' = trunk /\ remote' \in Remotes /\ IsPrefix(remote.trunk, remote'.trunk)
  <2>1. Append(remote.head, "x") \in Commits /\ Append(remote.trunk, "x") \in Commits
    BY <1>1 DEF Commits
  <2>2. IsPrefix(remote.trunk, Append(remote.trunk, "x"))
    BY <1>1, <1>2, PrefixOfLonger
  <2>3. CASE remote' = [remote EXCEPT !.head = Append(@, "x")] /\ UNCHANGED <<trunk, worktree>>
    BY <1>1, <1>2, <2>1, <2>3 DEF Remotes
  <2>4. CASE remote' = [remote EXCEPT !.trunk = Append(@, "x")] /\ UNCHANGED <<trunk, worktree>>
    BY <1>1, <2>1, <2>2, <2>4 DEF Remotes
  <2> QED BY <1>4, <2>3, <2>4 DEF SomeonePushes
<1>5. ASSUME Merges
      PROVE  trunk' = trunk /\ remote' \in Remotes /\ IsPrefix(remote.trunk, remote'.trunk)
  <2>1. PICK m \in {remote.head, Append(remote.trunk, "m")} :
            /\ IsStrictPrefix(remote.trunk, m)
            /\ remote' = [remote EXCEPT !.trunk = m, !.pr = [commit |-> remote.head, merged |-> m]]
    BY <1>5 DEF Merges
  <2>2. m \in Commits
    <3>1. Append(remote.trunk, "m") \in Seq(Changes)
      BY <1>1
    <3> QED BY <1>1, <2>1, <3>1 DEF Commits
  <2>3. [commit |-> remote.head, merged |-> m] \in PullRequests
    BY <1>1, <2>2 DEF PullRequests, Commits
  <2>4. remote' \in Remotes /\ remote'.trunk = m
    BY <1>1, <2>1, <2>2, <2>3 DEF Remotes
  <2> QED BY <1>5, <2>1, <2>4 DEF Merges, IsStrictPrefix
<1>6. ASSUME ChecksEnd
      PROVE  trunk' = trunk /\ remote' \in Remotes /\ remote'.trunk = remote.trunk
  <2>1. PICK c \in BOOLEAN : remote' = [remote EXCEPT !.checks = c]
    BY <1>6 DEF ChecksEnd
  <2> QED BY <1>1, <1>6, <2>1 DEF ChecksEnd, Remotes
<1> QED BY <1>1, <1>2, <1>3, <1>4, <1>5, <1>6 DEF Foreign, SomeoneEdits, SomeoneCheckouts, Commits

LEMMA ForeignKeeps == ASSUME Bounds, Inv, Foreign PROVE Inv'
<1>1. /\ trunk' \in Commits /\ remote' \in Remotes
      /\ IsPrefix(trunk, trunk') /\ IsPrefix(remote.trunk, remote'.trunk)
  BY OthersGrow
<1>2. UNCHANGED <<policy, candidate, review, ops, proc, transaction, launched>>
  BY DEF Foreign, authority
<1>3. TypeOK'
  BY <1>1, <1>2 DEF Inv, TypeOK
<1>4. OpsAreOwn' /\ Anchored' /\ EffectOnce'
  BY <1>2 DEF Inv, OpsAreOwn, Anchored, EffectOnce
<1>5. LaunchIsOwn' /\ Examined'
  <2>1. \A q \in Procs : Begun(q)' <=> Begun(q)
    BY <1>2 DEF Begun
  <2> QED BY <1>2, <2>1 DEF Inv, LaunchIsOwn, Examined, Movable, Approved
<1>6. OutcomesAreReal'
  <2>1. /\ trunk \in Seq(Changes) /\ trunk' \in Seq(Changes)
        /\ remote.trunk \in Seq(Changes) /\ remote'.trunk \in Seq(Changes)
    BY <1>1 DEF Inv, TypeOK, Remotes, Commits
  <2>2. ASSUME NEW k \in Keys, ops[k] # None, ops[k].state = "done", Class(k) = "local"
        PROVE  IsPrefix(ops[k].commit, trunk')
    <3>1. ops[k].commit \in Seq(Changes) /\ IsPrefix(ops[k].commit, trunk)
      BY <2>2 DEF Inv, TypeOK, Operations, Commits, OutcomesAreReal
    <3> QED BY <1>1, <2>1, <3>1, PrefixOfPrefix
  <2>3. ASSUME NEW k \in Keys, ops[k] # None, Class(k) = "external", ops[k].outcome # None
        PROVE  IsPrefix(ops[k].outcome.trunk, remote'.trunk)
    <3>1. ops[k].outcome.trunk \in Seq(Changes) /\ IsPrefix(ops[k].outcome.trunk, remote.trunk)
      BY <2>3 DEF Inv, OpsAreOwn, ExternalOutcomes, Commits, OutcomesAreReal
    <3> QED BY <1>1, <2>1, <3>1, PrefixOfPrefix
  <2> QED BY <1>2, <2>2, <2>3 DEF OutcomesAreReal
<1> QED BY <1>3, <1>4, <1>5, <1>6 DEF Inv

LEMMA AgeKeeps == ASSUME Bounds, Inv, NEW k \in Keys, ObservationAges(k) PROVE Inv'
<1> DEFINE r == ops[k]
           o == [r.outcome EXCEPT !.fresh = FALSE]
           s == [r EXCEPT !.outcome = o]
<1>1. /\ Class(k) = "external" /\ r # None /\ r.outcome # None
      /\ UNCHANGED <<trunk, remote, policy, candidate, review, proc, transaction, launched>>
  BY DEF ObservationAges, git, authority
<1>2. r \in Operations /\ r.key = k /\ r.outcome \in ExternalOutcomes
  BY <1>1 DEF Inv, TypeOK, OpsAreOwn
<1>3. o \in ExternalOutcomes /\ o.trunk = r.outcome.trunk
  BY <1>2 DEF ExternalOutcomes
<1>4. ops' = [ops EXCEPT ![k] = s]
  BY DEF ObservationAges
<1> HIDE DEF o
<1>5. s \in Operations /\ s.key = k /\ s.commit = r.commit /\ s.policy = r.policy /\ s.outcome = o /\ s.state = r.state
  BY <1>2, <1>3 DEF Operations
<1> HIDE DEF s, r
<1>6. ops' \in [Keys -> Operations \cup {None}] /\ ops'[k] = s /\ \A j \in Keys : j # k => ops'[j] = ops[j]
  BY <1>4, <1>5 DEF Inv, TypeOK
<1>7. s # None
  BY <1>5 DEF Bounds
<1>8. OpsAdvance
  BY <1>1, <1>2, <1>5, <1>6, <1>7 DEF OpsAdvance, r
<1>9. OpsAreOwn' /\ OutcomesAreReal'
  BY <1>1, <1>2, <1>3, <1>5, <1>6 DEF Inv, OpsAreOwn, OutcomesAreReal, r
<1>10. TypeOK' /\ Anchored' /\ EffectOnce'
  BY <1>1, <1>8 DEF Inv, TypeOK, Anchored, EffectOnce, OpsAdvance
<1>11. LaunchIsOwn'
  <2>1. \A q \in Procs : Begun(q)' <=> Begun(q)
    BY <1>1 DEF Begun
  <2> QED BY <1>1, <1>8, <2>1 DEF Inv, LaunchIsOwn, OpsAdvance
<1>12. Examined'
  <2>1. ASSUME NEW q \in Procs, proc[q].pc = "update-ref" PROVE Movable(ops[proc[q].key])'
    BY <1>1, <1>8, <2>1, ExaminedStays DEF Inv
  <2> QED BY <1>1, <2>1 DEF Inv, Examined
<1> QED BY <1>9, <1>10, <1>11, <1>12 DEF Inv

-----------------------------------------------------------------------------
LEMMA InitInv == ASSUME Bounds, Init PROVE Inv
<1>1. /\ trunk = <<>> /\ remote = [head |-> <<>>, trunk |-> <<>>, pr |-> None, checks |-> FALSE]
      /\ policy = [c \in Classes |-> [t \in Tasks |-> None]] /\ candidate = [t \in Tasks |-> <<t>>]
      /\ review = [t \in Tasks |-> None] /\ ops = [k \in Keys |-> None]
      /\ proc = [p \in Procs |-> Idle] /\ launched = [k \in Keys |-> 0]
  BY DEF Init
<1>2. <<>> \in Commits /\ \A t \in Tasks : <<t>> \in Commits
  BY DEF Commits, Changes
<1>3. Idle \in Calls /\ Idle.pc = "idle"
  BY DEF Idle, Calls, Steps
<1>4. TypeOK
  BY <1>1, <1>2, <1>3 DEF TypeOK, Remotes
<1>5. \A p \in Procs : proc[p].pc = "idle"
  BY <1>1, <1>3
<1>6. \A k \in Keys : ops[k] = None /\ launched[k] = 0
  BY <1>1
<1>7. LaunchIsOwn /\ Anchored /\ Examined
  BY <1>5, <1>6 DEF LaunchIsOwn, Anchored, Examined, Begun, Launching
<1>8. OpsAreOwn /\ OutcomesAreReal /\ EffectOnce
  BY <1>6 DEF OpsAreOwn, OutcomesAreReal, EffectOnce
<1> QED BY <1>4, <1>7, <1>8 DEF Inv

LEMMA ProcessKeeps == ASSUME Bounds, Inv, NEW p \in Procs, Process(p) PROVE Inv'
  BY BeginKeeps, LocalContinueKeeps, ExternalContinueKeeps, ApplyEffectKeeps, UpdateRefKeeps, ReadTreeKeeps,
     PushKeeps, CreatePRKeeps, CommandFailsKeeps, RecordOutcomeKeeps, StopsKeeps DEF Process

LEMMA Inductive == ASSUME Bounds, Inv, [Next]_vars PROVE Inv'
<1>1. ASSUME NEW t \in Tasks, "local" \in Classes, ConfigureNativeIntegration(t) PROVE Inv'
  BY <1>1, ConfigureKeeps DEF ConfigureNativeIntegration
<1>2. ASSUME NEW t \in Tasks, "external" \in Classes, ConfigureNativeExternal(t) PROVE Inv'
  BY <1>2, ConfigureKeeps DEF ConfigureNativeExternal
<1>3. ASSUME NEW t \in Tasks, PublishRevision(t) \/ Approve(t) \/ Lapses(t) PROVE Inv'
  BY <1>3, WorkKeeps
<1>4. ASSUME NEW p \in Procs, Process(p) PROVE Inv'
  BY <1>4, ProcessKeeps
<1>5. ASSUME Foreign \/ \E k \in Keys : ObservationAges(k) PROVE Inv'
  BY <1>5, ForeignKeeps, AgeKeeps
<1>6. CASE UNCHANGED vars
  <2>1. UNCHANGED <<trunk, remote, policy, candidate, review, ops, proc, transaction, launched>>
    BY <1>6 DEF vars
  <2> QED BY <2>1, AuthorityKeeps DEF Inv, TypeOK
<1> QED BY <1>1, <1>2, <1>3, <1>4, <1>5, <1>6 DEF Next

THEOREM Invariance == ASSUME Bounds PROVE Spec => []Inv
<1>1. Init => Inv
  BY InitInv
<1>2. Inv /\ [Next]_vars => Inv'
  BY Inductive
<1> QED BY <1>1, <1>2, PTL DEF Spec

\* ApplyNativeIntegration and ApplyNativeExternal: whoever repeats the call,
\* reconciles it or stops half way, the effect of a key is launched once at most.
THEOREM EffectsHappenOnce == ASSUME Bounds PROVE Spec => []EffectOnce
<1>1. Inv => EffectOnce
  BY DEF Inv
<1> QED BY <1>1, Invariance, PTL

\* What is recorded as integrated is on the trunk, and a delivery that passes
\* the gate is on the remote trunk, whatever others have committed since.
THEOREM IntegrationIsReal == ASSUME Bounds PROVE Spec => []IntegratedIsReal
<1>1. Inv => IntegratedIsReal
  BY DEF Inv, OutcomesAreReal, IntegratedIsReal, nativeExternalLatest, nativeExternalGate
<1> QED BY <1>1, Invariance, PTL

\* The ref moves only from where it was pinned, and to what was approved after.
THEOREM TrunkMovesAsReviewed == ASSUME Bounds PROVE Spec => TrunkIsReviewed
<1>1. ASSUME Inv, NEW p \in Procs, UpdateRef(p) PROVE TrunkMovesReviewed
  <2> DEFINE r == ops[proc[p].key]
  <2>1. /\ r.key = proc[p].key /\ proc[p].key \in Keys /\ KindOf[proc[p].key] = "local" /\ Approved(r)
    BY <1>1, OwnRecord DEF UpdateRef, Inv, Examined, Movable
  <2>2. Class(r.key) = "local"
    BY <2>1 DEF Class
  <2>3. trunk = r.policy.expected /\ trunk' = r.commit /\ launched' = [launched EXCEPT ![r.key] = @ + 1]
    BY <1>1 DEF UpdateRef
  <2>4. launched'[proc[p].key] # launched[proc[p].key]
    BY <1>1, <2>1, <2>3 DEF Inv, TypeOK
  <2>5. /\ review[TaskOf[proc[p].key]] # None /\ review[TaskOf[proc[p].key]].commit = trunk'
        /\ review[TaskOf[proc[p].key]].after["local"] = r.policy.rev
    BY <2>1, <2>2, <2>3 DEF Approved
  <2> QED BY <2>1, <2>3, <2>4, <2>5 DEF TrunkMovesReviewed
<1>2. ASSUME UNCHANGED trunk PROVE TrunkMovesReviewed
  BY <1>2 DEF TrunkMovesReviewed
<1>3. ASSUME UNCHANGED launched PROVE TrunkMovesReviewed
  BY <1>3 DEF TrunkMovesReviewed
<1>4. ASSUME Inv, [Next]_vars PROVE TrunkMovesReviewed
  <2>1. ASSUME NEW p \in Procs, Process(p) PROVE TrunkMovesReviewed
    BY <1>1, <1>2, <1>4, <2>1 DEF Process, beginNativeIntegration, continueNativeIntegration, continueNativeExternal,
       ApplyEffect, ReadTree, Push, CreatePR, CommandFails, RecordOutcome, Stops, git
  <2>2. ASSUME NEW t \in Tasks,
               \/ ConfigureNativeIntegration(t) \/ ConfigureNativeExternal(t)
               \/ PublishRevision(t) \/ Approve(t) \/ Lapses(t)
        PROVE  TrunkMovesReviewed
    BY <1>3, <2>2 DEF ConfigureNativeIntegration, ConfigureNativeExternal, Configure, PublishRevision, Approve, Lapses
  <2>3. ASSUME Foreign \/ \E k \in Keys : ObservationAges(k) PROVE TrunkMovesReviewed
    BY <1>3, <2>3 DEF Foreign, ObservationAges
  <2>4. CASE UNCHANGED vars
    BY <1>3, <2>4 DEF vars
  <2> QED BY <1>4, <2>1, <2>2, <2>3, <2>4 DEF Next
<1>5. Inv /\ [Next]_vars => TrunkMovesReviewed
  BY <1>4
<1> QED BY <1>5, Invariance, PTL DEF Spec, TrunkIsReviewed

=============================================================================
