------------------------ MODULE AuthorityStoreProofs ------------------------
(***************************************************************************)
(* For any number of calls: the transactions exclude one another, lose no  *)
(* update, keep what they acknowledged, and implement AtomicAuthority.     *)
(***************************************************************************)
EXTENDS AuthorityStore, TLAPS

\* What the closure works on, from the load to the rename.
Loaded == {"loaded", "decided", "staged"}

\* No call but a write gets past the closure, Bootstrap only from an absent
\* file and any other call only from an existing one.
LoadedRightly ==
    \A c \in Calls : /\ pc[c] \in Loaded => (c \in Creators <=> file = Absent)
                     /\ pc[c] \in {"decided", "staged", "renamed"} => c \notin Readers

\* A call is unanswered until its deferred functions run.
AnsweredLast ==
    \A c \in Calls : pc[c] \in Running \ {"unlocking"} => result[c] = "none"

\* The aggregate on disk is the visible one or an earlier one.
DiskLags == disk \subseteq file

\* The aggregate descends from one Bootstrap.
OneOwner == \A b, c \in Creators : b \in file /\ c \in file => b = c

\* A write between rename and answer is in the visible aggregate.
RenamedIsVisible == \A c \in Calls : pc[c] = "renamed" => c \in file

\* The inductive invariant.
IInv == /\ TypeOK /\ MutualExclusion /\ NoStaleDecision /\ LoadedRightly
        /\ AnsweredLast /\ DiskLags /\ OneOwner /\ RenamedIsVisible
        /\ AcknowledgedIsDurable

-----------------------------------------------------------------------------

\* The initial state satisfies the invariant.
LEMMA InitInv == Init => IInv
  <1> SUFFICES ASSUME Init PROVE IInv
    OBVIOUS
  <1>1. TypeOK
    BY Bounds DEF Init, TypeOK, Aggregates, Absent, Running
  <1>2. MutualExclusion /\ NoStaleDecision /\ LoadedRightly /\ RenamedIsVisible
    BY DEF Init, MutualExclusion, NoStaleDecision, LoadedRightly, RenamedIsVisible,
       Critical, Loaded
  <1>3. AnsweredLast /\ DiskLags /\ OneOwner
    BY DEF Init, AnsweredLast, DiskLags, OneOwner, Absent
  <1>4. AcknowledgedIsDurable
    BY DEF Init, AcknowledgedIsDurable, Calls
  <1> QED BY <1>1, <1>2, <1>3, <1>4 DEF IInv

-----------------------------------------------------------------------------
(* Steps of one call, grouped by the part of the state they touch.          *)

\* A step of c that leaves the lock, both copies of the aggregate and what
\* was loaded alone, moves c forward without giving it more rights than it
\* has, and answers only a call that has finished.
Inert(c) ==
    /\ UNCHANGED <<lock, file, disk, mem>>
    /\ \E l \in Running \cup {"done", "crashed"} :
          /\ Goto(c, l)
          /\ l \in Critical => pc[c] \in Critical
          /\ l \in Loaded => pc[c] \in Loaded
          /\ l \in {"decided", "staged"} => c \notin Readers
          /\ l # "renamed"
          /\ l \in Running \ {"unlocking"} => result'[c] = "none"
    /\ \E r \in {"none", "ok", "denied", "storage"} :
          /\ result' = [result EXCEPT ![c] = r]
          /\ r = "ok" => r = result[c] \/ c \in Readers

\* An inert step preserves the invariant.
LEMMA InertInv ==
    ASSUME IInv, NEW c \in Calls, Inert(c), TypeOK'
    PROVE  IInv'
  <1> USE DEF IInv
  <1>1. PICK l \in Running \cup {"done", "crashed"} :
          /\ Goto(c, l)
          /\ l \in Critical => pc[c] \in Critical
          /\ l \in Loaded => pc[c] \in Loaded
          /\ l \in {"decided", "staged"} => c \notin Readers
          /\ l # "renamed"
          /\ l \in Running \ {"unlocking"} => result'[c] = "none"
    BY DEF Inert
  <1>2. PICK r \in {"none", "ok", "denied", "storage"} :
          /\ result' = [result EXCEPT ![c] = r]
          /\ r = "ok" => r = result[c] \/ c \in Readers
    BY DEF Inert
  <1>3. UNCHANGED <<lock, file, disk, mem>>
    BY DEF Inert
  <1>4. \A d \in Calls : d # c => pc'[d] = pc[d] /\ result'[d] = result[d]
    BY <1>1, <1>2 DEF Goto, TypeOK
  <1>5. pc'[c] = l /\ result'[c] = r
    BY <1>1, <1>2 DEF Goto, TypeOK
  <1>6. MutualExclusion'
    BY <1>1, <1>3, <1>4, <1>5 DEF MutualExclusion
  <1>7. NoStaleDecision'
    BY <1>1, <1>3, <1>4, <1>5 DEF NoStaleDecision, Loaded
  <1>8. LoadedRightly' /\ RenamedIsVisible'
    BY <1>1, <1>3, <1>4, <1>5 DEF LoadedRightly, RenamedIsVisible, Loaded
  <1>9. AnsweredLast'
    BY <1>1, <1>4, <1>5 DEF AnsweredLast
  <1>10. DiskLags' /\ OneOwner'
    BY <1>3 DEF DiskLags, OneOwner
  <1>11. AcknowledgedIsDurable'
    BY <1>2, <1>3, <1>4, <1>5, CallKinds DEF AcknowledgedIsDurable, Calls
  <1> QED BY <1>6, <1>7, <1>8, <1>9, <1>10, <1>11

\* Every step preserves the types.
LEMMA TypeInv ==
    ASSUME IInv, [Next]_vars
    PROVE  TypeOK'
  <1> USE DEF IInv, TypeOK
  <1>1. CASE PowerLoss
    BY <1>1 DEF PowerLoss, Running
  <1>2. CASE OwnerClearsLock
    BY <1>2 DEF OwnerClearsLock
  <1>3. ASSUME NEW c \in Calls, Begin(c) \/ LockError(c) \/ SystemError(c) \/ Crash(c)
        PROVE  TypeOK'
    BY <1>3 DEF Begin, LockError, SystemError, Crash, Return, Goto, Running
  <1>4. ASSUME NEW c \in Calls, Acquire(c) \/ Timeout(c) \/ Load(c) \/ LoadFails(c)
                                \/ Decide(c) \/ Deny(c)
        PROVE  TypeOK'
    BY <1>4 DEF Acquire, Timeout, Load, LoadFails, Decide, Deny, Return, Goto, Running
  <1>5. ASSUME NEW c \in Calls, Retry(c)
        PROVE  TypeOK'
    BY <1>5, Bounds DEF Retry
  <1>6. ASSUME NEW c \in Calls, Stage(c) \/ TooLarge(c) \/ Rename(c) \/ SyncDir(c) \/ Unlock(c)
        PROVE  TypeOK'
    BY <1>6 DEF Stage, TooLarge, Rename, SyncDir, Unlock, Return, Goto, Running, Aggregates
  <1>7. CASE UNCHANGED vars
    BY <1>7 DEF vars
  <1> QED BY <1>1, <1>2, <1>3, <1>4, <1>5, <1>6, <1>7 DEF Next, Step

\* Every step preserves the invariant.
LEMMA StepInv ==
    ASSUME IInv, [Next]_vars
    PROVE  IInv'
  <1>0. TypeOK' /\ TypeOK
    BY TypeInv DEF IInv
  <1>1. ASSUME NEW c \in Calls,
               Begin(c) \/ Retry(c) \/ Timeout(c) \/ LockError(c) \/ LoadFails(c) \/ Decide(c)
               \/ Deny(c) \/ Stage(c) \/ TooLarge(c) \/ SystemError(c) \/ Crash(c)
        PROVE  IInv'
    <2>1. pc[c] \in Running \ {"unlocking"} => result[c] = "none"
      BY DEF IInv, AnsweredLast
    <2>2. pc[c] \in {"decided", "staged", "renamed"} => c \notin Readers
      BY DEF IInv, LoadedRightly
    <2> USE <1>0 DEF TypeOK, Goto, Return, Inert, Loaded, Running, Critical
    <2>3. CASE Begin(c) \/ Retry(c) \/ Timeout(c) \/ LockError(c)
      <3> Inert(c)
        BY <2>1, <2>3 DEF Begin, Retry, Timeout, LockError
      <3> QED BY InertInv, <1>0
    <2>4. CASE LoadFails(c) \/ Decide(c) \/ Deny(c)
      <3> Inert(c)
        BY <2>1, <2>4 DEF LoadFails, Decide, Deny
      <3> QED BY InertInv, <1>0
    <2>5. CASE Stage(c) \/ TooLarge(c) \/ SystemError(c) \/ Crash(c)
      <3> Inert(c)
        BY <2>1, <2>2, <2>5 DEF Stage, TooLarge, SystemError, Crash
      <3> QED BY InertInv, <1>0
    <2> QED BY <1>1, <2>3, <2>4, <2>5
  <1>2. ASSUME NEW c \in Calls, Acquire(c)
        PROVE  IInv'
    <2>1. \A d \in Calls : pc[d] \notin Critical
      BY <1>2, Distinct DEF Acquire, IInv, MutualExclusion
    <2>2. /\ pc' = [pc EXCEPT ![c] = "locked"] /\ lock' = c
          /\ pc[c] = "waiting" /\ UNCHANGED <<file, disk, mem, result>>
      BY <1>2 DEF Acquire, Goto
    <2>3. MutualExclusion' /\ NoStaleDecision' /\ LoadedRightly' /\ RenamedIsVisible'
      BY <1>0, <2>1, <2>2 DEF TypeOK, MutualExclusion, NoStaleDecision, LoadedRightly,
         RenamedIsVisible, Critical, Loaded
    <2>4. AnsweredLast' /\ DiskLags' /\ OneOwner' /\ AcknowledgedIsDurable'
      BY <1>0, <2>2 DEF TypeOK, IInv, AnsweredLast, DiskLags, OneOwner,
         AcknowledgedIsDurable, Running
    <2> QED BY <1>0, <2>3, <2>4 DEF IInv
  <1>3. ASSUME NEW c \in Calls, Load(c)
        PROVE  IInv'
    <2>1. /\ pc' = [pc EXCEPT ![c] = "loaded"] /\ pc[c] = "locked"
          /\ mem' = [mem EXCEPT ![c] = file] /\ (c \in Creators <=> file = Absent)
          /\ UNCHANGED <<lock, file, disk, result>>
      BY <1>3 DEF Load, Goto
    <2>2. MutualExclusion' /\ NoStaleDecision' /\ LoadedRightly' /\ RenamedIsVisible'
      BY <1>0, <2>1 DEF IInv, TypeOK, MutualExclusion, NoStaleDecision, LoadedRightly,
         RenamedIsVisible, Critical, Loaded
    <2>3. AnsweredLast' /\ DiskLags' /\ OneOwner' /\ AcknowledgedIsDurable'
      BY <1>0, <2>1 DEF TypeOK, IInv, AnsweredLast, DiskLags, OneOwner,
         AcknowledgedIsDurable, Running
    <2> QED BY <1>0, <2>2, <2>3 DEF IInv
  <1>4. ASSUME NEW c \in Calls, Rename(c)
        PROVE  IInv'
    <2>1. /\ pc' = [pc EXCEPT ![c] = "renamed"] /\ pc[c] = "staged"
          /\ file' = mem[c] \cup {c} /\ UNCHANGED <<lock, disk, mem, result>>
      BY <1>4 DEF Rename, Goto
    <2>2. file' = file \cup {c} /\ (c \in Creators <=> file = Absent) /\ c \notin Readers
      BY <2>1 DEF IInv, NoStaleDecision, LoadedRightly, Loaded
    <2>3. \A d \in Calls : d # c => pc[d] \notin Critical
      BY <2>1, Distinct DEF IInv, MutualExclusion, Critical
    <2>4. MutualExclusion' /\ NoStaleDecision' /\ LoadedRightly' /\ RenamedIsVisible'
      BY <1>0, <2>1, <2>2, <2>3 DEF IInv, TypeOK, MutualExclusion, NoStaleDecision,
         LoadedRightly, RenamedIsVisible, Critical, Loaded
    <2>5. AnsweredLast' /\ DiskLags' /\ AcknowledgedIsDurable'
      BY <1>0, <2>1, <2>2 DEF TypeOK, IInv, AnsweredLast, DiskLags,
         AcknowledgedIsDurable, Running
    <2>6. OneOwner'
      BY <2>2 DEF IInv, OneOwner, Absent
    <2> QED BY <1>0, <2>4, <2>5, <2>6 DEF IInv
  <1>5. ASSUME NEW c \in Calls, SyncDir(c)
        PROVE  IInv'
    <2>1. /\ pc' = [pc EXCEPT ![c] = "unlocking"] /\ pc[c] = "renamed"
          /\ result' = [result EXCEPT ![c] = "ok"]
          /\ disk' = file /\ UNCHANGED <<lock, file, mem>>
      BY <1>5 DEF SyncDir, Return, Goto
    <2>2. c \in file
      BY <2>1 DEF IInv, RenamedIsVisible
    <2>3. MutualExclusion' /\ NoStaleDecision' /\ LoadedRightly' /\ RenamedIsVisible'
      BY <1>0, <2>1 DEF IInv, TypeOK, MutualExclusion, NoStaleDecision, LoadedRightly,
         RenamedIsVisible, Critical, Loaded
    <2>4. AnsweredLast' /\ DiskLags' /\ OneOwner'
      BY <1>0, <2>1 DEF TypeOK, IInv, AnsweredLast, DiskLags, OneOwner, Running
    <2>5. AcknowledgedIsDurable'
      BY <1>0, <2>1, <2>2 DEF TypeOK, IInv, AcknowledgedIsDurable, Calls
    <2> QED BY <1>0, <2>3, <2>4, <2>5 DEF IInv
  <1>6. ASSUME NEW c \in Calls, Unlock(c)
        PROVE  IInv'
    <2>1. /\ pc' = [pc EXCEPT ![c] = "done"] /\ pc[c] = "unlocking"
          /\ UNCHANGED <<file, disk, mem, result>>
      BY <1>6 DEF Unlock, Goto
    <2>2. \A d \in Calls : d # c => pc[d] \notin Critical
      BY <2>1, Distinct DEF IInv, MutualExclusion, Critical
    <2>3. MutualExclusion' /\ NoStaleDecision' /\ LoadedRightly' /\ RenamedIsVisible'
      BY <1>0, <2>1, <2>2 DEF IInv, TypeOK, MutualExclusion, NoStaleDecision,
         LoadedRightly, RenamedIsVisible, Critical, Loaded
    <2>4. AnsweredLast' /\ DiskLags' /\ OneOwner' /\ AcknowledgedIsDurable'
      BY <1>0, <2>1 DEF TypeOK, IInv, AnsweredLast, DiskLags, OneOwner,
         AcknowledgedIsDurable, Running
    <2> QED BY <1>0, <2>3, <2>4 DEF IInv
  <1>7. CASE PowerLoss
    <2>1. \A d \in Calls : pc'[d] \in {"idle", "done", "crashed"}
                           /\ (pc'[d] = "idle" => pc[d] = "idle")
      BY <1>0, <1>7 DEF PowerLoss, TypeOK, Running
    <2>2. /\ UNCHANGED <<mem, result>> /\ disk' = file' /\ file' \in {file, disk}
      BY <1>7 DEF PowerLoss
    <2>3. MutualExclusion' /\ NoStaleDecision' /\ LoadedRightly' /\ RenamedIsVisible'
      BY <2>1 DEF MutualExclusion, NoStaleDecision, LoadedRightly, RenamedIsVisible,
         Critical, Loaded
    <2>4. AnsweredLast'
      BY <2>1, <2>2 DEF IInv, AnsweredLast, Running
    <2>5. DiskLags' /\ OneOwner' /\ AcknowledgedIsDurable'
      BY <2>2 DEF IInv, DiskLags, OneOwner, AcknowledgedIsDurable
    <2> QED BY <1>0, <2>3, <2>4, <2>5 DEF IInv
  <1>8. CASE OwnerClearsLock
    <2>1. \A d \in Calls : pc[d] \notin Critical
      BY <1>8 DEF OwnerClearsLock, IInv, MutualExclusion, Critical
    <2>2. UNCHANGED <<file, disk, pc, mem, result>>
      BY <1>8 DEF OwnerClearsLock
    <2>3. MutualExclusion'
      BY <2>1, <2>2 DEF MutualExclusion
    <2> QED BY <1>0, <2>2, <2>3 DEF IInv, NoStaleDecision, LoadedRightly, RenamedIsVisible,
            AnsweredLast, DiskLags, OneOwner, AcknowledgedIsDurable
  <1>9. CASE UNCHANGED vars
    BY <1>0, <1>9 DEF vars, IInv, MutualExclusion, NoStaleDecision, LoadedRightly,
       RenamedIsVisible, AnsweredLast, DiskLags, OneOwner, AcknowledgedIsDurable
  <1> QED BY <1>1, <1>2, <1>3, <1>4, <1>5, <1>6, <1>7, <1>8, <1>9 DEF Next, Step

\* The invariant holds in every reachable state.
THEOREM Invariance == Spec => []IInv
  <1>1. Init => IInv
    BY InitInv
  <1>2. IInv /\ [Next]_vars => IInv'
    BY StepInv
  <1> QED BY <1>1, <1>2, PTL DEF Spec

\* Every variable keeps its type, the bounded lock loop included.
THEOREM TypeCorrect == Spec => []TypeOK
  BY Invariance, PTL DEF IInv

\* transaction: what a closure decides on is what its rename replaces, so no
\* update is lost.
THEOREM FreshDecisions == Spec => []NoStaleDecision
  BY Invariance, PTL DEF IInv

\* persist: a temporary file outlives its call only when it was killed.
THEOREM TempsRemoved == Spec => []OnlyCrashesLeaveTemps
  <1>1. Init => OnlyCrashesLeaveTemps
    BY DEF Init, OnlyCrashesLeaveTemps
  <1>2. IInv /\ OnlyCrashesLeaveTemps /\ [Next]_vars => OnlyCrashesLeaveTemps'
    <2> SUFFICES ASSUME IInv, OnlyCrashesLeaveTemps, [Next]_vars
                 PROVE  OnlyCrashesLeaveTemps'
      OBVIOUS
    <2> USE DEF IInv, TypeOK, OnlyCrashesLeaveTemps, Goto, Return
    <2>1. CASE UNCHANGED vars
      BY <2>1 DEF vars
    <2>2. CASE PowerLoss \/ OwnerClearsLock
      BY <2>2 DEF PowerLoss, OwnerClearsLock, Running
    <2>3. ASSUME NEW c \in Calls, Begin(c) \/ Acquire(c) \/ Retry(c) \/ Timeout(c) \/ LockError(c)
          PROVE  OnlyCrashesLeaveTemps'
      BY <2>3 DEF Begin, Acquire, Retry, Timeout, LockError
    <2>4. ASSUME NEW c \in Calls, Load(c) \/ LoadFails(c) \/ Decide(c) \/ Deny(c) \/ TooLarge(c)
          PROVE  OnlyCrashesLeaveTemps'
      BY <2>4 DEF Load, LoadFails, Decide, Deny, TooLarge
    <2>5. ASSUME NEW c \in Calls, Stage(c) \/ Rename(c) \/ SystemError(c)
          PROVE  OnlyCrashesLeaveTemps'
      BY <2>5 DEF Stage, Rename, SystemError
    <2>6. ASSUME NEW c \in Calls, SyncDir(c) \/ Unlock(c) \/ Crash(c)
          PROVE  OnlyCrashesLeaveTemps'
      BY <2>6 DEF SyncDir, Unlock, Crash, Running
    <2> HIDE DEF IInv, TypeOK, OnlyCrashesLeaveTemps, Goto, Return
    <2> QED BY <2>1, <2>2, <2>3, <2>4, <2>5, <2>6 DEF Next, Step
  <1> QED BY <1>1, <1>2, Invariance, PTL DEF Spec

\* transaction: no two calls are ever between lock and unlock.
THEOREM Exclusion == Spec => []MutualExclusion
  BY Invariance, PTL DEF IInv

\* persist: an acknowledged write survives everything that may happen later.
THEOREM Durability == Spec => []AcknowledgedIsDurable
  BY Invariance, PTL DEF IInv

\* Bootstrap: at most one caller is ever given an owner token.
THEOREM OneBootstrap == Spec => []BootstrapOnce
  <1>1. IInv => BootstrapOnce
    BY DEF IInv, BootstrapOnce, OneOwner, AcknowledgedIsDurable
  <1> QED BY <1>1, Invariance, PTL

\* transaction: a lock file left behind is never taken over, and protects the
\* aggregate until the owner removes it.
THEOREM DeadLock == Spec => DeadLockFreezesAuthority
  <1>1. ASSUME IInv, [Next]_vars
        PROVE  [lock # NoLock /\ pc[lock] \in {"crashed", "done"}
                  => lock' \in {lock, NoLock} /\ file' \in {file, disk}]_vars
    <2> SUFFICES ASSUME lock # NoLock, pc[lock] \in {"crashed", "done"}, Next
                 PROVE  lock' \in {lock, NoLock} /\ file' \in {file, disk}
      BY <1>1
    <2>1. \A c \in Calls : pc[c] \notin Critical
      BY <1>1 DEF IInv, MutualExclusion, Critical
    <2>2. \A c \in Calls : ~ Acquire(c) /\ ~ Rename(c)
      BY <2>1 DEF Acquire, Rename, Critical
    <2>3. CASE PowerLoss \/ OwnerClearsLock
      BY <2>3 DEF PowerLoss, OwnerClearsLock
    <2>4. ASSUME NEW c \in Calls, Begin(c) \/ Step(c) \/ LockError(c) \/ SystemError(c) \/ Crash(c)
          PROVE  lock' \in {lock, NoLock} /\ file' \in {file, disk}
      BY <2>2, <2>4 DEF Begin, Step, Retry, Timeout, LockError, Load, LoadFails, Decide,
         Deny, Stage, TooLarge, SyncDir, SystemError, Unlock, Crash
    <2> QED BY <2>3, <2>4 DEF Next
  <1> QED BY <1>1, Invariance, PTL DEF Spec, DeadLockFreezesAuthority

-----------------------------------------------------------------------------
(* Refinement.                                                              *)

\* A step that answers nobody, moves no call into or out of the moment after
\* its rename, kills nobody and leaves the file alone is invisible.
LEMMA Invisible ==
    ASSUME IInv, IInv', UNCHANGED <<file, result>>,
           \A d \in Calls : /\ (pc'[d] = "crashed" /\ result[d] = "none") <=> (pc[d] = "crashed" /\ result[d] = "none")
                            /\ (pc'[d] = "renamed") <=> (pc[d] = "renamed"),
           \A d \in Readers : result[d] = "ok" => mem'[d] = mem[d]
    PROVE  UNCHANGED Atomic!avars
  <1>1. [d \in Calls |-> Status(d)'] = [d \in Calls |-> Status(d)]
    BY DEF Status
  <1>2. [c \in Readers |-> IF result'[c] = "ok" THEN mem'[c] ELSE Absent]
          = [c \in Readers |-> IF result[c] = "ok" THEN mem[c] ELSE Absent]
    OBVIOUS
  <1> QED BY <1>1, <1>2 DEF Atomic!avars

\* A step that answers call c, has no effect on the file and leaves the other
\* calls alone changes exactly the status of c.
LEMMA Visible ==
    ASSUME IInv, NEW c \in Calls, NEW r \in {"ok", "denied", "storage"}, NEW l,
           result' = [result EXCEPT ![c] = r], pc' = [pc EXCEPT ![c] = l],
           UNCHANGED <<file, mem>>, r = "ok" => c \notin Readers
    PROVE  /\ [d \in Calls |-> Status(d)'] = [[d \in Calls |-> Status(d)] EXCEPT ![c] = r]
           /\ result[c] # "ok" => [d \in Readers |-> IF result'[d] = "ok" THEN mem'[d] ELSE Absent]
                                = [d \in Readers |-> IF result[d] = "ok" THEN mem[d] ELSE Absent]
  <1>1. \A d \in Calls : d # c => result'[d] = result[d] /\ pc'[d] = pc[d]
    BY DEF IInv, TypeOK
  <1>2. result'[c] = r
    BY DEF IInv, TypeOK
  <1>3. \A d \in Calls : Status(d)' = IF d = c THEN r ELSE Status(d)
    BY <1>1, <1>2 DEF Status
  <1>4. \A d \in Readers : d \in Calls
    BY DEF Calls
  <1> QED BY <1>1, <1>2, <1>3, <1>4

\* Every step of the transactions is a step of the atomic aggregate or
\* invisible in it.
LEMMA StepRefines ==
    ASSUME IInv, IInv', [Next]_vars
    PROVE  [Atomic!ANext]_(Atomic!avars)
  <1> DEFINE st == [d \in Calls |-> Status(d)]
  <1> DEFINE sn == [d \in Readers |-> IF result[d] = "ok" THEN mem[d] ELSE Absent]
  <1>0. \A d \in Calls : /\ pc[d] \in Running \ {"unlocking"} => result[d] = "none"
                         /\ pc[d] \in {"decided", "staged", "renamed"} => d \notin Readers
    BY DEF IInv, AnsweredLast, LoadedRightly
  <1>t. TypeOK
    BY DEF IInv
  <1>c. Atomic!Calls = Calls
    BY DEF Atomic!Calls, Calls
  <1>1. ASSUME NEW c \in Calls, Begin(c) \/ Acquire(c) \/ Retry(c) \/ Load(c) \/ Stage(c) \/ Unlock(c)
        PROVE  UNCHANGED Atomic!avars
    <2>1. UNCHANGED <<file, result>>
      BY <1>1 DEF Begin, Acquire, Retry, Load, Stage, Unlock
    <2>2. \A d \in Calls : /\ (pc'[d] = "crashed") <=> (pc[d] = "crashed")
                           /\ (pc'[d] = "renamed") <=> (pc[d] = "renamed")
      BY <1>1, <1>t DEF Begin, Acquire, Retry, Load, Stage, Unlock, Goto, TypeOK
    <2>3. \A d \in Readers : result[d] = "ok" => mem'[d] = mem[d]
      BY <1>0, <1>1, <1>t DEF Begin, Acquire, Retry, Load, Stage, Unlock, TypeOK, Running, Calls
    <2> QED BY <2>1, <2>2, <2>3, Invisible
  <1>2. ASSUME NEW c \in Calls, Timeout(c) \/ LockError(c) \/ LoadFails(c) \/ Deny(c) \/ TooLarge(c)
        PROVE  Atomic!ANext
    <2>1. result[c] = "none" /\ Status(c) = "pending"
      BY <1>0, <1>2 DEF Timeout, LockError, LoadFails, Deny, TooLarge, Status, Running
    <2>2. UNCHANGED <<file, mem>>
      BY <1>2 DEF Timeout, LockError, LoadFails, Deny, TooLarge
    <2>3. PICK r \in {"denied", "storage"}, l \in {"done", "unlocking"} :
             result' = [result EXCEPT ![c] = r] /\ pc' = [pc EXCEPT ![c] = l]
      BY <1>2 DEF Timeout, LockError, LoadFails, Deny, TooLarge, Return, Goto
    <2>4. st' = [st EXCEPT ![c] = r] /\ UNCHANGED sn
      BY <2>1, <2>2, <2>3, Visible
    <2>5. Atomic!Refuse(c)
      BY <2>1, <2>2, <2>4 DEF Atomic!Refuse
    <2> QED BY <1>c, <2>5 DEF Atomic!ANext
  <1>3. ASSUME NEW c \in Calls, SystemError(c)
        PROVE  Atomic!ANext
    <2>1. result[c] = "none" /\ Status(c) \in {"pending", "applied"}
      BY <1>0, <1>3 DEF SystemError, Status, Running
    <2>2. /\ UNCHANGED <<file, mem>> /\ result' = [result EXCEPT ![c] = "storage"]
          /\ pc' = [pc EXCEPT ![c] = "unlocking"]
      BY <1>3 DEF SystemError, Return, Goto
    <2>3. st' = [st EXCEPT ![c] = "storage"] /\ UNCHANGED sn
      BY <2>1, <2>2, Visible
    <2>4. Atomic!Refuse(c) \/ Atomic!Answer(c)
      BY <2>1, <2>2, <2>3 DEF Atomic!Refuse, Atomic!Answer
    <2> QED BY <1>c, <2>4 DEF Atomic!ANext
  <1>4. ASSUME NEW c \in Calls, Decide(c)
        PROVE  Atomic!ANext \/ UNCHANGED Atomic!avars
    <2>1. CASE c \notin Readers
      <3>1. UNCHANGED <<file, mem, result>> /\ pc' = [pc EXCEPT ![c] = "decided"] /\ pc[c] = "loaded"
        BY <1>4, <2>1 DEF Decide, Goto
      <3>2. \A d \in Calls : /\ (pc'[d] = "crashed") <=> (pc[d] = "crashed")
                             /\ (pc'[d] = "renamed") <=> (pc[d] = "renamed")
        BY <3>1, <1>t DEF TypeOK
      <3> QED BY <3>1, <3>2, Invisible
    <2>2. CASE c \in Readers
      <3>1. /\ UNCHANGED <<file, mem>> /\ result' = [result EXCEPT ![c] = "ok"]
            /\ pc' = [pc EXCEPT ![c] = "unlocking"] /\ pc[c] = "loaded"
        BY <1>4, <2>2 DEF Decide, Return, Goto
      <3>2. result[c] = "none" /\ Status(c) = "pending"
        BY <1>0, <3>1 DEF Status, Running
      <3>3. mem[c] = file /\ file # Absent
        BY <2>2, <3>1, CallKinds DEF IInv, NoStaleDecision, LoadedRightly, Loaded
      <3>4. \A d \in Calls : d # c => result'[d] = result[d] /\ pc'[d] = pc[d]
        BY <3>1, <1>t DEF TypeOK
      <3>5. result'[c] = "ok"
        BY <3>1, <1>t DEF TypeOK
      <3>6. st' = [st EXCEPT ![c] = "ok"]
        BY <3>4, <3>5 DEF Status
      <3>7. sn' = [sn EXCEPT ![c] = file]
        BY <2>2, <3>1, <3>3, <3>4, <3>5 DEF Calls
      <3>8. Atomic!Read(c)
        BY <2>2, <3>1, <3>2, <3>3, <3>6, <3>7 DEF Atomic!Read, Atomic!Absent, Absent
      <3> QED BY <1>c, <3>8 DEF Atomic!ANext
    <2> QED BY <2>1, <2>2
  <1>5. ASSUME NEW c \in Calls, Rename(c)
        PROVE  Atomic!ANext
    <2>1. /\ pc' = [pc EXCEPT ![c] = "renamed"] /\ pc[c] = "staged"
          /\ file' = mem[c] \cup {c} /\ UNCHANGED <<mem, result>>
      BY <1>5 DEF Rename, Goto
    <2>2. file' = file \cup {c} /\ (c \in Creators <=> file = Absent) /\ c \notin Readers
      BY <2>1 DEF IInv, NoStaleDecision, LoadedRightly, Loaded
    <2>3. result[c] = "none" /\ Status(c) = "pending"
      BY <1>0, <2>1 DEF Status, Running
    <2>4. st' = [st EXCEPT ![c] = "applied"]
      BY <2>1, <2>3, <1>t DEF Status, TypeOK
    <2>5. UNCHANGED sn
      BY <2>1
    <2>6. Atomic!TakeEffect(c)
      BY <2>2, <2>3, <2>4, <2>5 DEF Atomic!TakeEffect, Atomic!Absent, Absent
    <2> QED BY <1>c, <2>6 DEF Atomic!ANext
  <1>6. ASSUME NEW c \in Calls, SyncDir(c)
        PROVE  Atomic!ANext
    <2>1. /\ UNCHANGED <<file, mem>> /\ result' = [result EXCEPT ![c] = "ok"]
          /\ pc' = [pc EXCEPT ![c] = "unlocking"] /\ pc[c] = "renamed"
      BY <1>6 DEF SyncDir, Return, Goto
    <2>2. result[c] = "none" /\ Status(c) = "applied" /\ c \notin Readers
      BY <1>0, <2>1 DEF Status, Running
    <2>3. st' = [st EXCEPT ![c] = "ok"] /\ UNCHANGED sn
      BY <2>1, <2>2, Visible
    <2>4. Atomic!Answer(c)
      BY <2>1, <2>2, <2>3 DEF Atomic!Answer
    <2> QED BY <1>c, <2>4 DEF Atomic!ANext
  <1>7. ASSUME NEW c \in Calls, Crash(c)
        PROVE  Atomic!ANext \/ UNCHANGED Atomic!avars
    <2>1. /\ UNCHANGED <<file, mem, result>> /\ pc' = [pc EXCEPT ![c] = "crashed"]
          /\ pc[c] \in Running
      BY <1>7 DEF Crash, Goto
    <2>2. CASE result[c] = "none"
      <3>1. Status(c) \in {"pending", "applied"}
        BY <2>1, <2>2 DEF Status, Running
      <3>2. st' = [st EXCEPT ![c] = "crashed"] /\ UNCHANGED sn
        BY <2>1, <2>2, <1>t DEF Status, TypeOK
      <3>3. Atomic!Die(c)
        BY <2>1, <3>1, <3>2 DEF Atomic!Die
      <3> QED BY <1>c, <3>3 DEF Atomic!ANext
    <2>3. CASE result[c] # "none"
      <3>1. pc[c] = "unlocking"
        BY <1>0, <2>1, <2>3
      <3>2. UNCHANGED st /\ UNCHANGED sn
        BY <2>1, <2>3, <3>1, <1>t DEF Status, TypeOK
      <3> QED BY <2>1, <3>2 DEF Atomic!avars
    <2> QED BY <2>2, <2>3
  <1>8. CASE PowerLoss
    <2> DEFINE D == {d \in Calls : pc[d] \in Running \ {"idle"} /\ result[d] = "none"}
    <2>1. UNCHANGED <<mem, result>> /\ file' \in {file, disk}
      BY <1>8 DEF PowerLoss
    <2>2. \A d \in Calls : pc'[d] = IF pc[d] \in Running \ {"idle"} THEN "crashed" ELSE pc[d]
      BY <1>8 DEF PowerLoss
    <2>3. \A d \in D : st[d] \in {"pending", "applied"}
      BY DEF Status, Running
    <2>4. \A d \in Calls : Status(d)' = IF d \in D THEN "crashed" ELSE Status(d)
      BY <2>1, <2>2 DEF Status, Running
    <2>5. st' = [d \in Calls |-> IF d \in D THEN "crashed" ELSE st[d]]
      BY <2>4
    <2>6. Atomic!Acknowledged \subseteq file' /\ file' \subseteq file
      BY <2>1 DEF Atomic!Acknowledged, Status, IInv, AcknowledgedIsDurable, DiskLags, Calls
    <2>7. UNCHANGED sn
      BY <2>1
    <2>8. D \in SUBSET {d \in Calls : st[d] \in {"pending", "applied"}}
      BY <2>3
    <2>9. Atomic!PowerLoss
      BY <1>c, <2>5, <2>6, <2>7, <2>8 DEF Atomic!PowerLoss
    <2> QED BY <2>9 DEF Atomic!ANext
  <1>9. CASE OwnerClearsLock \/ UNCHANGED vars
    BY <1>9, Invisible DEF OwnerClearsLock, vars
  <1> QED BY <1>1, <1>2, <1>3, <1>4, <1>5, <1>6, <1>7, <1>8, <1>9 DEF Next, Step

\* The lock, temporary and aggregate files together implement atomic calls on
\* one aggregate, for any number of concurrent and crashing calls.
THEOREM Refinement == Spec => ImplementsAtomic
  <1>1. Init => Atomic!AInit
    BY DEF Init, Atomic!AInit, Status, Atomic!Calls, Calls, Atomic!Absent, Absent
  <1>2. IInv /\ IInv' /\ [Next]_vars => [Atomic!ANext]_(Atomic!avars)
    BY StepRefines
  <1> QED BY <1>1, <1>2, Invariance, PTL DEF Spec, Atomic!ASpec, ImplementsAtomic

=============================================================================
