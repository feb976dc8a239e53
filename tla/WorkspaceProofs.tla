-------------------------- MODULE WorkspaceProofs --------------------------
(***************************************************************************)
(* What the shared files of a workspace keep, for any number of processes, *)
(* hosts, acquisitions, tasks and events: the workspace lock excludes as   *)
(* long as no process dies with the guard of the stealers, no number is    *)
(* given to two tasks, and the log of a task is what was done to it.       *)
(***************************************************************************)
EXTENDS EventLog, FiniteSetTheorems, WellFoundedInduction, TLAPS

CONSTANTS
    Contenders,     \* the processes that contend for the workspace lock
    Host, MaxTokens, StealersDie,
    Creators,       \* the processes that create and remove tasks
    MaxSeq

VARIABLES path, guard, victim, written, age, dead, pc, tokenOf, judged,
          disk, git, tomb, cache, outdated, sequence, creation, issued

\* The lock file and the numbering of the tasks, beside the tasks themselves.
L == INSTANCE FileLock WITH Procs <- Contenders
N == INSTANCE TaskSequence WITH Procs <- Creators, lock <- sequence, run <- creation

\* Two processes never hold the lock at once, and the holder's file is where it
\* was created, through deaths, steals and clocks of other hosts.
MutualExclusion == L!MutualExclusion /\ L!HolderIsAtPath

\* No number is given to two tasks, and none that was given is forgotten.
NumberedOnce == N!NumberedOnce

\* An event that is marked applied has its one line in the log of its task, a
\* task among the done ones has its boxes checked and a completion on record,
\* and what a journal plan has archived is finished work.
LogIsTrue == AppliedIsLogged /\ LoggedOnce /\ DoneIsVerified /\ ArchivedIsFinished

-----------------------------------------------------------------------------
(* The workspace lock.                                                     *)

\* Every process acts under a token of its own, and the token of a running
\* process is alive.
TokensAreOwn == \A p \in Contenders : /\ tokenOf[p].by = p
                                      /\ pc[p] # "idle" => tokenOf[p] \in L!Tokens \ dead

\* Only tokens that were given out can be dead.
DeadWereGiven == \A t \in dead : t.n <= tokenOf[t.by].n

\* A file that any waiter may break by its age alone belongs to a dead process,
\* or to one whose fate every other process can look up.
OldIsDead == \A t \in L!Tokens : age[t] = L!Stale => t \in dead \/ (t \in written /\ L!Alone(t))

\* The guard is there exactly while one process judges, and never grows old.
GuardIsHeld ==
    /\ guard # None => guard.by \in Contenders /\ pc[guard.by] \in L!Guarding /\ ~guard.old
    /\ \A p \in Contenders : /\ pc[p] \in L!Guarding => guard # None /\ guard.by = p
                             /\ pc[p] # "clear"

\* What a holder has stamped it renames aside, and nothing else.
StampIsKept == \A p \in Contenders :
    /\ pc[p] = "critical" => tokenOf[p] \in written
    /\ pc[p] = "released" => victim[p] = tokenOf[p] /\ tokenOf[p] \in written

\* What is about to be renamed away by a stealer was left by a dead process.
JudgedIsDead == \A p \in Contenders : pc[p] = "rename" => path \in dead

LockInv ==
    /\ L!TypeOK /\ TokensAreOwn /\ DeadWereGiven /\ OldIsDead
    /\ GuardIsHeld /\ L!HolderIsAtPath /\ StampIsKept /\ JudgedIsDead

Acquiring(p) == L!Acquire(p) \/ L!Create(p) \/ L!Stamp(p) \/ L!StampFails(p) \/ L!Sleep(p) \/ L!GiveUp(p)

-----------------------------------------------------------------------------

\* A waiter breaks only the file of a dead owner: its own host knows the
\* process is gone, or the file is older than any live one gets.
LEMMA BreakableIsDead ==
  ASSUME LockInv, NEW p \in Contenders, NEW t \in L!Tokens, L!Breakable(p, t)
  PROVE  t \in dead
<1>1. age[t] = L!Stale => t \in dead \/ (t \in written /\ Host[p] = Host[t.by])
  BY DEF LockInv, OldIsDead, L!Alone
<1>2. QED
  BY <1>1 DEF L!Breakable, L!StaleFor

\* Who is past the creation of the file excludes everybody else from there,
\* because the path carries one token only.
LEMMA OneHolder ==
  ASSUME LockInv, NEW p \in Contenders, NEW q \in Contenders,
         pc[p] \in {"stamp", "critical"}, pc[q] \in {"stamp", "critical"}
  PROVE  p = q
  BY DEF LockInv, L!HolderIsAtPath, TokensAreOwn

\* The holder of the lock is alive, so nobody is about to take its file away.
LEMMA HolderIsSafe ==
  ASSUME LockInv, NEW p \in Contenders, NEW q \in Contenders,
         pc[p] \in {"stamp", "critical"}, pc[q] = "rename"
  PROVE  FALSE
  BY DEF LockInv, L!HolderIsAtPath, TokensAreOwn, JudgedIsDead

LEMMA OneStealerHolds == LockInv => L!OneStealer
  BY DEF LockInv, GuardIsHeld, L!OneStealer

LEMMA LockInit == ASSUME L!Bounds PROVE L!Init => LockInv
  BY DEF L!Bounds, L!Init, LockInv, L!TypeOK, TokensAreOwn, DeadWereGiven, OldIsDead, GuardIsHeld,
         L!HolderIsAtPath,
         StampIsKept, JudgedIsDead, L!Tokens, L!Guards, L!Fresh, L!Stale, L!Guarding

\* A process on its way to the lock.
LEMMA AcquiringStep ==
  ASSUME L!Bounds, LockInv, NEW p \in Contenders, Acquiring(p)
  PROVE  LockInv'
<1> USE DEF L!Go
<1>1. CASE L!Acquire(p)
  <2>1. L!TypeOK' /\ TokensAreOwn' /\ DeadWereGiven'
    BY <1>1 DEF L!Bounds, L!Acquire, LockInv, L!TypeOK, TokensAreOwn, DeadWereGiven, L!Tokens, L!files
  <2>2. GuardIsHeld' /\ L!HolderIsAtPath' /\ StampIsKept' /\ JudgedIsDead' /\ OldIsDead'
    BY <1>1 DEF L!Acquire, LockInv, L!TypeOK, GuardIsHeld, L!HolderIsAtPath, StampIsKept, JudgedIsDead,
                OldIsDead, L!Guarding, L!files, L!Alone
  <2> QED  BY <2>1, <2>2 DEF LockInv
<1>2. CASE L!Create(p)
  <2>1. L!TypeOK' /\ TokensAreOwn' /\ DeadWereGiven' /\ OldIsDead'
    BY <1>2 DEF L!Create, LockInv, L!TypeOK, TokensAreOwn, DeadWereGiven, OldIsDead, L!Alone
  <2>2. GuardIsHeld' /\ StampIsKept'
    BY <1>2 DEF L!Create, LockInv, L!TypeOK, GuardIsHeld, StampIsKept, L!Guarding
  <2>3. L!HolderIsAtPath' /\ JudgedIsDead'
    BY <1>2 DEF L!Bounds, L!Create, LockInv, L!TypeOK, L!HolderIsAtPath, TokensAreOwn, JudgedIsDead
  <2> QED  BY <2>1, <2>2, <2>3 DEF LockInv
<1>3. CASE L!Stamp(p)
  BY <1>3 DEF L!Stamp, LockInv, L!TypeOK, TokensAreOwn, DeadWereGiven, OldIsDead, GuardIsHeld,
              L!HolderIsAtPath, StampIsKept,
              JudgedIsDead, L!Guarding, L!Alone
<1>4. CASE L!StampFails(p)
  <2>1. L!TypeOK' /\ TokensAreOwn' /\ DeadWereGiven' /\ OldIsDead' /\ GuardIsHeld' /\ StampIsKept'
    BY <1>4 DEF L!StampFails, LockInv, L!TypeOK, TokensAreOwn, DeadWereGiven, OldIsDead, GuardIsHeld,
                StampIsKept, L!Guarding, L!Alone
  <2>2. L!HolderIsAtPath'
    BY <1>4, OneHolder DEF L!StampFails, LockInv, L!TypeOK, L!HolderIsAtPath
  <2>3. JudgedIsDead'
    BY <1>4, HolderIsSafe DEF L!StampFails, LockInv, L!TypeOK, JudgedIsDead
  <2> QED  BY <2>1, <2>2, <2>3 DEF LockInv
<1>5. CASE L!Sleep(p) \/ L!GiveUp(p)
  BY <1>5 DEF L!Sleep, L!GiveUp, L!files, LockInv, L!TypeOK, TokensAreOwn, DeadWereGiven, OldIsDead,
              GuardIsHeld, L!HolderIsAtPath,
              StampIsKept, JudgedIsDead, L!Guarding, L!Alone
<1> QED  BY <1>1, <1>2, <1>3, <1>4, <1>5 DEF Acquiring

\* The owner renames its file aside and finds its own stamp in it.
LEMMA ReleaseStep ==
  ASSUME L!Bounds, LockInv, NEW p \in Contenders, L!Release(p) \/ L!Released(p)
  PROVE  LockInv'
<1> USE DEF L!Go
<1>1. CASE L!Release(p)
  <2>1. path = tokenOf[p] /\ path \in L!Tokens /\ path # None
    BY <1>1 DEF L!Bounds, L!Release, LockInv, L!HolderIsAtPath, TokensAreOwn
  <2>2. L!TypeOK' /\ TokensAreOwn' /\ DeadWereGiven' /\ OldIsDead' /\ GuardIsHeld' /\ StampIsKept'
    BY <1>1, <2>1 DEF L!Release, L!MoveAside, LockInv, L!TypeOK, TokensAreOwn, DeadWereGiven, OldIsDead,
                      GuardIsHeld, StampIsKept, L!Guarding, L!Alone
  <2>3. L!HolderIsAtPath'
    BY <1>1, <2>1, OneHolder DEF L!Release, L!MoveAside, LockInv, L!TypeOK, L!HolderIsAtPath
  <2>4. JudgedIsDead'
    BY <1>1, HolderIsSafe DEF L!Release, LockInv, L!TypeOK, JudgedIsDead
  <2> QED  BY <2>2, <2>3, <2>4 DEF LockInv
<1>2. CASE L!Released(p)
  <2>1. UNCHANGED path
    BY <1>2 DEF L!Released, L!Settle, L!Record, LockInv, StampIsKept
  <2>2. QED
    BY <1>2, <2>1 DEF L!Released, LockInv, L!TypeOK, TokensAreOwn, DeadWereGiven, OldIsDead, GuardIsHeld,
                      L!HolderIsAtPath,
              StampIsKept, JudgedIsDead, L!Guarding, L!Alone
<1> QED  BY <1>1, <1>2

LEMMA NewGuard == ASSUME NEW p \in Contenders PROVE [by |-> p, old |-> FALSE] \in L!Guards
  BY DEF L!Guards

\* A waiter that judges, takes the guard and breaks the lock.
LEMMA StealStep ==
  ASSUME L!Bounds, LockInv, NEW p \in Contenders, L!Steal(p)
  PROVE  LockInv'
<1> USE DEF L!Go
<1>1. ASSUME L!Judge(p) \/ L!TakeGuard(p) \/ L!Unguard(p) PROVE LockInv'
  <2>1. L!TypeOK'
    <3>1. CASE L!Judge(p)
      BY <3>1 DEF L!Judge, L!files, LockInv, L!TypeOK
    <3>2. CASE L!TakeGuard(p)
      <4>1. guard' \in L!Guards \cup {None}
        BY <3>2, NewGuard DEF L!TakeGuard, LockInv, L!TypeOK
      <4>2. PICK to \in {"rejudge", "clear", "wait"} : pc' = [pc EXCEPT ![p] = to]
        BY <3>2 DEF L!TakeGuard
      <4> QED  BY <3>2, <4>1, <4>2 DEF L!TakeGuard, LockInv, L!TypeOK, L!Guarding
    <3>3. CASE L!Unguard(p)
      BY <3>3 DEF L!Unguard, LockInv, L!TypeOK
    <3> QED  BY <1>1, <3>1, <3>2, <3>3
  <2>2. TokensAreOwn' /\ DeadWereGiven' /\ OldIsDead'
    BY <1>1 DEF L!Judge, L!TakeGuard, L!Unguard, L!files, LockInv, L!TypeOK, TokensAreOwn, DeadWereGiven,
                OldIsDead, L!Guarding, L!Alone
  <2>3. GuardIsHeld'
    <3>1. CASE L!Judge(p)
      BY <3>1 DEF L!Judge, L!files, LockInv, L!TypeOK, GuardIsHeld, L!Guarding
    <3>2. CASE L!TakeGuard(p) /\ guard = None
      <4>1. guard' = [by |-> p, old |-> FALSE] /\ pc' = [pc EXCEPT ![p] = "rejudge"]
        BY <3>2 DEF L!TakeGuard
      <4>2. guard' \in L!Guards /\ guard' # None
        BY <4>1, NewGuard DEF L!Bounds
      <4> QED  BY <4>1, <4>2, <3>2 DEF LockInv, L!TypeOK, GuardIsHeld, L!Guarding
    <3>3. CASE L!TakeGuard(p) /\ guard # None
      BY <3>3 DEF L!TakeGuard, LockInv, L!TypeOK, GuardIsHeld, L!Guarding
    <3>4. CASE L!Unguard(p)
      BY <3>4 DEF L!Unguard, LockInv, L!TypeOK, GuardIsHeld, L!Guarding
    <3> QED  BY <1>1, <3>1, <3>2, <3>3, <3>4
  <2>4. L!HolderIsAtPath' /\ StampIsKept' /\ JudgedIsDead'
    BY <1>1 DEF L!Judge, L!TakeGuard, L!Unguard, L!files, LockInv, L!TypeOK, L!HolderIsAtPath, StampIsKept,
                JudgedIsDead
  <2> QED  BY <2>1, <2>2, <2>3, <2>4 DEF LockInv
<1>2. CASE L!ClearGuard(p)
  BY <1>2 DEF L!ClearGuard, LockInv, GuardIsHeld
<1>3. CASE L!Rejudge(p)
  <2>1. L!TypeOK'
    <3>1. path # None => L!Record(path) \in [token : L!Tokens \cup {None}, parsed : BOOLEAN]
      BY DEF L!Record, L!Nothing, LockInv, L!TypeOK
    <3>2. judged' \in [Contenders -> [token : L!Tokens \cup {None}, parsed : BOOLEAN] \cup {None}]
      BY <1>3, <3>1 DEF L!Rejudge, LockInv, L!TypeOK
    <3> QED  BY <1>3, <3>2 DEF L!Rejudge, L!files, LockInv, L!TypeOK, L!Guarding
  <2>2. TokensAreOwn' /\ DeadWereGiven' /\ OldIsDead' /\ GuardIsHeld' /\ L!HolderIsAtPath' /\ StampIsKept'
    BY <1>3 DEF L!Rejudge, L!files, LockInv, L!TypeOK, TokensAreOwn, DeadWereGiven, OldIsDead, GuardIsHeld,
                L!HolderIsAtPath,
                StampIsKept, L!Guarding, L!Alone
  <2>3. JudgedIsDead'
    BY <1>3, BreakableIsDead DEF L!Rejudge, L!files, LockInv, L!TypeOK, JudgedIsDead
  <2> QED  BY <2>1, <2>2, <2>3 DEF LockInv
<1>4. CASE L!Rename(p)
  <2>1. L!TypeOK' /\ TokensAreOwn' /\ DeadWereGiven' /\ OldIsDead' /\ GuardIsHeld' /\ StampIsKept'
    BY <1>4 DEF L!Rename, L!MoveAside, LockInv, L!TypeOK, TokensAreOwn, DeadWereGiven, OldIsDead,
                GuardIsHeld, StampIsKept, L!Guarding, L!Alone
  <2>2. L!HolderIsAtPath'
    BY <1>4, HolderIsSafe DEF L!Rename, LockInv, L!TypeOK, L!HolderIsAtPath
  <2>3. JudgedIsDead'
    BY <1>4, OneStealerHolds DEF L!Rename, LockInv, L!TypeOK, JudgedIsDead, L!OneStealer, L!Guarding
  <2> QED  BY <2>1, <2>2, <2>3 DEF LockInv
<1>5. CASE L!Check(p)
  <2>1. L!TypeOK' /\ TokensAreOwn' /\ DeadWereGiven' /\ OldIsDead' /\ GuardIsHeld' /\ StampIsKept'
    BY <1>5 DEF L!Check, L!Settle, LockInv, L!TypeOK, TokensAreOwn, DeadWereGiven, OldIsDead, GuardIsHeld,
                StampIsKept, L!Guarding, L!Alone
  <2>2. L!HolderIsAtPath'
    BY <1>5 DEF L!Bounds, L!Check, L!Settle, LockInv, L!TypeOK, TokensAreOwn, L!HolderIsAtPath
  <2>3. JudgedIsDead'
    BY <1>5, OneStealerHolds DEF L!Check, LockInv, L!TypeOK, JudgedIsDead, L!OneStealer, L!Guarding
  <2> QED  BY <2>1, <2>2, <2>3 DEF LockInv
<1> QED  BY <1>1, <1>2, <1>3, <1>4, <1>5 DEF L!Steal

\* Clocks run: only what is left by the dead, or looked up by everybody, gets old.
LEMMA AgeStep ==
  ASSUME LockInv, NEW t \in L!Tokens, L!Age(t)
  PROVE  LockInv'
<1>1. L!TypeOK'
  BY DEF L!Age, LockInv, L!TypeOK, L!Fresh, L!Late, L!Stale
<1>2. OldIsDead'
  BY DEF L!Age, LockInv, L!TypeOK, OldIsDead, L!Alone, L!Fresh, L!Late, L!Stale
<1>3. TokensAreOwn' /\ DeadWereGiven' /\ GuardIsHeld' /\ L!HolderIsAtPath' /\ StampIsKept' /\ JudgedIsDead'
  BY DEF L!Age, LockInv, TokensAreOwn, DeadWereGiven, GuardIsHeld, L!HolderIsAtPath, StampIsKept, JudgedIsDead
<1> QED  BY <1>1, <1>2, <1>3 DEF LockInv

\* A process dies anywhere but inside the guard.
LEMMA DieStep ==
  ASSUME L!Bounds, LockInv, ~StealersDie, NEW p \in Contenders, L!Die(p)
  PROVE  LockInv'
<1> USE DEF L!Go
<1>1. L!TypeOK' /\ OldIsDead' /\ StampIsKept' /\ L!HolderIsAtPath' /\ JudgedIsDead'
  BY DEF L!Die, LockInv, L!TypeOK, OldIsDead, StampIsKept, L!HolderIsAtPath, JudgedIsDead, L!Alone
<1>2. TokensAreOwn' /\ DeadWereGiven'
  BY DEF L!Die, LockInv, L!TypeOK, TokensAreOwn, DeadWereGiven, L!Tokens
<1>3. GuardIsHeld'
  BY DEF L!Die, LockInv, L!TypeOK, GuardIsHeld, L!Guards, L!Guarding
<1> QED  BY <1>1, <1>2, <1>3 DEF LockInv

LEMMA LockStep == ASSUME L!Bounds, ~StealersDie PROVE LockInv /\ [L!Next]_(L!vars) => LockInv'
<1> SUFFICES ASSUME LockInv, [L!Next]_(L!vars) PROVE LockInv'
  OBVIOUS
<1>1. CASE UNCHANGED L!vars
  BY <1>1 DEF L!vars, L!files, LockInv, L!TypeOK, TokensAreOwn, DeadWereGiven, OldIsDead, GuardIsHeld,
              L!HolderIsAtPath,
              StampIsKept, JudgedIsDead, L!Alone
<1>2. ASSUME NEW p \in Contenders, L!Acquire(p) \/ L!Step(p) \/ L!StampFails(p) \/ L!GiveUp(p) PROVE LockInv'
  BY <1>2, AcquiringStep, ReleaseStep, StealStep DEF L!Step, Acquiring
<1>3. ASSUME L!AgeGuard PROVE LockInv'
  BY <1>3 DEF L!AgeGuard, LockInv, GuardIsHeld
<1> QED  BY <1>1, <1>2, <1>3, AgeStep, DieStep DEF L!Next

-----------------------------------------------------------------------------

\* Two processes are never in the critical section at once, and the file of the
\* one that is in it stays at the path, through deaths and steals, for every
\* number of processes and hosts: acquireFileLock and stealSeqLock exclude
\* unless a process dies while it holds the stealers' guard.
THEOREM Exclusion ==
  ASSUME L!Bounds, ~StealersDie
  PROVE  L!Spec => [](MutualExclusion /\ L!OneStealer)
<1>1. LockInv => MutualExclusion /\ L!OneStealer
  BY OneHolder, OneStealerHolds DEF LockInv, MutualExclusion, L!MutualExclusion
<1>2. QED
  BY <1>1, LockInit, LockStep, PTL DEF L!Spec

-----------------------------------------------------------------------------
(* The proof of NumberedOnce.  A number is written only when every         *)
(* number given so far is below it.  Where it was read from the cache, the *)
(* cache was recorded after the last task and nothing changed since; where *)
(* it was searched for, every given number is in one of the three places   *)
(* the search looks at, and the first two still are as they were read.     *)

Given == {n \in N!Seqs : issued[n] > 0}

\* Whoever creates a task holds the lock.
LockedOut == \A p \in Creators : creation[p].pc \in N!Creating <=> sequence = p

\* A file is removed only after its tombstone was written.
BuriedFirst == \A p \in Creators : creation[p].pc = "rm" => creation[p].seq \in tomb

CacheIsAhead == N!CacheHit => \A n \in Given : n < cache

\* What a process knows at each step of its search.
SearchIsTrue ==
    \A p \in Creators :
        /\ creation[p].pc \in {"git", "tomb"} /\ p \notin outdated => creation[p].disk = N!Top(disk)
        /\ creation[p].pc = "tomb" /\ p \notin outdated => creation[p].git = N!Top(git)
        /\ creation[p].pc = "write" => creation[p].seq # None /\ \A n \in Given : n < creation[p].seq
        /\ creation[p].pc = "record" => creation[p].seq \in N!Seqs /\ \A n \in Given : n <= creation[p].seq

NumbersInv == /\ N!TypeOK /\ LockedOut /\ BuriedFirst /\ CacheIsAhead /\ SearchIsTrue
              /\ N!GivenOnce /\ N!NumbersAreRemembered

\* A set of naturals that is not empty has a least element.
LEMMA Least ==
    ASSUME NEW S \in SUBSET Nat, S # {}
    PROVE  \E x \in S : \A y \in S : x <= y
<1>1. IsWellFoundedOn({rs \in Nat \X Nat : rs[1] < rs[2]}, Nat)
  BY NatLessThanWellFounded DEF OpToRel
<1>2. PICK x \in S : \A y \in S : ~(<<y, x>> \in {rs \in Nat \X Nat : rs[1] < rs[2]})
  BY <1>1, WFMin
<1>3. ASSUME NEW y \in S PROVE x <= y
  <2>1. <<y, x>> \in Nat \X Nat /\ <<y, x>>[1] = y /\ <<y, x>>[2] = x
    OBVIOUS
  <2>2. ~(y < x)
    BY <1>2, <2>1
  <2> QED BY <2>2
<1> QED BY <1>3

\* And a greatest one, when it is bounded.
LEMMA Greatest ==
    ASSUME NEW n \in Nat, NEW S \in SUBSET (0 .. n), S # {}
    PROVE  \E x \in S : \A y \in S : y <= x
<1> DEFINE T == {n - x : x \in S}
<1>1. T \in SUBSET Nat
  OBVIOUS
<1>2. T # {}
  OBVIOUS
<1>3. \E t \in T : \A u \in T : t <= u
  <2> HIDE DEF T
  <2> QED BY <1>1, <1>2, Least
<1>4. PICK t \in T : \A u \in T : t <= u
  BY <1>3
<1>5. PICK x \in S : t = n - x
  BY <1>4
<1>6. ASSUME NEW y \in S PROVE y <= x
  <2>1. n - x <= n - y
    BY <1>4, <1>5
  <2>2. x \in 0 .. n /\ y \in 0 .. n
    OBVIOUS
  <2> QED BY <2>1, <2>2
<1> QED BY <1>6

\* What Max chooses.
LEMMA MaxOf ==
    ASSUME NEW n \in Nat, NEW S \in SUBSET (0 .. n), S # {}
    PROVE  N!Max(S) \in S /\ \A y \in S : y <= N!Max(S)
<1>1. PICK x \in S : \A y \in S : x >= y
  BY Greatest
<1> QED BY <1>1 DEF N!Max

\* The highest number of a place is a bound of all its numbers.
LEMMA TopOf ==
    ASSUME N!Bounds, NEW S \in SUBSET N!Seqs
    PROVE  N!Top(S) \in 0 .. MaxSeq /\ \A y \in S : y <= N!Top(S)
<1>1. CASE S = {}
  BY <1>1 DEF N!Top, N!Bounds
<1>2. CASE S # {}
  <2>1. S \in SUBSET (0 .. MaxSeq) /\ MaxSeq \in Nat
    BY DEF N!Seqs, N!Bounds
  <2>2. N!Max(S) \in S /\ \A y \in S : y <= N!Max(S)
    BY <1>2, <2>1, MaxOf
  <2> QED BY <1>2, <2>1, <2>2 DEF N!Top
<1> QED BY <1>1, <1>2

\* The ceiling bounds what was read of the three places.
LEMMA CeilingOf ==
    ASSUME N!Bounds, N!TypeOK, NEW p \in Creators
    PROVE  /\ N!Ceiling(p) \in 0 .. MaxSeq
           /\ creation[p].disk <= N!Ceiling(p) /\ creation[p].git <= N!Ceiling(p) /\ N!Top(tomb) <= N!Ceiling(p)
<1>1. creation[p].disk \in 0 .. MaxSeq /\ creation[p].git \in 0 .. MaxSeq
  BY DEF N!TypeOK, N!Runs
<1>2. N!Top(tomb) \in 0 .. MaxSeq
  BY TopOf DEF N!TypeOK
<1> DEFINE S == {creation[p].disk, creation[p].git, N!Top(tomb)}
<1>3. MaxSeq \in Nat /\ S \in SUBSET (0 .. MaxSeq) /\ S # {}
  BY <1>1, <1>2 DEF N!Bounds
<1>4. N!Max(S) \in S /\ \A y \in S : y <= N!Max(S)
  <2> HIDE DEF S
  <2> QED BY <1>3, MaxOf
<1> QED BY <1>3, <1>4 DEF N!Ceiling

-----------------------------------------------------------------------------
\* The steps of one process leave what the others are doing.
LEMMA NumbersInit == ASSUME N!Bounds, N!Init PROVE NumbersInv
<1> USE DEF N!Bounds
<1>1. N!Idle \in N!Runs
  BY DEF N!Idle, N!Runs, N!Creating
<1>2. \A p \in Creators : creation[p] = N!Idle /\ creation[p].pc = "idle"
  BY DEF N!Init, N!Idle
<1>3. N!TypeOK
  BY <1>1 DEF N!Init, N!TypeOK, N!Seqs
<1>4. LockedOut /\ BuriedFirst /\ SearchIsTrue
  BY <1>2 DEF N!Init, LockedOut, BuriedFirst, SearchIsTrue, N!Creating
<1>5. CacheIsAhead /\ N!GivenOnce /\ N!NumbersAreRemembered
  BY DEF N!Init, CacheIsAhead, N!CacheHit, N!GivenOnce, N!NumbersAreRemembered
<1> QED BY <1>3, <1>4, <1>5 DEF NumbersInv

LEMMA BeginKeeps == ASSUME N!Bounds, NumbersInv, NEW p \in Creators, N!Begin(p) PROVE NumbersInv'
<1> USE DEF N!Bounds
<1>1. creation[p] \in N!Runs /\ creation' = [creation EXCEPT ![p] = [@ EXCEPT !.pc = "cache", !.seen = git]]
  BY DEF NumbersInv, N!TypeOK, N!Begin
<1>2. creation' \in [Creators -> N!Runs] /\ creation'[p].pc = "cache"
  BY <1>1 DEF NumbersInv, N!TypeOK, N!Runs, N!Creating
<1>3. \A q \in Creators : q # p => creation'[q] = creation[q]
  BY <1>1 DEF NumbersInv, N!TypeOK
<1>4. N!TypeOK'
  BY <1>2 DEF NumbersInv, N!TypeOK, N!Begin
<1>5. LockedOut'
  BY <1>2, <1>3 DEF NumbersInv, LockedOut, N!Begin, N!Creating
<1>6. BuriedFirst' /\ SearchIsTrue'
  BY <1>2, <1>3 DEF NumbersInv, BuriedFirst, SearchIsTrue, N!Begin, Given
<1>7. CacheIsAhead' /\ N!GivenOnce' /\ N!NumbersAreRemembered'
  BY DEF NumbersInv, CacheIsAhead, N!CacheHit, N!GivenOnce, N!NumbersAreRemembered, N!Begin, Given
<1> QED BY <1>4, <1>5, <1>6, <1>7 DEF NumbersInv

LEMMA ReadCacheKeeps == ASSUME N!Bounds, NumbersInv, NEW p \in Creators, N!ReadCache(p) PROVE NumbersInv'
<1> USE DEF N!Bounds
<1>1. CASE N!CacheHit
  <2>1. creation[p] \in N!Runs /\ creation' = [creation EXCEPT ![p] = [@ EXCEPT !.pc = "write", !.seq = cache]]
    BY <1>1 DEF NumbersInv, N!TypeOK, N!ReadCache
  <2>2. creation' \in [Creators -> N!Runs] /\ creation'[p].pc = "write" /\ creation'[p].seq = cache
    BY <2>1 DEF NumbersInv, N!TypeOK, N!Runs, N!Creating
  <2>3. \A q \in Creators : q # p => creation'[q] = creation[q]
    BY <2>1 DEF NumbersInv, N!TypeOK
  <2>4. outdated' = outdated
    BY <1>1 DEF N!ReadCache
  <2>5. N!TypeOK'
    BY <2>2, <2>4 DEF NumbersInv, N!TypeOK, N!ReadCache
  <2>6. LockedOut' /\ BuriedFirst'
    BY <2>2, <2>3 DEF NumbersInv, LockedOut, BuriedFirst, N!ReadCache, N!Creating
  <2>7. SearchIsTrue'
    BY <1>1, <2>2, <2>3, <2>4 DEF NumbersInv, SearchIsTrue, CacheIsAhead, N!CacheHit, N!ReadCache, Given
  <2>8. CacheIsAhead' /\ N!GivenOnce' /\ N!NumbersAreRemembered'
    BY <2>4 DEF NumbersInv, CacheIsAhead, N!CacheHit, N!GivenOnce, N!NumbersAreRemembered, N!ReadCache, Given
  <2> QED BY <2>5, <2>6, <2>7, <2>8 DEF NumbersInv
<1>2. CASE ~N!CacheHit
  <2>1. creation[p] \in N!Runs /\ creation' = [creation EXCEPT ![p] = [@ EXCEPT !.pc = "disk"]]
    BY <1>2 DEF NumbersInv, N!TypeOK, N!ReadCache
  <2>2. creation' \in [Creators -> N!Runs] /\ creation'[p].pc = "disk"
    BY <2>1 DEF NumbersInv, N!TypeOK, N!Runs, N!Creating
  <2>3. \A q \in Creators : q # p => creation'[q] = creation[q]
    BY <2>1 DEF NumbersInv, N!TypeOK
  <2>4. outdated' = outdated \ {p}
    BY <1>2 DEF N!ReadCache
  <2>5. N!TypeOK'
    BY <2>2, <2>4 DEF NumbersInv, N!TypeOK, N!ReadCache
  <2>6. LockedOut' /\ BuriedFirst'
    BY <2>2, <2>3 DEF NumbersInv, LockedOut, BuriedFirst, N!ReadCache, N!Creating
  <2>7. SearchIsTrue'
    BY <2>2, <2>3, <2>4 DEF NumbersInv, SearchIsTrue, N!ReadCache, Given
  <2>8. CacheIsAhead' /\ N!GivenOnce' /\ N!NumbersAreRemembered'
    BY <2>4 DEF NumbersInv, CacheIsAhead, N!CacheHit, N!GivenOnce, N!NumbersAreRemembered, N!ReadCache, Given
  <2> QED BY <2>5, <2>6, <2>7, <2>8 DEF NumbersInv
<1> QED BY <1>1, <1>2

LEMMA ReadDiskKeeps == ASSUME N!Bounds, NumbersInv, NEW p \in Creators, N!ReadDisk(p) PROVE NumbersInv'
<1> USE DEF N!Bounds
<1>1. N!Top(disk) \in 0 .. MaxSeq
  BY TopOf DEF NumbersInv, N!TypeOK
<1>2. creation[p] \in N!Runs /\ creation' = [creation EXCEPT ![p] = [@ EXCEPT !.pc = "git", !.disk = N!Top(disk)]]
  BY DEF NumbersInv, N!TypeOK, N!ReadDisk
<1>3. creation' \in [Creators -> N!Runs] /\ creation'[p].pc = "git" /\ creation'[p].disk = N!Top(disk)
  BY <1>1, <1>2 DEF NumbersInv, N!TypeOK, N!Runs, N!Creating
<1>4. \A q \in Creators : q # p => creation'[q] = creation[q]
  BY <1>2 DEF NumbersInv, N!TypeOK
<1>5. N!TypeOK'
  BY <1>3 DEF NumbersInv, N!TypeOK, N!ReadDisk
<1>6. LockedOut' /\ BuriedFirst'
  BY <1>3, <1>4 DEF NumbersInv, LockedOut, BuriedFirst, N!ReadDisk, N!Creating
<1>7. SearchIsTrue'
  BY <1>3, <1>4 DEF NumbersInv, SearchIsTrue, N!ReadDisk, Given
<1>8. CacheIsAhead' /\ N!GivenOnce' /\ N!NumbersAreRemembered'
  BY DEF NumbersInv, CacheIsAhead, N!CacheHit, N!GivenOnce, N!NumbersAreRemembered, N!ReadDisk, Given
<1> QED BY <1>5, <1>6, <1>7, <1>8 DEF NumbersInv

LEMMA ReadGitKeeps == ASSUME N!Bounds, NumbersInv, NEW p \in Creators, N!ReadGit(p) PROVE NumbersInv'
<1> USE DEF N!Bounds
<1>1. N!Top(git) \in 0 .. MaxSeq
  BY TopOf DEF NumbersInv, N!TypeOK
<1>2. creation[p] \in N!Runs /\ creation' = [creation EXCEPT ![p] = [@ EXCEPT !.pc = "tomb", !.git = N!Top(git)]]
  BY DEF NumbersInv, N!TypeOK, N!ReadGit
<1>3. /\ creation' \in [Creators -> N!Runs] /\ creation'[p].pc = "tomb" /\ creation'[p].git = N!Top(git)
      /\ creation'[p].disk = creation[p].disk
  BY <1>1, <1>2 DEF NumbersInv, N!TypeOK, N!Runs, N!Creating
<1>4. \A q \in Creators : q # p => creation'[q] = creation[q]
  BY <1>2 DEF NumbersInv, N!TypeOK
<1>5. N!TypeOK'
  BY <1>3 DEF NumbersInv, N!TypeOK, N!ReadGit
<1>6. LockedOut' /\ BuriedFirst'
  BY <1>3, <1>4 DEF NumbersInv, LockedOut, BuriedFirst, N!ReadGit, N!Creating
<1>7. SearchIsTrue'
  BY <1>3, <1>4 DEF NumbersInv, SearchIsTrue, N!ReadGit, Given
<1>8. CacheIsAhead' /\ N!GivenOnce' /\ N!NumbersAreRemembered'
  BY DEF NumbersInv, CacheIsAhead, N!CacheHit, N!GivenOnce, N!NumbersAreRemembered, N!ReadGit, Given
<1> QED BY <1>5, <1>6, <1>7, <1>8 DEF NumbersInv

\* When nothing changed since the places were read, the ceiling bounds every
\* number that was given: each of them is in one of the places.
LEMMA CeilingIsAhead ==
    ASSUME N!Bounds, NumbersInv, NEW p \in Creators, creation[p].pc = "tomb", p \notin outdated
    PROVE  \A n \in Given : n <= N!Ceiling(p)
<1>1. creation[p].disk = N!Top(disk) /\ creation[p].git = N!Top(git)
  BY DEF NumbersInv, SearchIsTrue
<1>2. /\ N!Ceiling(p) \in 0 .. MaxSeq
      /\ creation[p].disk <= N!Ceiling(p) /\ creation[p].git <= N!Ceiling(p) /\ N!Top(tomb) <= N!Ceiling(p)
  BY CeilingOf DEF NumbersInv
<1>3. /\ N!Top(disk) \in 0 .. MaxSeq /\ \A n \in disk : n <= N!Top(disk)
      /\ N!Top(git) \in 0 .. MaxSeq /\ \A n \in git : n <= N!Top(git)
      /\ N!Top(tomb) \in 0 .. MaxSeq /\ \A n \in tomb : n <= N!Top(tomb)
  BY TopOf DEF NumbersInv, N!TypeOK
<1>4. ASSUME NEW n \in Given PROVE n <= N!Ceiling(p)
  <2>1. n \in N!Seqs /\ n \in disk \cup git \cup tomb
    BY <1>4 DEF Given, NumbersInv, N!NumbersAreRemembered
  <2>2. n \in Nat /\ MaxSeq \in Nat
    BY <2>1 DEF N!Seqs, N!Bounds
  <2> QED BY <1>1, <1>2, <1>3, <2>1, <2>2
<1> QED BY <1>4

LEMMA ReadTombKeeps == ASSUME N!Bounds, NumbersInv, NEW p \in Creators, N!ReadTomb(p) PROVE NumbersInv'
<1> USE DEF N!Bounds
<1>1. CASE p \notin outdated
  <2>1. N!Ceiling(p) \in 0 .. MaxSeq /\ N!Ceiling(p) < MaxSeq /\ \A n \in Given : n <= N!Ceiling(p)
    BY <1>1, CeilingOf, CeilingIsAhead DEF NumbersInv, N!ReadTomb
  <2>2. /\ creation[p] \in N!Runs
        /\ creation' = [creation EXCEPT ![p] = [@ EXCEPT !.pc = "write", !.seq = N!Ceiling(p) + 1]]
    BY <1>1 DEF NumbersInv, N!TypeOK, N!ReadTomb
  <2> HIDE DEF N!Bounds
  <2>3. N!Ceiling(p) + 1 \in 1 .. MaxSeq + 1 /\ N!Ceiling(p) + 1 \in N!Seqs
    BY <2>1 DEF N!Bounds, N!Seqs
  <2>4. creation' \in [Creators -> N!Runs] /\ creation'[p].pc = "write" /\ creation'[p].seq = N!Ceiling(p) + 1
    BY <2>2, <2>3 DEF NumbersInv, N!TypeOK, N!Runs, N!Creating
  <2>5. \A q \in Creators : q # p => creation'[q] = creation[q]
    BY <2>2 DEF NumbersInv, N!TypeOK
  <2>6. outdated' = outdated
    BY <1>1 DEF N!ReadTomb
  <2>7. N!TypeOK'
    BY <2>4, <2>6 DEF NumbersInv, N!TypeOK, N!ReadTomb
  <2>8. LockedOut' /\ BuriedFirst'
    BY <2>4, <2>5 DEF NumbersInv, LockedOut, BuriedFirst, N!ReadTomb, N!Creating
  <2>9. creation'[p].seq # None /\ \A n \in Given : n < creation'[p].seq
    BY <2>1, <2>3, <2>4 DEF Given, N!Seqs, N!Bounds
  <2>10. SearchIsTrue'
    BY <2>4, <2>5, <2>6, <2>9 DEF NumbersInv, SearchIsTrue, N!ReadTomb, Given
  <2>11. CacheIsAhead' /\ N!GivenOnce' /\ N!NumbersAreRemembered'
    BY <2>6 DEF NumbersInv, CacheIsAhead, N!CacheHit, N!GivenOnce, N!NumbersAreRemembered, N!ReadTomb, Given
  <2> QED BY <2>7, <2>8, <2>10, <2>11 DEF NumbersInv
<1>2. CASE p \in outdated
  <2>1. creation[p] \in N!Runs /\ creation' = [creation EXCEPT ![p] = [@ EXCEPT !.pc = "disk"]]
    BY <1>2 DEF NumbersInv, N!TypeOK, N!ReadTomb
  <2>2. creation' \in [Creators -> N!Runs] /\ creation'[p].pc = "disk"
    BY <2>1 DEF NumbersInv, N!TypeOK, N!Runs, N!Creating
  <2>3. \A q \in Creators : q # p => creation'[q] = creation[q]
    BY <2>1 DEF NumbersInv, N!TypeOK
  <2>4. outdated' = outdated \ {p}
    BY <1>2 DEF N!ReadTomb
  <2>5. N!TypeOK'
    BY <2>2, <2>4 DEF NumbersInv, N!TypeOK, N!ReadTomb
  <2>6. LockedOut' /\ BuriedFirst'
    BY <2>2, <2>3 DEF NumbersInv, LockedOut, BuriedFirst, N!ReadTomb, N!Creating
  <2>7. SearchIsTrue'
    BY <2>2, <2>3, <2>4 DEF NumbersInv, SearchIsTrue, N!ReadTomb, Given
  <2>8. CacheIsAhead' /\ N!GivenOnce' /\ N!NumbersAreRemembered'
    BY <2>4 DEF NumbersInv, CacheIsAhead, N!CacheHit, N!GivenOnce, N!NumbersAreRemembered, N!ReadTomb, Given
  <2> QED BY <2>5, <2>6, <2>7, <2>8 DEF NumbersInv
<1> QED BY <1>1, <1>2

\* A process that stops leaves the lock, and what is known of the others stays.
LEMMA StopKeeps ==
    ASSUME N!Bounds, NumbersInv, NEW p \in Creators,
           creation' = [creation EXCEPT ![p] = N!Idle], sequence' = (IF sequence = p THEN None ELSE sequence),
           UNCHANGED <<disk, git, tomb, cache, outdated, issued>>
    PROVE  NumbersInv'
<1> USE DEF N!Bounds
<1>1. creation' \in [Creators -> N!Runs] /\ creation'[p].pc = "idle"
  BY DEF NumbersInv, N!TypeOK, N!Runs, N!Creating, N!Idle
<1>2. \A q \in Creators : q # p => creation'[q] = creation[q]
  BY DEF NumbersInv, N!TypeOK
<1>3. N!TypeOK'
  BY <1>1 DEF NumbersInv, N!TypeOK
<1>4. LockedOut'
  BY <1>1, <1>2 DEF NumbersInv, LockedOut, N!Creating
<1>5. BuriedFirst' /\ SearchIsTrue'
  BY <1>1, <1>2 DEF NumbersInv, BuriedFirst, SearchIsTrue, Given
<1>6. CacheIsAhead' /\ N!GivenOnce' /\ N!NumbersAreRemembered'
  BY DEF NumbersInv, CacheIsAhead, N!CacheHit, N!GivenOnce, N!NumbersAreRemembered, Given
<1> QED BY <1>3, <1>4, <1>5, <1>6 DEF NumbersInv

LEMMA GiveUpKeeps == ASSUME N!Bounds, NumbersInv, NEW p \in Creators, N!GiveUp(p) PROVE NumbersInv'
<1>1. sequence = p
  BY DEF NumbersInv, LockedOut, N!GiveUp, N!Creating
<1> QED BY <1>1, StopKeeps DEF N!GiveUp

LEMMA CreatorDies == ASSUME N!Bounds, NumbersInv, NEW p \in Creators, N!Die(p) PROVE NumbersInv'
  BY StopKeeps DEF N!Die

\* The number written is above every number given, so none was given twice.
LEMMA WriteKeeps == ASSUME N!Bounds, NumbersInv, NEW p \in Creators, N!Write(p) PROVE NumbersInv'
<1> DEFINE n == creation[p].seq
           d == [N!Idle EXCEPT !.pc = "record", !.seq = n]
<1>1. n \in N!Seqs /\ \A m \in Given : m < n
  BY DEF NumbersInv, N!TypeOK, N!Runs, SearchIsTrue, N!Write, N!Seqs, N!Bounds
<1>2. issued[n] = 0
  BY <1>1 DEF NumbersInv, N!TypeOK, Given, N!Seqs, N!Bounds
<1>3. d \in N!Runs /\ d.pc = "record" /\ d.seq = n
  <2>1. n \in 1 .. MaxSeq + 1 /\ 0 \in 0 .. MaxSeq
    BY <1>1 DEF N!Seqs, N!Bounds
  <2> HIDE DEF n
  <2>2. d.pc = "record" /\ d.seq = n /\ d \in N!Runs
    BY <2>1 DEF N!Idle, N!Runs, N!Creating
  <2> QED BY <2>2
<1>4. /\ creation' \in [Creators -> N!Runs] /\ creation'[p] = d
      /\ \A q \in Creators : q # p => creation'[q] = creation[q]
  BY <1>3 DEF NumbersInv, N!TypeOK, N!Write
<1>5. issued' \in [N!Seqs -> Nat] /\ issued'[n] = 1 /\ \A m \in N!Seqs : m # n => issued'[m] = issued[m]
  BY <1>1, <1>2 DEF NumbersInv, N!TypeOK, N!Write
<1>6. /\ disk' = disk \cup {n} /\ outdated' = Creators \cup {"cache"} /\ creation[p].pc = "write"
      /\ UNCHANGED <<git, tomb, cache, sequence>>
  BY DEF N!Write, N!Changed
<1> HIDE DEF n, d
<1>7. N!TypeOK'
  BY <1>1, <1>4, <1>5, <1>6 DEF NumbersInv, N!TypeOK
<1>8. LockedOut' /\ BuriedFirst'
  BY <1>3, <1>4, <1>6 DEF NumbersInv, LockedOut, BuriedFirst, N!Creating
<1>9. \A m \in Given' : m <= n
  BY <1>1, <1>5 DEF Given, N!Seqs, N!Bounds
<1>10. SearchIsTrue'
  <2>1. ASSUME NEW q \in Creators, q # p PROVE creation'[q].pc \notin N!Creating
    BY <1>4, <1>6, <2>1 DEF NumbersInv, LockedOut, N!Creating
  <2> QED BY <1>1, <1>3, <1>4, <1>6, <1>9, <2>1 DEF SearchIsTrue, N!Creating
<1>11. N!GivenOnce'
  BY <1>1, <1>5 DEF NumbersInv, N!GivenOnce
<1>12. N!NumbersAreRemembered' /\ CacheIsAhead'
  BY <1>1, <1>5, <1>6 DEF NumbersInv, N!NumbersAreRemembered, CacheIsAhead, N!CacheHit
<1> QED BY <1>7, <1>8, <1>10, <1>11, <1>12 DEF NumbersInv

LEMMA RecordKeeps == ASSUME N!Bounds, NumbersInv, NEW p \in Creators, N!Record(p) PROVE NumbersInv'
<1>1. creation[p].seq \in N!Seqs /\ (\A n \in Given : n <= creation[p].seq) /\ sequence = p
  BY DEF NumbersInv, SearchIsTrue, LockedOut, N!Record, N!Creating
<1>2. /\ creation' \in [Creators -> N!Runs] /\ creation'[p].pc = "idle"
      /\ \A q \in Creators : q # p => creation'[q] = creation[q]
  <2>1. N!Idle \in N!Runs /\ N!Idle.pc = "idle"
    BY DEF N!Idle, N!Runs, N!Creating, N!Bounds
  <2> QED BY <2>1 DEF NumbersInv, N!TypeOK, N!Record
<1>3. /\ cache' = creation[p].seq + 1 /\ outdated' = outdated \ {"cache"} /\ sequence' = None
      /\ UNCHANGED <<disk, git, tomb, issued>>
  BY DEF N!Record
<1>4. N!TypeOK'
  BY <1>1, <1>2, <1>3 DEF NumbersInv, N!TypeOK, N!Seqs, N!Bounds
<1>5. LockedOut' /\ BuriedFirst'
  BY <1>1, <1>2, <1>3 DEF NumbersInv, LockedOut, BuriedFirst, N!Creating, N!Bounds
<1>6. CacheIsAhead'
  BY <1>1, <1>3 DEF CacheIsAhead, Given, N!Seqs, N!Bounds
<1>7. SearchIsTrue'
  BY <1>2, <1>3 DEF NumbersInv, SearchIsTrue, Given, N!Bounds
<1>8. N!GivenOnce' /\ N!NumbersAreRemembered'
  BY <1>3 DEF NumbersInv, N!GivenOnce, N!NumbersAreRemembered
<1> QED BY <1>4, <1>5, <1>6, <1>7, <1>8 DEF NumbersInv

LEMMA WriteTombstoneKeeps ==
    ASSUME N!Bounds, NumbersInv, NEW p \in Creators, NEW n \in N!Seqs, N!WriteTombstone(p, n)
    PROVE  NumbersInv'
<1>1. creation[p].pc = "idle" /\ creation[p] \in N!Runs
  BY DEF N!WriteTombstone, N!Idle, NumbersInv, N!TypeOK
<1>2. n \in 1 .. MaxSeq + 1
  BY DEF N!Seqs, N!Bounds
<1>3. creation' = [creation EXCEPT ![p] = [@ EXCEPT !.pc = "rm", !.seq = n]]
  BY DEF N!WriteTombstone, NumbersInv, N!TypeOK
<1>4. /\ creation' \in [Creators -> N!Runs] /\ creation'[p].pc = "rm" /\ creation'[p].seq = n
      /\ \A q \in Creators : q # p => creation'[q] = creation[q]
  BY <1>1, <1>2, <1>3 DEF NumbersInv, N!TypeOK, N!Runs
<1>5. tomb' = tomb \cup {n} /\ outdated' = Creators \cup {"cache"} /\ UNCHANGED <<disk, git, cache, sequence, issued>>
  BY DEF N!WriteTombstone, N!Changed
<1>6. N!TypeOK'
  BY <1>4, <1>5 DEF NumbersInv, N!TypeOK
<1>7. LockedOut'
  BY <1>1, <1>4, <1>5 DEF NumbersInv, LockedOut, N!Creating
<1>8. BuriedFirst' /\ SearchIsTrue'
  BY <1>4, <1>5 DEF NumbersInv, BuriedFirst, SearchIsTrue, Given
<1>9. CacheIsAhead' /\ N!GivenOnce' /\ N!NumbersAreRemembered'
  BY <1>5 DEF NumbersInv, CacheIsAhead, N!CacheHit, N!GivenOnce, N!NumbersAreRemembered
<1> QED BY <1>6, <1>7, <1>8, <1>9 DEF NumbersInv

LEMMA RemoveFileKeeps == ASSUME N!Bounds, NumbersInv, NEW p \in Creators, N!RemoveFile(p) PROVE NumbersInv'
<1>1. creation[p].pc = "rm" /\ creation[p].seq \in tomb
  BY DEF N!RemoveFile, NumbersInv, BuriedFirst
<1>2. /\ creation' \in [Creators -> N!Runs] /\ creation'[p].pc = "idle"
      /\ \A q \in Creators : q # p => creation'[q] = creation[q]
  <2>1. N!Idle \in N!Runs /\ N!Idle.pc = "idle"
    BY DEF N!Idle, N!Runs, N!Creating, N!Bounds
  <2> QED BY <2>1 DEF NumbersInv, N!TypeOK, N!RemoveFile
<1>3. /\ disk' = disk \ {creation[p].seq} /\ outdated' = Creators \cup {"cache"}
      /\ UNCHANGED <<git, tomb, cache, sequence, issued>>
  BY DEF N!RemoveFile, N!Changed
<1>4. N!TypeOK'
  BY <1>2, <1>3 DEF NumbersInv, N!TypeOK
<1>5. LockedOut'
  BY <1>1, <1>2, <1>3 DEF NumbersInv, LockedOut, N!Creating
<1>6. BuriedFirst' /\ SearchIsTrue'
  BY <1>2, <1>3 DEF NumbersInv, BuriedFirst, SearchIsTrue, Given
<1>7. CacheIsAhead' /\ N!GivenOnce' /\ N!NumbersAreRemembered'
  BY <1>1, <1>3 DEF NumbersInv, CacheIsAhead, N!CacheHit, N!GivenOnce, N!NumbersAreRemembered
<1> QED BY <1>4, <1>5, <1>6, <1>7 DEF NumbersInv

\* What Git does to the folders and the refs outdates every observation, and
\* hides no number that was given.
LEMMA GitKeeps ==
    ASSUME N!Bounds, NumbersInv, N!Commit \/ N!Fetch \/ N!Checkout
    PROVE  NumbersInv'
<1>1. outdated' = Creators \cup {"cache"} /\ UNCHANGED <<tomb, cache, sequence, creation, issued>>
  BY DEF N!Commit, N!Fetch, N!Checkout, N!Changed
<1>2. disk' \subseteq N!Seqs /\ git' \subseteq N!Seqs
  BY DEF N!Commit, N!Fetch, N!Checkout, NumbersInv, N!TypeOK
<1>3. disk \cup git \cup tomb \subseteq disk' \cup git' \cup tomb'
  BY DEF N!Commit, N!Fetch, N!Checkout
<1>4. N!TypeOK'
  BY <1>1, <1>2 DEF NumbersInv, N!TypeOK
<1>5. LockedOut' /\ BuriedFirst' /\ SearchIsTrue'
  BY <1>1 DEF NumbersInv, LockedOut, BuriedFirst, SearchIsTrue, Given
<1>6. CacheIsAhead' /\ N!GivenOnce' /\ N!NumbersAreRemembered'
  BY <1>1, <1>3 DEF NumbersInv, CacheIsAhead, N!CacheHit, N!GivenOnce, N!NumbersAreRemembered
<1> QED BY <1>4, <1>5, <1>6 DEF NumbersInv

LEMMA NumbersKept == ASSUME N!Bounds, NumbersInv, [N!Next]_(N!vars) PROVE NumbersInv'
<1>1. ASSUME NEW p \in Creators, N!Create(p) PROVE NumbersInv'
  BY <1>1, BeginKeeps, ReadCacheKeeps, ReadDiskKeeps, ReadGitKeeps, ReadTombKeeps, GiveUpKeeps,
     WriteKeeps, RecordKeeps DEF N!Create
<1>2. ASSUME NEW p \in Creators, N!Die(p) PROVE NumbersInv'
  BY <1>2, CreatorDies
<1>3. ASSUME NEW p \in Creators, N!RemoveFile(p) PROVE NumbersInv'
  BY <1>3, RemoveFileKeeps
<1>4. ASSUME NEW p \in Creators, NEW n \in N!Seqs, N!WriteTombstone(p, n) PROVE NumbersInv'
  BY <1>4, WriteTombstoneKeeps
<1>5. ASSUME N!Commit \/ N!Fetch \/ N!Checkout PROVE NumbersInv'
  BY <1>5, GitKeeps
<1>6. CASE UNCHANGED N!vars
  BY <1>6 DEF N!vars, NumbersInv, N!TypeOK, LockedOut, BuriedFirst, CacheIsAhead, N!CacheHit, SearchIsTrue,
              Given,
              N!GivenOnce, N!NumbersAreRemembered
<1> QED BY <1>1, <1>2, <1>3, <1>4, <1>5, <1>6 DEF N!Next

\* No number is given to two tasks by any number of processes creating and
\* removing tasks, dying at any step, while Git commits, fetches and checks out;
\* and every number that was given is still in a folder, on a ref or a tombstone.
THEOREM NumbersAreGivenOnce ==
    ASSUME N!Bounds
    PROVE  N!Spec => []NumberedOnce
<1>1. N!Init => NumbersInv
  BY NumbersInit
<1>2. NumbersInv /\ [N!Next]_(N!vars) => NumbersInv'
  BY NumbersKept
<1>3. NumbersInv => NumberedOnce
  BY DEF NumbersInv, NumberedOnce, N!NumberedOnce
<1> QED BY <1>1, <1>2, <1>3, PTL DEF N!Spec

-----------------------------------------------------------------------------
(* The task files and the event log.  A command or a sync that has saved a *)
(* file holds its lock until the file is in its folder; files only grow    *)
(* lines, none twice, and what is verified stays so or is being reopened.  *)
(* So whatever the other processes do, what one of them found in a log is  *)
(* still there when it marks the event.                                    *)

\* No two lines of a log are about the same event.
OneLine(f) == \A i, j \in DOMAIN f.log : f.log[i].event = f.log[j].event /\ f.log[i].event # None => i = j

LinesAreSingle == \A t \in Tasks : OneLine(task[t])

\* A command that has saved its task holds its lock until the file is in its
\* folder; what goes to the done ones is verified.
CommandHolds(p) ==
    /\ run[p].pc \in {"lock", "move"} => run[p].task \in Tasks /\ run[p].cmd \in Edits
    /\ run[p].pc = "move" =>
          /\ lock[run[p].task] = p /\ run[p].to \in Statuses
          /\ run[p].to = "done" => Verified(task[run[p].task])

\* A sync goes through known events; what it has saved is in the log.
SyncHolds(p) ==
    /\ run[p].pc \in {"index", "sync", "syncmove", "mark"} => run[p].todo \subseteq Known
    /\ run[p].pc \in {"syncmove", "mark"} => run[p].event \in Known /\ LinesOf(run[p].event) # {}
    /\ run[p].pc = "syncmove" =>
          /\ lock[event[run[p].event].about] = p /\ run[p].to \in Statuses
          /\ run[p].to = "done" => Verified(task[event[run[p].event].about])

\* A plan archives what was finished when it was made.
JournalHolds(p) == run[p].pc = "journal" => \A item \in run[p].todo :
    /\ item.id \in Known
    /\ item.action # "dismiss" => item.was.applied \/ item.was.dismissed

Holds(p) == CommandHolds(p) /\ SyncHolds(p) /\ JournalHolds(p)

WorkHolds == \A p \in Procs : Holds(p)

EventsAreComplete ==
    \A e \in Known : /\ Journal(e) => event[e].applied
                     /\ event[e].kind = "status" => event[e].want \in Statuses

\* A note was made from a finding, or from a question it answered.
NotesAreMade ==
    \A e \in Ids : notes[e] # 0 => e \in Known /\ (event[e].kind = "finding" \/ event[e].applied)

EventInv == /\ NotesAreMade /\ TypeOK /\ WorkHolds /\ EventsAreComplete
            /\ AppliedIsLogged /\ LinesAreSingle /\ DoneIsVerified /\ ArchivedIsFinished

-----------------------------------------------------------------------------
(* What may happen to a task file: lines are added, none twice, and what was *)
(* verified stays so or is being reopened.                                   *)

Grows(f, g) ==
    /\ \A i \in DOMAIN f.log : i \in DOMAIN g.log /\ g.log[i] = f.log[i]
    /\ OneLine(f) => OneLine(g)
    /\ Verified(f) => Verified(g)

LEMMA SameLog ==
  ASSUME NEW f \in Files, NEW g \in Files, g.log = f.log, g.boxes = f.boxes \/ g.boxes = Criteria
  PROVE  Grows(f, g)
  BY DEF Grows, OneLine, Verified, HasLine

LEMMA OneMore ==
  ASSUME NEW f \in Files, NEW g \in Files, NEW l \in Lines, g.log = Append(f.log, l),
         l.event = None \/ \A i \in DOMAIN f.log : f.log[i].event # l.event,
         g.boxes = f.boxes \/ g.boxes = Criteria \/ l.what = "reopened",
         l.what = "completed" => g.boxes = Criteria
  PROVE  /\ Grows(f, g)
         /\ \E i \in DOMAIN g.log : g.log[i] = l
<1> DEFINE n == Len(f.log)
<1>1. /\ f.log \in Seq(Lines) /\ n \in Nat /\ DOMAIN f.log = 1 .. n /\ Len(g.log) = n + 1 /\ DOMAIN g.log = 1 .. n + 1
      /\ \A i \in 1 .. n : g.log[i] = f.log[i]
      /\ g.log[n + 1] = l
  BY DEF Files
<1> HIDE DEF n
<1>2. OneLine(f) => OneLine(g)
  <2>1. ASSUME OneLine(f), NEW i \in 1 .. n + 1, NEW j \in 1 .. n + 1,
               g.log[i].event = g.log[j].event, g.log[i].event # None
        PROVE  i = j
    <3>1. CASE i \in 1 .. n /\ j \in 1 .. n
      BY <1>1, <2>1, <3>1 DEF OneLine
    <3>2. CASE i = n + 1 \/ j = n + 1
      BY <1>1, <2>1, <3>2
    <3> QED BY <1>1, <3>1, <3>2
  <2> QED BY <1>1, <2>1 DEF OneLine
<1>3. Verified(f) => Verified(g)
  <2>1. CASE l.what = "reopened"
    <3>1. n + 1 \in DOMAIN g.log /\ g.log[n + 1].what = "reopened" /\ \A k \in n + 1 .. Len(g.log) : k = n + 1
      BY <1>1, <2>1
    <3> QED BY <2>1, <3>1, <1>1 DEF Verified
  <2>2. CASE l.what # "reopened" /\ f.boxes = Criteria /\ HasLine(f, "completed")
    BY <1>1, <2>2 DEF Verified, HasLine
  <2>3. CASE l.what = "completed"
    BY <1>1, <2>3 DEF Verified, HasLine
  <2>4. ASSUME l.what # "completed", NEW i \in DOMAIN f.log, f.log[i].what = "reopened",
               \A k \in i .. n : f.log[k].what # "completed"
        PROVE  Verified(g)
    <3>1. \A k \in i .. n + 1 : g.log[k].what # "completed"
      <4>1. ASSUME NEW k \in i .. n + 1 PROVE g.log[k].what # "completed"
        BY <1>1, <2>4 
      <4> QED BY <4>1
    <3> QED BY <1>1, <2>4, <3>1 DEF Verified
  <2> QED BY <2>1, <2>2, <2>3, <2>4, <1>1 DEF Verified, n
<1> QED BY <1>1, <1>2, <1>3 DEF Grows

LEMMA GrowsOn ==
  ASSUME NEW f, NEW g, NEW h, Grows(f, g), Grows(g, h)
  PROVE  Grows(f, h)
  BY DEF Grows

LEMMA LogTyped ==
  ASSUME NEW f \in Files, NEW l \in Lines
  PROVE  LET g == [f EXCEPT !.log = Append(@, l)] IN
         /\ g \in Files /\ g.log = Append(f.log, l) /\ g.boxes = f.boxes /\ g.status = f.status
<1>1. Append(f.log, l) \in Seq(Lines)
  BY DEF Files
<1>2. \A log \in Seq(Lines) : LET g == [f EXCEPT !.log = log] IN
         g \in Files /\ g.log = log /\ g.boxes = f.boxes /\ g.status = f.status
  BY DEF Files
<1> QED BY <1>1, <1>2

\* A line without an event, appended by a command.
LEMMA LoggedGrows ==
  ASSUME NEW f \in Files, NEW a \in Agents, NEW what \in Entries, what # "completed"
  PROVE  /\ Logged(f, what, a) \in Files /\ Grows(f, Logged(f, what, a))
         /\ Logged(f, what, a).status = f.status /\ Logged(f, what, a).boxes = f.boxes
<1> DEFINE l == Line(what, a, None)  g == Logged(f, what, a)
<1>1. l \in Lines /\ l.event = None /\ l.what = what
  BY DEF Line, Lines
<1>2. g \in Files /\ g.log = Append(f.log, l) /\ g.boxes = f.boxes /\ g.status = f.status
  BY <1>1, LogTyped DEF Logged
<1> HIDE DEF l, g
<1> QED BY <1>1, <1>2, OneMore DEF g

\* closeTask stamps a completion on a task whose boxes are all checked.
LEMMA ClosedGrows ==
  ASSUME NEW f \in Files, NEW a \in Agents, NEW landing \in {"pr", "direct"}, f.boxes = Criteria
  PROVE  /\ Closed(f, a, landing) \in Files /\ Grows(f, Closed(f, a, landing))
         /\ Closed(f, a, landing).status = f.status
         /\ landing = "direct" => Verified(Closed(f, a, landing))
<1>1. CASE landing = "pr"
  <2> DEFINE h == Logged(f, "requested", a)  g == [h EXCEPT !.unlanded = TRUE]
  <2>1. h \in Files /\ Grows(f, h) /\ h.status = f.status /\ h.boxes = f.boxes
    BY LoggedGrows DEF Entries
  <2>2. g \in Files /\ g.log = h.log /\ g.boxes = h.boxes /\ g.status = h.status
    BY <2>1 DEF Files
  <2>3. Closed(f, a, landing) = g
    BY <1>1 DEF Closed
  <2> HIDE DEF g, h
  <2>4. Grows(h, g)
    BY <2>1, <2>2, SameLog
  <2> QED BY <1>1, <2>1, <2>2, <2>3, <2>4, GrowsOn
<1>2. CASE landing = "direct"
  <2> DEFINE l == Line("completed", a, None)  g == [Logged(f, "completed", a) EXCEPT !.unlanded = FALSE]
  <2>1. l \in Lines /\ l.event = None /\ l.what = "completed"
    BY DEF Line, Lines, Entries
  <2>2. g \in Files /\ g.log = Append(f.log, l) /\ g.boxes = f.boxes /\ g.status = f.status
    <3> DEFINE h == Logged(f, "completed", a)
    <3>1. h \in Files /\ h.log = Append(f.log, l) /\ h.boxes = f.boxes /\ h.status = f.status
      BY <2>1, LogTyped DEF Logged
    <3> HIDE DEF h
    <3>2. [h EXCEPT !.unlanded = FALSE] \in Files
      BY <3>1 DEF Files
    <3> QED BY <3>1, <3>2 DEF h, Files
  <2>3. Closed(f, a, landing) = g
    BY <1>2 DEF Closed
  <2> HIDE DEF g, l
  <2>4. Grows(f, g) /\ \E i \in DOMAIN g.log : g.log[i] = l
    BY <2>1, <2>2, OneMore
  <2>5. Verified(g)
    BY <2>1, <2>2, <2>4 DEF Verified, HasLine
  <2> QED BY <2>2, <2>3, <2>4, <2>5
<1> QED BY <1>1, <1>2

\* What a command does to the task it read under the lock.
LEMMA EditGrows ==
  ASSUME NEW f \in Files, NEW a \in Agents, NEW landing \in {"pr", "direct"}, NEW owner, NEW cmd \in Edits,
         Agrees(cmd, a, f, owner), f.status = "done" => Verified(f)
  PROVE  LET g == Edited(cmd, a, f, owner, landing)  to == Target(cmd, f, landing) IN
         /\ g \in Files /\ g.status = f.status /\ Grows(f, g)
         /\ to \in Statuses /\ (to = "done" => Verified(g))
<1> DEFINE g == Edited(cmd, a, f, owner, landing)  to == Target(cmd, f, landing)
<1>0. f.status \in Statuses /\ Criteria \in SUBSET Criteria /\ {} \in SUBSET Criteria
  BY DEF Files
<1>1. CASE cmd \in {"block", "ask", "answer"}
  <2>1. /\ cmd = "block" => g = Logged(f, "blocked", a)
        /\ cmd = "ask" => g = Logged(f, "asked", a)
        /\ cmd = "answer" => g = Logged(f, "answered", a)
    BY <1>1 DEF Edited, Blocked
  <2>2. to \in {"blocked", "active"}
    BY <1>1 DEF Target
  <2> HIDE DEF g, to
  <2>3. g \in Files /\ g.status = f.status /\ Grows(f, g)
    <3>1. \E what \in Entries : what # "completed" /\ g = Logged(f, what, a)
      BY <1>1, <2>1 DEF Entries
    <3> QED BY <3>1, LoggedGrows
  <2> QED BY <2>2, <2>3 DEF g, to, Statuses
<1>2. CASE cmd = "check"
  <2>1. g = [f EXCEPT !.boxes = Criteria] /\ to = f.status
    BY <1>2 DEF Edited, Target, Checked
  <2>2. g \in Files /\ g.log = f.log /\ g.boxes = Criteria /\ g.status = f.status
    BY <2>1 DEF Files
  <2> HIDE DEF g, to
  <2>3. Grows(f, g)
    BY <2>2, SameLog
  <2> QED BY <1>0, <2>1, <2>2, <2>3 DEF g, to, Grows
<1>3. CASE cmd \in {"claim", "takeover", "estimate"}
  <2> DEFINE what == IF cmd = "claim" THEN "claimed" ELSE IF cmd = "takeover" THEN "takeover" ELSE "adopted"
             h == Logged(f, what, a)
  <2>1. g = f \/ g = [h EXCEPT !.owner = a]
    BY <1>3 DEF Edited, Claimed, TakenOver, Sized
  <2>2. to = f.status \/ to = "active"
    BY <1>3 DEF Target
  <2>3. what \in Entries /\ what # "completed"
    BY DEF Entries
  <2> HIDE DEF g, to, what
  <2>4. h \in Files /\ Grows(f, h) /\ h.status = f.status /\ h.boxes = f.boxes
    BY <2>3, LoggedGrows
  <2> HIDE DEF h
  <2>5. CASE g = f
    BY <1>0, <2>2, <2>5, SameLog DEF g, to, Statuses
  <2>6. CASE g = [h EXCEPT !.owner = a]
    <3>1. g \in Files /\ g.log = h.log /\ g.boxes = h.boxes /\ g.status = h.status
      BY <2>4, <2>6 DEF Files
    <3>2. Grows(f, g)
      BY <2>4, <3>1, SameLog, GrowsOn
    <3> QED BY <1>0, <2>2, <2>4, <3>1, <3>2 DEF g, to, Statuses, Grows
  <2> QED BY <2>1, <2>5, <2>6
<1>4. CASE cmd = "reopen"
  <2> DEFINE l == Line("reopened", a, None)  h == Logged(f, "reopened", a)
  <2>1. l \in Lines /\ l.event = None /\ l.what = "reopened"
    BY DEF Line, Lines, Entries
  <2>2. h \in Files /\ h.log = Append(f.log, l) /\ h.status = f.status
    BY <2>1, LogTyped DEF Logged
  <2>3. g = [h EXCEPT !.boxes = {}] /\ to = "open"
    BY <1>4 DEF Edited, Target, Reopened
  <2> HIDE DEF g, h, l, to
  <2>4. g \in Files /\ g.log = h.log /\ g.status = h.status
    BY <2>2, <2>3 DEF Files
  <2>5. Grows(f, g)
    BY <2>1, <2>2, <2>4, OneMore
  <2> QED BY <2>2, <2>3, <2>4, <2>5 DEF g, to, Statuses
<1>5. CASE cmd = "done"
  <2>1. g = Closed(f, a, landing) /\ to = ClosesTo(f, landing) /\ f.boxes = Criteria
    BY <1>5 DEF Edited, Target, Agrees
  <2>2. to = IF landing = "pr" THEN f.status ELSE "done"
    BY <2>1 DEF ClosesTo
  <2> HIDE DEF g, to
  <2>3. g \in Files /\ Grows(f, g) /\ g.status = f.status /\ (landing = "direct" => Verified(g))
    BY <2>1, ClosedGrows
  <2> QED BY <1>0, <2>2, <2>3 DEF g, to, Grows, Statuses
<1> QED BY <1>1, <1>2, <1>3, <1>4, <1>5 DEF Edits

-----------------------------------------------------------------------------
(* What Sync does to the task of an event.                                  *)

LEMMA LogOnceGrows ==
  ASSUME TypeOK, None \notin Ids, NEW e \in Known, NEW f \in Files, NEW what \in Entries, what # "completed"
  PROVE  LET g == LogOnce(f, what, e) IN
         /\ g \in Files /\ Grows(f, g) /\ g.status = f.status /\ g.boxes = f.boxes
         /\ \E i \in DOMAIN g.log : g.log[i].event = e
<1> DEFINE l == Line(what, event[e].by, e)  g == LogOnce(f, what, e)
<1>1. l \in Lines /\ l.event = e /\ l.what = what
  BY DEF Line, Lines, TypeOK, Known, Events
<1>2. CASE \E i \in DOMAIN f.log : f.log[i].event = e
  BY <1>2, SameLog DEF LogOnce
<1>3. CASE ~ \E i \in DOMAIN f.log : f.log[i].event = e
  <2>1. g = [f EXCEPT !.log = Append(@, l)]
    BY <1>3 DEF LogOnce
  <2> HIDE DEF l, g
  <2>2. g \in Files /\ g.log = Append(f.log, l) /\ g.boxes = f.boxes /\ g.status = f.status
    BY <1>1, <2>1, LogTyped
  <2>3. Grows(f, g) /\ \E i \in DOMAIN g.log : g.log[i] = l
    BY <1>1, <1>3, <2>2, OneMore
  <2> QED BY <1>1, <2>2, <2>3 DEF g
<1> QED BY <1>2, <1>3

LEMMA MaterialisedGrows ==
  ASSUME TypeOK, Bounds, EventsAreComplete, NEW e \in Known, NEW f \in Files, Applies(e, f),
         f.status = "done" => Verified(f)
  PROVE  LET g == Materialised(e, f)  to == MovesTo(e, f) IN
         /\ g \in Files /\ Grows(f, g) /\ g.status = f.status
         /\ \E i \in DOMAIN g.log : g.log[i].event = e
         /\ to \in Statuses /\ (~RefusedClose(e, f) /\ to = "done" => Verified(g))
<1> DEFINE g == Materialised(e, f)  to == MovesTo(e, f)  by == event[e].by  landing == Landing[event[e].about]
           kind == event[e].kind
<1>a. event[e] \in Events /\ event[e].about \in Tasks /\ by \in Agents
  BY DEF TypeOK, Events, Known
<1>b. f.status \in Statuses /\ landing \in {"pr", "direct"} /\ None \notin Ids
  BY <1>a DEF Files, Bounds, TaskBounds
<1>c. /\ kind = "status" => event[e].want \in Statuses
      /\ kind \in {"claim", "release", "finding", "comment", "block", "status"}
  BY DEF Applies, EventsAreComplete
<1>0. /\ f.status \in Statuses /\ by \in Agents /\ landing \in {"pr", "direct"} /\ None \notin Ids
      /\ kind = "status" => event[e].want \in Statuses
      /\ kind \in {"claim", "release", "finding", "comment", "block", "status"}
  BY <1>a, <1>b, <1>c
<1>1. CASE kind \in {"claim", "release"}
  <2> DEFINE what == IF kind = "claim" THEN "claimed" ELSE "released"
             h == LogOnce(f, what, e)
  <2>1. g = [h EXCEPT !.owner = by] \/ g = [h EXCEPT !.owner = None]
    BY <1>1 DEF Materialised
  <2>2. to \in {"active", "open", f.status}
    BY <1>1 DEF MovesTo
  <2>3. what \in Entries /\ what # "completed"
    BY DEF Entries
  <2> HIDE DEF g, to, what, by, kind, landing
  <2>4. /\ h \in Files /\ Grows(f, h) /\ h.status = f.status
        /\ \E i \in DOMAIN h.log : h.log[i].event = e
    BY <1>0, <2>3, LogOnceGrows
  <2> HIDE DEF h
  <2>5. g \in Files /\ g.log = h.log /\ g.boxes = h.boxes /\ g.status = h.status
    BY <1>0, <2>1, <2>4 DEF Files
  <2>6. Grows(f, g)
    BY <2>4, <2>5, SameLog, GrowsOn
  <2> QED BY <1>0, <2>2, <2>4, <2>5, <2>6 DEF g, to, Statuses, Grows
<1>2. CASE kind \in {"finding", "comment", "block"} \/ (kind = "status" /\ event[e].want # "done")
  <2>1. g = LogOnce(f, kind, e) /\ kind \in Entries /\ kind # "completed"
    BY <1>2 DEF Materialised, Entries
  <2>2. to \in {"blocked", f.status} \/ (kind = "status" /\ to = event[e].want /\ to # "done")
    <3>1. CASE kind = "block"
      BY <3>1 DEF MovesTo
    <3>2. CASE kind \in {"finding", "comment"}
      BY <3>2 DEF MovesTo
    <3>3. CASE kind = "status" /\ event[e].want # "done"
      BY <3>3 DEF MovesTo
    <3> QED BY <1>2, <3>1, <3>2, <3>3
  <2> HIDE DEF g, to, by, kind, landing
  <2>3. /\ g \in Files /\ Grows(f, g) /\ g.status = f.status
        /\ \E i \in DOMAIN g.log : g.log[i].event = e
    BY <1>0, <2>1, LogOnceGrows
  <2> QED BY <1>0, <2>2, <2>3 DEF g, to, Statuses, Grows
<1>3. CASE kind = "status" /\ event[e].want = "done"
  <2> DEFINE h == LogOnce(f, "proposed", e)
  <2>1. /\ h \in Files /\ Grows(f, h) /\ h.status = f.status /\ h.boxes = f.boxes
        /\ \E i \in DOMAIN h.log : h.log[i].event = e
    BY <1>0, LogOnceGrows DEF Entries
  <2>2. f.boxes = Criteria
    BY <1>3 DEF Applies
  <2>3. g = IF HasLine(h, "completed") THEN h ELSE Closed(h, by, landing)
    BY <1>3 DEF Materialised, ProposedClose
  <2>4. HasLine(f, "completed") <=> HasLine(h, "completed")
    <3>1. HasLine(f, "completed") => HasLine(h, "completed")
      BY <2>1 DEF HasLine, Grows
    <3>2. CASE \E i \in DOMAIN f.log : f.log[i].event = e
      BY <3>2 DEF LogOnce
    <3>3. CASE ~ \E i \in DOMAIN f.log : f.log[i].event = e
      <4> DEFINE l == Line("proposed", by, e)
      <4>1. h.log = Append(f.log, l) /\ f.log \in Seq(Lines) /\ l.what = "proposed"
        BY <3>3 DEF LogOnce, Line, Files
      <4> HIDE DEF h, l
      <4> QED BY <3>1, <4>1 DEF HasLine
    <3> QED BY <3>1, <3>2, <3>3
  <2>5. to = IF HasLine(f, "completed") THEN "done" ELSE IF landing = "pr" THEN f.status ELSE "done"
    BY <1>3 DEF MovesTo, ClosesTo
  <2>6. RefusedClose(e, f) <=> landing = "pr" /\ ~HasLine(f, "completed")
    BY <1>3 DEF RefusedClose
  <2> HIDE DEF g, to, by, kind, landing, h
  <2>7. CASE HasLine(h, "completed")
    BY <1>0, <2>1, <2>2, <2>3, <2>4, <2>5, <2>7 DEF g, to, Verified, Statuses
  <2>8. CASE ~HasLine(h, "completed")
    <3>1. g \in Files /\ Grows(h, g) /\ g.status = h.status /\ (landing = "direct" => Verified(g))
      BY <1>0, <2>1, <2>2, <2>3, <2>8, ClosedGrows
    <3>2. Grows(f, g)
      BY <2>1, <3>1, GrowsOn
    <3> QED BY <1>0, <2>1, <2>4, <2>5, <2>6, <2>8, <3>1, <3>2 DEF g, to, Statuses, Grows
  <2> QED BY <2>7, <2>8
<1>4. \/ kind \in {"claim", "release"}
      \/ kind \in {"finding", "comment", "block"} \/ (kind = "status" /\ event[e].want # "done")
      \/ kind = "status" /\ event[e].want = "done"
  BY <1>0
<1> QED BY <1>1, <1>2, <1>3, <1>4

-----------------------------------------------------------------------------
(* What a step of one process may do to what the others rely on.            *)

TasksGrow ==
    /\ task' \in [Tasks -> Files]
    /\ \A t \in Tasks : /\ Grows(task[t], task'[t])
                        /\ task'[t].status = "done" => task[t].status = "done" \/ Verified(task'[t])

EventsStay ==
    /\ event' \in [Ids -> Events \cup {None}]
    /\ \A e \in Known :
          /\ e \in Known' /\ event'[e].kind = event[e].kind /\ event'[e].about = event[e].about
          /\ event'[e].want = event[e].want
          /\ event[e].applied => event'[e].applied
          /\ event[e].dismissed => event'[e].dismissed
          /\ event'[e].applied /\ Syncable(e) => event[e].applied \/ LinesOf(e) # {}
          /\ event'[e].archived => event[e].archived \/ event'[e].applied \/ event'[e].dismissed
    /\ \A e \in Known' \ Known :
          /\ event'[e].kind = "run" <=> event'[e].applied
          /\ event'[e].kind = "status" => event'[e].want \in Statuses
          /\ ~event'[e].archived

NotesStay ==
    /\ notes' \in [Ids -> 0 .. 1]
    /\ \A e \in Ids : notes'[e] = notes[e] \/ (e \in Known /\ (event[e].kind = "finding" \/ event'[e].applied))

OthersStay(p) ==
    /\ lock' \in [Tasks -> Procs \cup {None}] /\ NotesStay /\ DOMAIN run' = Procs
    /\ DOMAIN run'[p] = DOMAIN Idle
    /\ run'[p].pc \in {"idle", "lock", "move", "index", "sync", "syncmove", "mark", "journal"}
    /\ \A q \in Procs \ {p} : run'[q] = run[q] /\ \A t \in Tasks : lock[t] = q => lock'[t] = q

LEMMA Unmoved ==
  ASSUME TypeOK
  PROVE  task' = task => TasksGrow
<1>1. ASSUME NEW t \in Tasks PROVE task[t] \in Files /\ Grows(task[t], task[t])
  BY DEF TypeOK, Grows
<1> QED BY <1>1 DEF TasksGrow, TypeOK

LEMMA Unwritten ==
  ASSUME TypeOK
  PROVE  event' = event => EventsStay
<1>1. event' = event => Known' = Known
  BY DEF Known
<1> QED BY <1>1 DEF EventsStay, TypeOK

\* A line about an event stays in the log.
LEMMA StaysLogged ==
  ASSUME TypeOK, TasksGrow, EventsStay, NEW e \in Known, LinesOf(e) # {}
  PROVE  LinesOf(e)' # {}
<1>1. event[e].about \in Tasks /\ event'[e].about = event[e].about
  BY DEF TypeOK, Events, Known, EventsStay
<1>2. PICK i \in DOMAIN task[event[e].about].log : task[event[e].about].log[i].event = e
  BY DEF LinesOf
<1>3. i \in DOMAIN task'[event[e].about].log /\ task'[event[e].about].log[i].event = e
  BY <1>1, <1>2 DEF TasksGrow, Grows
<1> QED BY <1>1, <1>3 DEF LinesOf

LEMMA StepKeeps ==
  ASSUME EventInv, Bounds, NEW p \in Procs, TasksGrow, EventsStay, OthersStay(p), Holds(p)'
  PROVE  EventInv'
<1>1. TypeOK'
  BY DEF EventInv, TypeOK, TasksGrow, EventsStay, OthersStay, NotesStay
<1>2. \A e \in Known : event[e] \in Events /\ event[e].about \in Tasks /\ event'[e].about = event[e].about
  BY DEF EventInv, TypeOK, Events, Known, EventsStay
<1>3. Known \subseteq Known'
  BY DEF EventsStay
<1>4. ASSUME NEW q \in Procs \ {p} PROVE CommandHolds(q)'
  <2>1. CommandHolds(q) /\ run'[q] = run[q] /\ \A t \in Tasks : lock[t] = q => lock'[t] = q
    BY DEF EventInv, WorkHolds, Holds, OthersStay
  <2>2. \A t \in Tasks : Verified(task[t]) => Verified(task'[t])
    BY DEF TasksGrow, Grows
  <2> QED BY <2>1, <2>2 DEF CommandHolds
<1>5. ASSUME NEW q \in Procs \ {p} PROVE SyncHolds(q)'
  <2>1. SyncHolds(q) /\ run'[q] = run[q] /\ \A t \in Tasks : lock[t] = q => lock'[t] = q
    BY DEF EventInv, WorkHolds, Holds, OthersStay
  <2>2. \A t \in Tasks : Verified(task[t]) => Verified(task'[t])
    BY DEF TasksGrow, Grows
  <2>3. \A e \in Known : LinesOf(e) # {} => LinesOf(e)' # {}
    BY StaysLogged DEF EventInv
  <2>4. (run[q].pc \in {"index", "sync", "syncmove", "mark"} => run[q].todo \subseteq Known)'
    BY <1>3, <2>1 DEF SyncHolds
  <2>5. (run[q].pc \in {"syncmove", "mark"} => run[q].event \in Known /\ LinesOf(run[q].event) # {})'
    <3> SUFFICES ASSUME run[q].pc \in {"syncmove", "mark"}
                 PROVE  run[q].event \in Known' /\ LinesOf(run[q].event)' # {}
      BY <2>1 DEF LinesOf
    <3> QED BY <1>3, <2>1, <2>3 DEF SyncHolds
  <2>6. (run[q].pc = "syncmove" =>
          /\ lock[event[run[q].event].about] = q /\ run[q].to \in Statuses
          /\ run[q].to = "done" => Verified(task[event[run[q].event].about]))'
    <3> SUFFICES ASSUME run[q].pc = "syncmove"
                 PROVE  /\ lock'[event'[run[q].event].about] = q /\ run[q].to \in Statuses
                        /\ run[q].to = "done" => Verified(task'[event'[run[q].event].about])
      BY <2>1
    <3> QED BY <1>2, <2>1, <2>2 DEF SyncHolds
  <2> QED BY <2>4, <2>5, <2>6 DEF SyncHolds
<1>6. ASSUME NEW q \in Procs \ {p} PROVE JournalHolds(q)'
  <2>1. JournalHolds(q) /\ run'[q] = run[q]
    BY DEF EventInv, WorkHolds, Holds, OthersStay
  <2> QED BY <1>3, <2>1 DEF JournalHolds
<1>7. WorkHolds'
  BY <1>4, <1>5, <1>6 DEF WorkHolds, Holds
<1>8. EventsAreComplete'
  <2>1. ASSUME NEW e \in Known
        PROVE  /\ event'[e].kind = "run" => event'[e].applied
               /\ event'[e].kind = "status" => event'[e].want \in Statuses
    BY DEF EventInv, EventsAreComplete, Journal, EventsStay
  <2>2. ASSUME NEW e \in Known' \ Known
        PROVE  /\ event'[e].kind = "run" => event'[e].applied
               /\ event'[e].kind = "status" => event'[e].want \in Statuses
    BY DEF EventsStay
  <2> QED BY <2>1, <2>2 DEF EventsAreComplete, Journal
<1>9. AppliedIsLogged'
  <2>1. ASSUME NEW e \in Known, event'[e].applied, Syncable(e)' PROVE LinesOf(e)' # {}
    <3>1. Syncable(e)
      BY <2>1 DEF Syncable, EventsStay
    <3>2. LinesOf(e) # {}
      BY <2>1, <3>1 DEF EventsStay, EventInv, AppliedIsLogged
    <3> QED BY <3>2, StaysLogged DEF EventInv
  <2>2. ASSUME NEW e \in Known' \ Known, event'[e].applied PROVE ~Syncable(e)'
    BY <2>2 DEF EventsStay, Syncable
  <2> QED BY <2>1, <2>2 DEF AppliedIsLogged
<1>10. LinesAreSingle'
  BY DEF EventInv, LinesAreSingle, TasksGrow, Grows
<1>11. DoneIsVerified'
  BY DEF EventInv, DoneIsVerified, TasksGrow, Grows
<1>12. ArchivedIsFinished'
  BY DEF EventInv, ArchivedIsFinished, EventsStay
<1>13. NotesAreMade'
  <2> SUFFICES ASSUME NEW e \in Ids, notes'[e] # 0
               PROVE  e \in Known' /\ (event'[e].kind = "finding" \/ event'[e].applied)
    BY DEF NotesAreMade
  <2>1. e \in Known /\ (event[e].kind = "finding" \/ event[e].applied \/ event'[e].applied)
    BY DEF NotesAreMade, EventInv, OthersStay, NotesStay
  <2> QED BY <2>1 DEF EventsStay
<1> QED BY <1>1, <1>7, <1>8, <1>9, <1>10, <1>11, <1>12, <1>13 DEF EventInv

-----------------------------------------------------------------------------
(* The steps of a command.                                                  *)

LEMMA IdleHolds ==
  ASSUME NEW p \in Procs, run'[p].pc = "idle"
  PROVE  Holds(p)'
  BY DEF Holds, CommandHolds, SyncHolds, JournalHolds

\* The others are not touched by a step that changes only what p does.
LEMMA MineOnly ==
  ASSUME TypeOK, NEW p \in Procs, NEW r, run' = [run EXCEPT ![p] = r], DOMAIN r = DOMAIN Idle,
         r.pc \in {"idle", "lock", "move", "index", "sync", "syncmove", "mark", "journal"},
         NotesStay,
         lock' = lock \/ (\E t \in Tasks : lock' = [lock EXCEPT ![t] = p] /\ lock[t] = None /\ None \notin Procs)
           \/ (\E t \in Tasks : lock' = [lock EXCEPT ![t] = None] /\ lock[t] = p)
  PROVE  OthersStay(p) /\ run'[p] = r
<1>1. DOMAIN run' = Procs /\ run'[p] = r /\ \A q \in Procs \ {p} : run'[q] = run[q]
  BY DEF TypeOK
<1>2. lock' \in [Tasks -> Procs \cup {None}] /\ \A q \in Procs \ {p}, t \in Tasks : lock[t] = q => lock'[t] = q
  <2>1. CASE lock' = lock
    BY <2>1 DEF TypeOK
  <2>2. ASSUME NEW t \in Tasks, lock' = [lock EXCEPT ![t] = p], lock[t] = None, None \notin Procs PROVE <1>2!:
    BY <2>2 DEF TypeOK
  <2>3. ASSUME NEW t \in Tasks, lock' = [lock EXCEPT ![t] = None], lock[t] = p PROVE <1>2!:
    BY <2>3 DEF TypeOK
  <2> QED BY <2>1, <2>2, <2>3
<1> QED BY <1>1, <1>2 DEF OthersStay

LEMMA IdleTyped == DOMAIN Idle = DOMAIN Idle /\ Idle.pc = "idle"
  BY DEF Idle

LEMMA LookKeeps ==
  ASSUME EventInv, Bounds, NEW p \in Procs, NEW cmd \in Edits, NEW t \in Tasks, Look(p, cmd, t), UNCHANGED evars
  PROVE  EventInv'
<1> DEFINE r == Locking(cmd, t)
<1>1. run' = [run EXCEPT ![p] = r] /\ DOMAIN r = DOMAIN Idle /\ r.pc = "lock" /\ r.task = t /\ r.cmd = cmd
  BY DEF Look, Locking, Idle
<1>2. task' = task /\ event' = event /\ lock' = lock /\ notes' = notes
  BY DEF Look, evars
<1> HIDE DEF r
<1>3. OthersStay(p) /\ run'[p] = r
  BY <1>1, <1>2, MineOnly DEF EventInv, TypeOK, NotesStay
<1>4. Holds(p)'
  BY <1>1, <1>3 DEF Holds, CommandHolds, SyncHolds, JournalHolds
<1> QED BY <1>2, <1>3, <1>4, Unmoved, Unwritten, StepKeeps DEF EventInv

LEMMA SaveKeeps ==
  ASSUME EventInv, Bounds, NEW p \in Procs, Save(p), UNCHANGED evars
  PROVE  EventInv'
<1> DEFINE t == run[p].task  f == task[t]  cmd == run[p].cmd
           owner == run[p].seen  landing == Landing[t]  who == Who[p]
           g == Edited(cmd, who, f, owner, landing)  to == Target(cmd, f, landing)
<1>1. /\ t \in Tasks /\ f \in Files /\ cmd \in Edits /\ lock[t] = None /\ None \notin Procs
      /\ event' = event /\ notes' = notes
      /\ landing \in {"pr", "direct"} /\ who \in Agents /\ (f.status = "done" => Verified(f))
  BY DEF Save, evars, EventInv, TypeOK, WorkHolds, Holds, CommandHolds, DoneIsVerified, Bounds, TaskBounds
<1>2. CASE Agrees(cmd, who, f, owner) /\ Len(f.log) < MaxLog
  <2> DEFINE r == [run[p] EXCEPT !.pc = "move", !.to = to]
  <2>1. /\ task' = [task EXCEPT ![t] = g] /\ lock' = [lock EXCEPT ![t] = p]
        /\ run' = [run EXCEPT ![p] = r]
    BY <1>2 DEF Save, Fresh
  <2>2. /\ g \in Files /\ g.status = f.status /\ Grows(f, g)
        /\ to \in Statuses /\ (to = "done" => Verified(g))
    <3> HIDE DEF t, f, cmd, owner, landing, who
    <3> QED BY <1>1, <1>2, EditGrows
  <2>3. DOMAIN r = DOMAIN Idle /\ r.pc = "move" /\ r.to = to /\ r.task = t /\ r.cmd = cmd
    BY DEF EventInv, TypeOK, Idle
  <2> HIDE DEF g, r, to
  <2>4. OthersStay(p) /\ run'[p] = r
    BY <1>1, <2>1, <2>3, MineOnly DEF EventInv, TypeOK, NotesStay
  <2>5. \A s \in Tasks : task[s] \in Files /\ Grows(task[s], task[s])
    BY DEF EventInv, TypeOK, Grows
  <2>6. TasksGrow
    BY <1>1, <2>1, <2>2, <2>5 DEF EventInv, TypeOK, TasksGrow
  <2>7. Holds(p)'
    <3>1. task'[t] = g /\ lock'[t] = p
      BY <1>1, <2>1 DEF EventInv, TypeOK
    <3> HIDE DEF t
    <3> QED BY <1>1, <2>2, <2>3, <2>4, <3>1 DEF Holds, CommandHolds, SyncHolds, JournalHolds
  <2> QED BY <1>1, <2>4, <2>6, <2>7, Unwritten, StepKeeps DEF EventInv
<1>3. CASE ~(Agrees(cmd, who, f, owner) /\ Len(f.log) < MaxLog)
  <2>1. task' = task /\ lock' = lock /\ run' = [run EXCEPT ![p] = Idle]
    BY <1>3 DEF Save, Fresh
  <2>2. OthersStay(p) /\ run'[p] = Idle
    BY <1>1, <2>1, IdleTyped, MineOnly DEF EventInv, TypeOK, NotesStay
  <2> QED BY <1>1, <2>1, <2>2, IdleTyped, IdleHolds, Unmoved, Unwritten, StepKeeps DEF EventInv
<1> QED BY <1>2, <1>3

\* A file moves with its log and its boxes.
LEMMA MovedGrows ==
  ASSUME EventInv, NEW t \in Tasks, NEW to \in Statuses, to = "done" => Verified(task[t]),
         task' = [task EXCEPT ![t].status = to]
  PROVE  TasksGrow
<1> DEFINE g == [task[t] EXCEPT !.status = to]
<1>1. g \in Files /\ g.log = task[t].log /\ g.boxes = task[t].boxes /\ g.status = to /\ task[t] \in Files
  BY DEF EventInv, TypeOK, Files
<1>2. task' = [task EXCEPT ![t] = g]
  OBVIOUS
<1> HIDE DEF g
<1>3. Grows(task[t], g)
  BY <1>1, SameLog
<1>4. to = "done" => Verified(g)
  BY <1>3 DEF Grows
<1>5. \A s \in Tasks : task[s] \in Files /\ Grows(task[s], task[s])
  BY DEF EventInv, TypeOK, Grows
<1> QED BY <1>1, <1>2, <1>3, <1>4, <1>5 DEF EventInv, TypeOK, TasksGrow

LEMMA MoveKeeps ==
  ASSUME EventInv, Bounds, NEW p \in Procs, Move(p), UNCHANGED evars
  PROVE  EventInv'
<1> DEFINE t == run[p].task  to == run[p].to
<1>1. t \in Tasks /\ to \in Statuses /\ lock[t] = p /\ (to = "done" => Verified(task[t]))
  BY DEF Move, EventInv, WorkHolds, Holds, CommandHolds
<1>2. /\ task' = [task EXCEPT ![t].status = to] /\ lock' = [lock EXCEPT ![t] = None]
      /\ run' = [run EXCEPT ![p] = Idle] /\ event' = event /\ notes' = notes
  BY DEF Move, evars
<1> HIDE DEF t, to
<1>3. TasksGrow
  BY <1>1, <1>2, MovedGrows
<1>4. OthersStay(p) /\ run'[p] = Idle
  BY <1>1, <1>2, IdleTyped, MineOnly DEF EventInv, TypeOK, NotesStay
<1> QED BY <1>2, <1>3, <1>4, IdleTyped, IdleHolds, Unwritten, StepKeeps DEF EventInv

LEMMA DieKeeps ==
  ASSUME EventInv, Bounds, NEW p \in Procs, Die(p), UNCHANGED evars
  PROVE  EventInv'
<1>1. /\ task' = task /\ event' = event /\ notes' = notes /\ run' = [run EXCEPT ![p] = Idle]
      /\ lock' = [t \in Tasks |-> IF lock[t] = p THEN None ELSE lock[t]]
  BY DEF Die, evars
<1>2. OthersStay(p) /\ run'[p] = Idle
  BY <1>1, IdleTyped DEF EventInv, TypeOK, OthersStay, NotesStay
<1> QED BY <1>1, <1>2, IdleTyped, IdleHolds, Unmoved, Unwritten, StepKeeps DEF EventInv

-----------------------------------------------------------------------------
(* Appending, answering and dismissing.                                     *)

LEMMA AppendedStays ==
  ASSUME EventInv, Bounds, NEW kind \in EventKinds, NEW a \in Agents, NEW t \in Tasks,
         NEW want \in Statuses \cup {None},
         kind = "status" => want \in Statuses, Appended(kind, a, t, want)
  PROVE  EventsStay
<1> DEFINE n == Entry(kind, a, t, want)
<1>1. PICK e \in Ids \ Known : event' = [event EXCEPT ![e] = n]
  BY DEF Appended, Oldest
<1>2. n \in Events /\ n # None
  <2>1. (kind = "run") \in BOOLEAN
    OBVIOUS
  <2>2. None \notin Events
    BY DEF Bounds
  <2>3. n \in Events
    BY <2>1 DEF Entry, Events
  <2> QED BY <2>2, <2>3
<1>3. /\ n.kind = "run" <=> n.applied
      /\ n.kind = "status" => n.want \in Statuses
      /\ ~n.archived
  BY DEF Entry
<1> HIDE DEF n
<1>4. /\ event' \in [Ids -> Events \cup {None}] /\ Known' = Known \cup {e} /\ event'[e] = n
      /\ \A d \in Known : event'[d] = event[d]
  BY <1>1, <1>2 DEF Known, EventInv, TypeOK
<1>5. \A d \in Known : event[d].archived => event[d].applied \/ event[d].dismissed
  BY DEF EventInv, ArchivedIsFinished
<1> QED BY <1>3, <1>4, <1>5 DEF EventsStay

LEMMA ReportKeeps ==
  ASSUME EventInv, Bounds, NEW p \in Procs, NEW kind \in Kinds[p], NEW t \in Tasks, Report(p, kind, t)
  PROVE  EventInv'
<1>1. kind \in EventKinds /\ Who[p] \in Agents
  BY DEF Bounds, TaskBounds
<1> DEFINE want == IF kind = "status" THEN "active" ELSE None
<1>2. Appended(kind, Who[p], t, want) /\ task' = task /\ lock' = lock /\ run' = run /\ notes' = notes /\ run[p] = Idle
  BY DEF Report, taskVars
<1>3. want \in Statuses \cup {None} /\ (kind = "status" => want \in Statuses)
  BY DEF Statuses
<1> HIDE DEF want
<1>4. EventsStay
  BY <1>1, <1>2, <1>3, AppendedStays
<1>5. OthersStay(p) /\ run'[p].pc = "idle"
  BY <1>2, IdleTyped DEF OthersStay, EventInv, TypeOK, NotesStay
<1> QED BY <1>2, <1>4, <1>5, IdleHolds, Unmoved, StepKeeps DEF EventInv

LEMMA ProposeKeeps ==
  ASSUME EventInv, Bounds, NEW p \in Procs, NEW cmd \in Proposable, NEW t \in Tasks, Propose(p, cmd, t)
  PROVE  EventInv'
<1> DEFINE kind == IF cmd = "done" THEN "status" ELSE cmd  want == IF cmd = "done" THEN "done" ELSE None
<1>1. kind \in EventKinds /\ Who[p] \in Agents
  BY DEF Bounds, TaskBounds, EventKinds, Proposable
<1>2. Appended(kind, Who[p], t, want) /\ task' = task /\ lock' = lock /\ run' = run /\ notes' = notes /\ run[p] = Idle
  BY DEF Propose, taskVars
<1>3. want \in Statuses \cup {None} /\ (kind = "status" => want \in Statuses)
  BY DEF Statuses, Proposable
<1> HIDE DEF want, kind
<1>4. EventsStay
  BY <1>1, <1>2, <1>3, AppendedStays
<1>5. OthersStay(p) /\ run'[p].pc = "idle"
  BY <1>2, IdleTyped DEF OthersStay, EventInv, TypeOK, NotesStay
<1> QED BY <1>2, <1>4, <1>5, IdleHolds, Unmoved, StepKeeps DEF EventInv

\* A process that goes on to change a task is about to take its lock.
LEMMA LockHolds ==
  ASSUME NEW p \in Procs, NEW cmd \in Edits, NEW t \in Tasks, run'[p].pc = "lock", run'[p].cmd = cmd, run'[p].task = t
  PROVE  Holds(p)'
  BY DEF Holds, CommandHolds, SyncHolds, JournalHolds

LEMMA AskKeeps ==
  ASSUME EventInv, Bounds, NEW p \in Procs, NEW t \in Tasks, Ask(p, t)
  PROVE  EventInv'
<1> DEFINE r == Locking("ask", t)
<1>1. Appended("help", Who[p], t, None) /\ task' = task /\ lock' = lock /\ notes' = notes /\ run[p] = Idle
  BY DEF Ask
<1>2. EventsStay
  BY <1>1, AppendedStays DEF Bounds, TaskBounds, EventKinds
<1>3. run' = run \/ run' = [run EXCEPT ![p] = r]
  BY DEF Ask
<1>4. CASE run' = run
  <2>1. OthersStay(p) /\ run'[p].pc = "idle"
    BY <1>1, <1>4, IdleTyped DEF OthersStay, EventInv, TypeOK, NotesStay
  <2> QED BY <1>1, <1>2, <2>1, IdleHolds, Unmoved, StepKeeps DEF EventInv
<1>5. CASE run' = [run EXCEPT ![p] = r]
  <2>1. DOMAIN r = DOMAIN Idle /\ r.pc = "lock" /\ r.cmd = "ask" /\ r.task = t
    BY DEF Locking, Idle
  <2> HIDE DEF r
  <2>2. OthersStay(p) /\ run'[p] = r
    BY <1>1, <1>5, <2>1, MineOnly DEF EventInv, TypeOK, NotesStay
  <2>3. Holds(p)'
    BY <2>1, <2>2, LockHolds DEF Edits
  <2> QED BY <1>1, <1>2, <2>2, <2>3, Unmoved, StepKeeps DEF EventInv
<1> QED BY <1>3, <1>4, <1>5

\* Marking one event, applied, dismissed or archived.
LEMMA MarkedStays ==
  ASSUME EventInv, NEW e \in Known, NEW n, n \in Events, event' = [event EXCEPT ![e] = n], None \notin Events,
         n.kind = event[e].kind, n.about = event[e].about, n.want = event[e].want,
         event[e].applied => n.applied, event[e].dismissed => n.dismissed,
         n.applied /\ Syncable(e) => LinesOf(e) # {},
         n.archived => n.applied \/ n.dismissed
  PROVE  EventsStay
<1>1. event' \in [Ids -> Events \cup {None}] /\ event'[e] = n /\ \A d \in Known \ {e} : event'[d] = event[d]
  BY DEF EventInv, TypeOK, Known
<1>2. Known' = Known
  BY DEF EventInv, TypeOK, Known
<1>3. \A d \in Known : event[d].archived => event[d].applied \/ event[d].dismissed
  BY DEF EventInv, ArchivedIsFinished
<1> QED BY <1>1, <1>2, <1>3 DEF EventsStay

LEMMA Applying ==
  ASSUME TypeOK, NEW e \in Known
  PROVE  /\ LET n == [event[e] EXCEPT !.applied = TRUE] IN
              /\ n \in Events /\ n.kind = event[e].kind /\ n.about = event[e].about /\ n.want = event[e].want
              /\ n.applied /\ n.dismissed = event[e].dismissed /\ n.archived = event[e].archived
         /\ LET n == [event[e] EXCEPT !.dismissed = TRUE] IN
              /\ n \in Events /\ n.kind = event[e].kind /\ n.about = event[e].about /\ n.want = event[e].want
              /\ n.applied = event[e].applied /\ n.dismissed /\ n.archived = event[e].archived
         /\ LET n == [event[e] EXCEPT !.archived = TRUE] IN
              /\ n \in Events /\ n.kind = event[e].kind /\ n.about = event[e].about /\ n.want = event[e].want
              /\ n.applied = event[e].applied /\ n.dismissed = event[e].dismissed /\ n.archived
  BY DEF TypeOK, Known, Events

LEMMA AnswerKeeps ==
  ASSUME EventInv, Bounds, NEW p \in Procs, NEW q \in Ids, Answer(p, q)
  PROVE  EventInv'
<1> DEFINE t == event[q].about  n == [event[q] EXCEPT !.applied = TRUE]
           r == Locking("answer", t)
<1>1. /\ q \in Known /\ event[q].kind = "help" /\ event' = [event EXCEPT ![q] = n]
      /\ task' = task /\ lock' = lock /\ run[p] = Idle /\ notes' = [notes EXCEPT ![q] = @ + 1] /\ Pending(q)
      /\ run' = run \/ run' = [run EXCEPT ![p] = r]
  BY DEF Answer
<1>2. t \in Tasks
  BY <1>1 DEF EventInv, TypeOK, Known, Events
<1>3. EventsStay
  <2>1. /\ n \in Events /\ n.kind = event[q].kind /\ n.about = event[q].about /\ n.want = event[q].want
        /\ n.applied /\ n.dismissed = event[q].dismissed
    BY <1>1, Applying DEF EventInv
  <2>2. ~Syncable(q) /\ None \notin Events
    BY <1>1 DEF Syncable, Bounds
  <2> HIDE DEF n
  <2> QED BY <1>1, <2>1, <2>2, MarkedStays
<1>4. NotesStay
  <2>1. event'[q].applied
    BY <1>1, Applying DEF EventInv, TypeOK
  <2>2. notes[q] = 0
    BY <1>1 DEF EventInv, NotesAreMade, Pending
  <2> QED BY <1>1, <2>1, <2>2 DEF NotesStay, EventInv, TypeOK
<1>5. CASE run' = run
  <2>1. OthersStay(p) /\ run'[p].pc = "idle"
    BY <1>1, <1>4, <1>5, IdleTyped DEF OthersStay, EventInv, TypeOK, NotesStay
  <2> QED BY <1>1, <1>3, <2>1, IdleHolds, Unmoved, StepKeeps DEF EventInv
<1>6. CASE run' = [run EXCEPT ![p] = r]
  <2>1. DOMAIN r = DOMAIN Idle /\ r.pc = "lock" /\ r.cmd = "answer" /\ r.task = t
    BY DEF Locking, Idle
  <2> HIDE DEF r, t
  <2>2. OthersStay(p) /\ run'[p] = r
    BY <1>1, <1>4, <1>6, <2>1, MineOnly DEF EventInv, TypeOK, NotesStay
  <2>3. Holds(p)'
    BY <1>2, <2>1, <2>2, LockHolds DEF Edits
  <2> QED BY <1>1, <1>3, <2>2, <2>3, Unmoved, StepKeeps DEF EventInv
<1> QED BY <1>1, <1>5, <1>6

LEMMA DismissKeeps ==
  ASSUME EventInv, Bounds, NEW p \in Procs, NEW e \in Ids, Dismiss(p, e)
  PROVE  EventInv'
<1> DEFINE n == [event[e] EXCEPT !.dismissed = TRUE]
<1>1. /\ e \in Known /\ event' = [event EXCEPT ![e] = n] /\ ~event[e].applied
      /\ task' = task /\ lock' = lock /\ run' = run /\ run[p] = Idle /\ notes' = notes
  BY DEF Dismiss, taskVars, Pending
<1>2. /\ n \in Events /\ n.kind = event[e].kind /\ n.about = event[e].about /\ n.want = event[e].want
      /\ n.applied = event[e].applied /\ n.dismissed /\ None \notin Events
  BY <1>1, Applying DEF EventInv, Bounds
<1> HIDE DEF n
<1>3. EventsStay
  BY <1>1, <1>2, MarkedStays
<1>4. OthersStay(p) /\ run'[p].pc = "idle"
  BY <1>1, IdleTyped DEF OthersStay, EventInv, TypeOK, NotesStay
<1> QED BY <1>1, <1>3, <1>4, IdleHolds, Unmoved, StepKeeps DEF EventInv

-----------------------------------------------------------------------------
(* The steps of Sync.                                                       *)

\* Where a sync starts or stands between two events.
LEMMA ListHolds ==
  ASSUME NEW p \in Procs, run'[p].pc \in {"index", "sync"}, run'[p].todo \subseteq Known, Known' = Known
  PROVE  Holds(p)'
  BY DEF Holds, CommandHolds, SyncHolds, JournalHolds

LEMMA SyncListKeeps ==
  ASSUME EventInv, Bounds, NEW p \in Procs, SyncList(p)
  PROVE  EventInv'
<1> DEFINE todo == {e \in Known : Pending(e)}  r == [Idle EXCEPT !.pc = "index", !.cmd = "sync", !.todo = todo]
<1>1. run' = [run EXCEPT ![p] = r] /\ task' = task /\ event' = event /\ lock' = lock /\ notes' = notes
  BY DEF SyncList, evars
<1>2. DOMAIN r = DOMAIN Idle /\ r.pc = "index" /\ r.todo = todo /\ todo \subseteq Known
  BY DEF Idle
<1> HIDE DEF r, todo
<1>3. OthersStay(p) /\ run'[p] = r
  BY <1>1, <1>2, MineOnly DEF EventInv, TypeOK, NotesStay
<1>4. Known' = Known
  BY <1>1 DEF Known
<1>5. Holds(p)'
  BY <1>2, <1>3, <1>4, ListHolds
<1> QED BY <1>1, <1>3, <1>5, Unmoved, Unwritten, StepKeeps DEF EventInv

LEMMA SyncIndexKeeps ==
  ASSUME EventInv, Bounds, NEW p \in Procs, SyncIndex(p)
  PROVE  EventInv'
<1> DEFINE r == [run[p] EXCEPT !.pc = "sync", !.index = task]
<1>1. run' = [run EXCEPT ![p] = r] /\ task' = task /\ event' = event /\ lock' = lock /\ notes' = notes
  BY DEF SyncIndex, evars
<1>2. DOMAIN r = DOMAIN Idle /\ r.pc = "sync" /\ r.todo = run[p].todo /\ run[p].todo \subseteq Known
  BY DEF Idle, SyncIndex, EventInv, TypeOK, WorkHolds, Holds, SyncHolds
<1> HIDE DEF r
<1>3. OthersStay(p) /\ run'[p] = r
  BY <1>1, <1>2, MineOnly DEF EventInv, TypeOK, NotesStay
<1>4. Known' = Known
  BY <1>1 DEF Known
<1>5. Holds(p)'
  BY <1>2, <1>3, <1>4, ListHolds
<1> QED BY <1>1, <1>3, <1>5, Unmoved, Unwritten, StepKeeps DEF EventInv

\* Going on to the next event.
LEMMA PoppedTyped ==
  ASSUME TypeOK, NEW p \in Procs, NEW e
  PROVE  DOMAIN Popped(p, e) = DOMAIN Idle /\ Popped(p, e).pc = "sync" /\ Popped(p, e).todo = run[p].todo \ {e}
  BY DEF TypeOK, Popped, Idle

LEMMA SyncSaveKeeps ==
  ASSUME EventInv, Bounds, NEW p \in Procs, NEW e \in run[p].todo, SyncSave(p, e)
  PROVE  EventInv'
<1> DEFINE t == event[e].about  f == task[t]  index == run[p].index
           g == Materialised(e, f)  to == MovesTo(e, f)
           Go == CanMutate(Who[p], index[t].owner) /\ Applies(e, f) /\ Len(f.log) + 1 < MaxLog
<1>1. /\ run[p].pc = "sync" /\ lock[t] = None /\ event' = event /\ run[p].todo \subseteq Known
      /\ IF Go THEN /\ task' = [task EXCEPT ![t] = g]
                    /\ notes' = IF event[e].kind = "finding" /\ notes[e] = 0 THEN [notes EXCEPT ![e] = 1] ELSE notes
                    /\ IF RefusedClose(e, f)
                       THEN run' = [run EXCEPT ![p] = Idle] /\ UNCHANGED lock
                       ELSE /\ lock' = [lock EXCEPT ![t] = p]
                            /\ run' = [run EXCEPT ![p].pc = "syncmove", ![p].event = e, ![p].to = to]
               ELSE run' = [run EXCEPT ![p] = Popped(p, e)] /\ UNCHANGED <<task, lock, notes>>
  BY DEF SyncSave, Fresh, EventInv, WorkHolds, Holds, SyncHolds
<1>2. /\ e \in Known /\ event[e] \in Events /\ t \in Tasks /\ None \notin Procs
      /\ f \in Files /\ (f.status = "done" => Verified(f)) /\ Known' = Known
  <2>1. e \in Known /\ event[e] \in Events /\ t \in Tasks
    BY <1>1 DEF EventInv, TypeOK, Known, Events
  <2>2. f \in Files /\ (f.status = "done" => Verified(f))
    BY <2>1 DEF EventInv, TypeOK, DoneIsVerified
  <2> QED BY <1>1, <2>1, <2>2 DEF Known, Bounds, TaskBounds
<1>3. CASE ~Go
  <2>1. run' = [run EXCEPT ![p] = Popped(p, e)] /\ task' = task /\ lock' = lock /\ notes' = notes
    BY <1>1, <1>3
  <2>2. /\ DOMAIN Popped(p, e) = DOMAIN Idle /\ Popped(p, e).pc = "sync" /\ Popped(p, e).todo \subseteq Known
    BY <1>1, PoppedTyped DEF EventInv
  <2>3. OthersStay(p) /\ run'[p] = Popped(p, e)
    BY <2>1, <2>2, MineOnly DEF EventInv, TypeOK, NotesStay
  <2>4. Holds(p)'
    BY <1>2, <2>2, <2>3, ListHolds
  <2> QED BY <1>1, <2>1, <2>3, <2>4, Unmoved, Unwritten, StepKeeps DEF EventInv
<1>4. CASE Go
  <2>1. /\ g \in Files /\ Grows(f, g) /\ g.status = f.status
        /\ \E i \in DOMAIN g.log : g.log[i].event = e
        /\ to \in Statuses /\ (~RefusedClose(e, f) /\ to = "done" => Verified(g))
    <3>1. Applies(e, f)
      BY <1>4
    <3> HIDE DEF f, t
    <3> QED BY <1>2, <3>1, MaterialisedGrows DEF EventInv
  <2>2. task' = [task EXCEPT ![t] = g]
    BY <1>1, <1>4
  <2>3. notes' = notes \/ (event[e].kind = "finding" /\ notes' = [notes EXCEPT ![e] = 1])
    BY <1>1, <1>4
  <2> HIDE DEF g, to
  <2>4. NotesStay
    BY <1>2, <2>3 DEF NotesStay, EventInv, TypeOK
  <2>5. TasksGrow
    <3>1. \A s \in Tasks : task[s] \in Files /\ Grows(task[s], task[s])
      BY DEF EventInv, TypeOK, Grows
    <3> QED BY <1>2, <2>1, <2>2, <3>1 DEF EventInv, TypeOK, TasksGrow
  <2>6. CASE RefusedClose(e, f)
    <3>1. run' = [run EXCEPT ![p] = Idle] /\ lock' = lock
      BY <1>1, <1>4, <2>6
    <3>2. OthersStay(p) /\ run'[p] = Idle
      BY <2>4, <3>1, IdleTyped, MineOnly DEF EventInv
    <3> QED BY <1>1, <2>5, <3>2, IdleTyped, IdleHolds, Unwritten, StepKeeps DEF EventInv
  <2>7. CASE ~RefusedClose(e, f)
    <3> DEFINE r == [run[p] EXCEPT !.pc = "syncmove", !.event = e, !.to = to]
    <3>1. run' = [run EXCEPT ![p] = r] /\ lock' = [lock EXCEPT ![t] = p]
      BY <1>1, <1>4, <2>7
    <3>2. DOMAIN r = DOMAIN Idle /\ r.pc = "syncmove" /\ r.event = e /\ r.to = to /\ r.todo = run[p].todo
      BY DEF EventInv, TypeOK, Idle
    <3> HIDE DEF r
    <3>3. OthersStay(p) /\ run'[p] = r
      BY <1>1, <1>2, <2>4, <3>1, <3>2, MineOnly DEF EventInv
    <3>4. task'[t] = g /\ lock'[t] = p /\ event'[e].about = t
      BY <1>1, <1>2, <2>2, <3>1 DEF EventInv, TypeOK
    <3>5. LinesOf(e)' # {}
      BY <2>1, <3>4 DEF LinesOf
    <3>6. Holds(p)'
      <4>1. CommandHolds(p)' /\ JournalHolds(p)'
        BY <3>2, <3>3 DEF CommandHolds, JournalHolds
      <4>2. SyncHolds(p)'
        <5>1. run'[p].todo \subseteq Known' /\ run'[p].event \in Known' /\ (LinesOf(run[p].event) # {})'
          BY <1>1, <1>2, <3>2, <3>3, <3>5
        <5>2. /\ lock'[event'[run'[p].event].about] = p /\ run'[p].to \in Statuses
              /\ run'[p].to = "done" => Verified(task'[event'[run'[p].event].about])
          BY <2>1, <2>7, <3>2, <3>3, <3>4
        <5> QED BY <5>1, <5>2 DEF SyncHolds
      <4> QED BY <4>1, <4>2 DEF Holds
    <3> QED BY <1>1, <2>5, <3>3, <3>6, Unwritten, StepKeeps DEF EventInv
  <2> QED BY <2>6, <2>7
<1> QED BY <1>3, <1>4

LEMMA SyncMoveKeeps ==
  ASSUME EventInv, Bounds, NEW p \in Procs, SyncMove(p)
  PROVE  EventInv'
<1>0. PICK e \in Known : e = run[p].event
  BY DEF SyncMove, EventInv, WorkHolds, Holds, SyncHolds
<1> DEFINE t == event[e].about  to == run[p].to
           r == [run[p] EXCEPT !.pc = "mark", !.index[t] = [task[t] EXCEPT !.status = to]]
<1>1. /\ run[p].todo \subseteq Known /\ e \in Known /\ LinesOf(e) # {}
      /\ lock[t] = p /\ to \in Statuses /\ (to = "done" => Verified(task[t]))
  BY <1>0 DEF SyncMove, EventInv, WorkHolds, Holds, SyncHolds
<1>2. t \in Tasks
  BY <1>1 DEF EventInv, TypeOK, Known, Events
<1>3. /\ task' = [task EXCEPT ![t].status = to] /\ lock' = [lock EXCEPT ![t] = None]
      /\ run' = [run EXCEPT ![p] = r] /\ event' = event /\ notes' = notes
  BY <1>0 DEF SyncMove, evars
<1>4. DOMAIN r = DOMAIN Idle /\ r.pc = "mark" /\ r.event = e /\ r.todo = run[p].todo
  BY <1>0 DEF EventInv, TypeOK, Idle
<1> HIDE DEF t, to, r
<1>5. TasksGrow
  BY <1>1, <1>2, <1>3, MovedGrows
<1>6. OthersStay(p) /\ run'[p] = r
  BY <1>1, <1>2, <1>3, <1>4, MineOnly DEF EventInv, TypeOK, NotesStay
<1>7. LinesOf(e)' # {} /\ Known' = Known
  <2>1. EventsStay /\ Known' = Known
    BY <1>3, Unwritten DEF EventInv, Known
  <2> QED BY <1>1, <1>5, <2>1, StaysLogged DEF EventInv
<1>8. Holds(p)'
  <2>1. CommandHolds(p)' /\ JournalHolds(p)'
    BY <1>4, <1>6 DEF CommandHolds, JournalHolds
  <2>2. run'[p].todo \subseteq Known' /\ run'[p].event \in Known' /\ (LinesOf(run[p].event) # {})'
    BY <1>1, <1>4, <1>6, <1>7 DEF LinesOf
  <2>3. SyncHolds(p)'
    BY <1>4, <1>6, <2>2 DEF SyncHolds
  <2> QED BY <2>1, <2>3 DEF Holds
<1> QED BY <1>3, <1>5, <1>6, <1>8, Unwritten, StepKeeps DEF EventInv

LEMMA SyncMarkKeeps ==
  ASSUME EventInv, Bounds, NEW p \in Procs, SyncMark(p)
  PROVE  EventInv'
<1> DEFINE e == run[p].event  n == [event[e] EXCEPT !.applied = TRUE]
<1>1. /\ run[p].todo \subseteq Known /\ e \in Known /\ LinesOf(e) # {}
      /\ task' = task /\ lock' = lock /\ notes' = notes
  BY DEF SyncMark, EventInv, WorkHolds, Holds, SyncHolds
<1>2. CASE event[e].archived
  <2>1. run' = [run EXCEPT ![p] = Idle] /\ event' = event
    BY <1>2 DEF SyncMark
  <2>2. OthersStay(p) /\ run'[p] = Idle
    BY <1>1, <2>1, IdleTyped, MineOnly DEF EventInv, TypeOK, NotesStay
  <2> QED BY <1>1, <2>1, <2>2, IdleTyped, IdleHolds, Unmoved, Unwritten, StepKeeps DEF EventInv
<1>3. CASE ~event[e].archived
  <2>1. run' = [run EXCEPT ![p] = Popped(p, e)] /\ event' = [event EXCEPT ![e] = n]
    BY <1>3 DEF SyncMark
  <2>2. /\ n \in Events /\ n.kind = event[e].kind /\ n.about = event[e].about /\ n.want = event[e].want
        /\ n.applied /\ n.dismissed = event[e].dismissed /\ None \notin Events
    BY <1>1, Applying DEF EventInv, Bounds
  <2> HIDE DEF e, n
  <2>3. EventsStay
    BY <1>1, <2>1, <2>2, MarkedStays
  <2>4. /\ DOMAIN Popped(p, e) = DOMAIN Idle /\ Popped(p, e).pc = "sync" /\ Popped(p, e).todo \subseteq Known
    BY <1>1, PoppedTyped DEF EventInv
  <2>5. OthersStay(p) /\ run'[p] = Popped(p, e)
    BY <1>1, <2>1, <2>4, MineOnly DEF EventInv, TypeOK, NotesStay
  <2>6. Known' = Known
    BY <1>1, <2>1, <2>2 DEF Known, EventInv, TypeOK
  <2>7. Holds(p)'
    BY <2>4, <2>5, <2>6, ListHolds
  <2> QED BY <1>1, <2>3, <2>5, <2>7, Unmoved, StepKeeps DEF EventInv
<1> QED BY <1>2, <1>3

LEMMA SyncEndKeeps ==
  ASSUME EventInv, Bounds, NEW p \in Procs, SyncEnd(p) \/ JournalEnd(p)
  PROVE  EventInv'
<1>1. run' = [run EXCEPT ![p] = Idle] /\ task' = task /\ event' = event /\ lock' = lock /\ notes' = notes
  BY DEF SyncEnd, JournalEnd, evars
<1>2. OthersStay(p) /\ run'[p] = Idle
  BY <1>1, IdleTyped, MineOnly DEF EventInv, TypeOK, NotesStay
<1> QED BY <1>1, <1>2, IdleTyped, IdleHolds, Unmoved, Unwritten, StepKeeps DEF EventInv

-----------------------------------------------------------------------------
(* The journal plan.                                                        *)

\* Only events that are applied, dismissed or records of runs are archived.
LEMMA PlannedFinished ==
  ASSUME EventInv, NEW e \in Known, Planned(e) \notin {"preserve", "dismiss"}
  PROVE  event[e].applied \/ event[e].dismissed
<1>1. event[e].applied \/ Journal(e) \/ event[e].dismissed
  BY DEF Planned
<1> QED BY <1>1 DEF EventInv, EventsAreComplete

LEMMA JournalPlanKeeps ==
  ASSUME EventInv, Bounds, NEW p \in Procs, JournalPlan(p)
  PROVE  EventInv'
<1> DEFINE todo == {item \in Items : item.action # "preserve"}
           r == [Idle EXCEPT !.pc = "journal", !.cmd = "journal", !.todo = todo]
<1>1. run' = [run EXCEPT ![p] = r] /\ task' = task /\ event' = event /\ lock' = lock /\ notes' = notes
  BY DEF JournalPlan, evars
<1>2. DOMAIN r = DOMAIN Idle /\ r.pc = "journal" /\ r.todo = todo
  BY DEF Idle
<1>3. ASSUME NEW item \in todo
      PROVE  item.id \in Known /\ (item.action # "dismiss" => item.was.applied \/ item.was.dismissed)
  <2>1. PICK e \in Known : item = [id |-> e, action |-> Planned(e), was |-> event[e]]
    BY DEF Items
  <2>2. item.id = e /\ item.action = Planned(e) /\ item.was = event[e] /\ item.action # "preserve"
    BY <2>1
  <2> QED BY <2>2, PlannedFinished
<1> HIDE DEF r, todo
<1>4. OthersStay(p) /\ run'[p] = r
  BY <1>1, <1>2, MineOnly DEF EventInv, TypeOK, NotesStay
<1>5. Known' = Known
  BY <1>1 DEF Known
<1>6. Holds(p)'
  BY <1>2, <1>3, <1>4, <1>5 DEF Holds, CommandHolds, SyncHolds, JournalHolds
<1> QED BY <1>1, <1>4, <1>6, Unmoved, Unwritten, StepKeeps DEF EventInv

LEMMA JournalItemKeeps ==
  ASSUME EventInv, Bounds, NEW p \in Procs, NEW item \in run[p].todo, JournalItem(p, item)
  PROVE  EventInv'
<1> DEFINE e == item.id  d == [event[e] EXCEPT !.dismissed = TRUE]  c == [event[e] EXCEPT !.archived = TRUE]
           r == [run[p] EXCEPT !.todo = @ \ {item}]
<1>1. /\ run[p].pc = "journal" /\ task' = task /\ lock' = lock /\ notes' = notes
      /\ e \in Known /\ (item.action # "dismiss" => item.was.applied \/ item.was.dismissed)
      /\ JournalHolds(p)
  BY DEF JournalItem, EventInv, WorkHolds, Holds, JournalHolds
<1>2. CASE ItemAgrees(item)
  <2>1. /\ run' = [run EXCEPT ![p] = r]
        /\ event' = IF item.action = "dismiss" THEN [event EXCEPT ![e] = d] ELSE [event EXCEPT ![e] = c]
    BY <1>2 DEF JournalItem
  <2>2. DOMAIN r = DOMAIN Idle /\ r.pc = "journal" /\ r.todo \subseteq run[p].todo
    BY <1>1 DEF EventInv, TypeOK, Idle
  <2>3. event[e].applied /\ Syncable(e) => LinesOf(e) # {}
    BY <1>1 DEF EventInv, AppliedIsLogged
  <2>4. EventsStay
    <3>1. CASE item.action = "dismiss"
      <4>1. /\ d \in Events /\ d.kind = event[e].kind /\ d.about = event[e].about /\ d.want = event[e].want
            /\ d.applied = event[e].applied /\ d.dismissed /\ None \notin Events
        BY <1>1, Applying DEF EventInv, Bounds
      <4>2. event' = [event EXCEPT ![e] = d]
        BY <2>1, <3>1
      <4> HIDE DEF d, e
      <4> QED BY <1>1, <2>3, <4>1, <4>2, MarkedStays
    <3>2. CASE item.action # "dismiss"
      <4>1. /\ c \in Events /\ c.kind = event[e].kind /\ c.about = event[e].about /\ c.want = event[e].want
            /\ c.applied = event[e].applied /\ c.dismissed = event[e].dismissed /\ None \notin Events
        BY <1>1, Applying DEF EventInv, Bounds
      <4>2. event' = [event EXCEPT ![e] = c]
        BY <2>1, <3>2
      <4>3. event[e].applied \/ event[e].dismissed
        BY <1>1, <1>2, <3>2 DEF ItemAgrees
      <4> HIDE DEF c, e
      <4> QED BY <1>1, <2>3, <4>1, <4>2, <4>3, MarkedStays
    <3> QED BY <3>1, <3>2
  <2> HIDE DEF r
  <2>5. OthersStay(p) /\ run'[p] = r
    BY <1>1, <2>1, <2>2, MineOnly DEF EventInv, TypeOK, NotesStay
  <2>6. Known \subseteq Known'
    BY <2>4 DEF EventsStay
  <2>7. Holds(p)'
    BY <1>1, <2>2, <2>5, <2>6 DEF Holds, CommandHolds, SyncHolds, JournalHolds
  <2> QED BY <1>1, <2>4, <2>5, <2>7, Unmoved, StepKeeps DEF EventInv
<1>3. CASE ~ItemAgrees(item)
  <2>1. run' = [run EXCEPT ![p] = Idle] /\ event' = event
    BY <1>3 DEF JournalItem
  <2>2. OthersStay(p) /\ run'[p] = Idle
    BY <1>1, <2>1, IdleTyped, MineOnly DEF EventInv, TypeOK, NotesStay
  <2> QED BY <1>1, <2>1, <2>2, IdleTyped, IdleHolds, Unmoved, Unwritten, StepKeeps DEF EventInv
<1> QED BY <1>2, <1>3

-----------------------------------------------------------------------------
LEMMA ActsKeeps ==
  ASSUME EventInv, Bounds, NEW p \in Procs, Acts(p)
  PROVE  EventInv'
<1>1. CASE TaskNext(p) /\ UNCHANGED evars
  BY <1>1, LookKeeps, SaveKeeps, MoveKeeps, DieKeeps DEF TaskNext
<1>2. CASE \E t \in Tasks : \/ Ask(p, t) \/ (\E kind \in Kinds[p] : Report(p, kind, t))
                           \/ (\E cmd \in Proposable : Propose(p, cmd, t))
  BY <1>2, AskKeeps, ReportKeeps, ProposeKeeps
<1>3. CASE \E e \in Ids : Answer(p, e) \/ Dismiss(p, e)
  BY <1>3, AnswerKeeps, DismissKeeps
<1>4. CASE SyncList(p) \/ Sync(p)
  BY <1>4, SyncListKeeps, SyncIndexKeeps, SyncMoveKeeps, SyncMarkKeeps, SyncEndKeeps, SyncSaveKeeps DEF Sync
<1>5. CASE JournalPlan(p) \/ (\E item \in run[p].todo : JournalItem(p, item)) \/ JournalEnd(p)
  BY <1>5, JournalPlanKeeps, JournalItemKeeps, SyncEndKeeps
<1> QED BY <1>1, <1>2, <1>3, <1>4, <1>5 DEF Acts

LEMMA InitHolds ==
  ASSUME Bounds, Init
  PROVE  EventInv
<1>1. Known = {}
  BY DEF Init, Known
<1>2. \A t \in Tasks : /\ task[t] \in Files /\ task[t].status = "open" /\ OneLine(task[t])
  <2>1. PICK owner \in [Tasks -> Owners] : task = [t \in Tasks |-> Filed(owner[t])]
    BY DEF Init, TaskInit
  <2> SUFFICES ASSUME NEW t \in Tasks PROVE task[t] \in Files /\ task[t].status = "open" /\ OneLine(task[t])
    OBVIOUS
  <2>2. task[t] = Filed(owner[t]) /\ owner[t] \in Agents \cup {None}
    BY <2>1 DEF Bounds, TaskBounds
  <2> QED BY <2>2 DEF Filed, Files, Statuses, OneLine
<1>3. TypeOK
  BY <1>2, IdleTyped DEF Init, TaskInit, TypeOK
<1>4. \A p \in Procs : run[p].pc = "idle"
  BY IdleTyped DEF Init, TaskInit
<1>5. \A e \in Ids : notes[e] = 0
  BY DEF Init
<1> QED BY <1>1, <1>2, <1>3, <1>4, <1>5
    DEF EventInv, NotesAreMade, WorkHolds, Holds, CommandHolds, SyncHolds, JournalHolds, EventsAreComplete,
        AppliedIsLogged, LinesAreSingle, DoneIsVerified, ArchivedIsFinished

LEMMA OneLineEach ==
  ASSUME TypeOK, LinesAreSingle, None \notin Ids
  PROVE  LoggedOnce
<1> SUFFICES ASSUME NEW e \in Known PROVE Cardinality(LinesOf(e)) <= 1
  BY DEF LoggedOnce
<1> DEFINE f == task[event[e].about]
<1>1. OneLine(f) /\ e # None
  BY DEF TypeOK, Events, Known, LinesAreSingle
<1>2. CASE LinesOf(e) = {}
  BY <1>2, FS_EmptySet
<1>3. ASSUME NEW i \in LinesOf(e) PROVE Cardinality(LinesOf(e)) <= 1
  <2>1. ASSUME NEW j \in LinesOf(e) PROVE j = i
    <3>1. i \in DOMAIN f.log /\ j \in DOMAIN f.log /\ f.log[i].event = e /\ f.log[j].event = e
      BY <1>3, <2>1 DEF LinesOf
    <3> QED BY <1>1, <3>1 DEF OneLine
  <2>2. LinesOf(e) = {i}
    BY <1>3, <2>1
  <2>3. Cardinality({i}) = 1
    BY FS_Singleton
  <2> QED BY <2>2, <2>3
<1> QED BY <1>2, <1>3

\* Whatever commands, syncs, answers, dismissals and journal plans interleave,
\* and whoever dies in them, the logs of the tasks stay true: no applied event
\* is without its one line, and no task is done without its verification.
THEOREM LogStaysTrue ==
  ASSUME Bounds
  PROVE  Spec => []LogIsTrue
<1>1. Init => EventInv
  BY InitHolds
<1>2. EventInv /\ [Next]_vars => EventInv'
  <2>1. CASE Next
    BY <2>1, ActsKeeps DEF Next
  <2>2. ASSUME EventInv, UNCHANGED vars PROVE EventInv'
    <3>1. /\ TypeOK' /\ Known' = Known
      BY <2>2 DEF EventInv, vars, taskVars, evars, TypeOK, Known
    <3> QED BY <2>2, <3>1 DEF vars, taskVars, evars, EventInv, NotesAreMade, WorkHolds, Holds, CommandHolds,
         SyncHolds, JournalHolds, EventsAreComplete, AppliedIsLogged, LinesAreSingle, DoneIsVerified,
         ArchivedIsFinished, LinesOf, Journal, Syncable
  <2> QED BY <2>1, <2>2
<1>3. EventInv => LogIsTrue
  BY OneLineEach DEF EventInv, Bounds, LogIsTrue
<1> QED BY <1>1, <1>2, <1>3, PTL DEF Spec

=============================================================================
