------------------------------ MODULE FileLock ------------------------------
(***************************************************************************)
(* The lock every transition over several files of a workspace runs under  *)
(* (store/store.go): a file created with O_EXCL, stamped with its owner,   *)
(* taken away by its owner on release and by a waiter when the owner is    *)
(* demonstrably gone.  Every system call is a step; processes die between  *)
(* any two of them.                                                        *)
(***************************************************************************)
EXTENDS Naturals, FiniteSets

CONSTANTS
    Procs, None,
    Host,           \* the machine of each process
    MaxTokens,      \* bound: acquisitions a process starts
    StealersDie     \* may a process die while it holds the guard?

\* An acquisition: its token, and the file that carries it.
Tokens == [by : Procs, n : 1 .. MaxTokens]
Guards == [by : Procs, old : BOOLEAN]

\* What instances have to provide.
Bounds == MaxTokens \in Nat /\ StealersDie \in BOOLEAN /\ None \notin Tokens \cup Guards

\* Ages of a file: fresh, past seqLockTimeout, past seqLockStaleAfter.
Fresh == 0
Late  == 1
Stale == 2

VARIABLES
    path,       \* the file at the lock's path
    guard,      \* the stealers' own lock: [by, old], or None
    victim,     \* the file a process has renamed aside
    written,    \* files whose owner is stamped into them
    age,        \* of each file
    dead,       \* tokens whose process is gone
    pc, tokenOf,\* where each process is, and its latest token
    judged      \* what a stealer has judged: [token, parsed], or None

files == <<path, guard, victim, written, age>>
vars == <<files, dead, pc, tokenOf, judged>>

Nothing == [token |-> None, parsed |-> FALSE]
Guarding == {"rejudge", "rename", "check", "unguard", "broken"}

Go(p, to) == pc' = [pc EXCEPT ![p] = to]

-----------------------------------------------------------------------------
(* Judging a file.                                                         *)

\* stale: on one's own machine the process table answers, elsewhere only age.
\* Mutant: the owner's process is not looked up.
StaleByAge(p, t) == age[t] >= Late

StaleFor(p, t) == IF Host[p] = Host[t.by] THEN t \in dead /\ age[t] >= Late
                                          ELSE age[t] = Stale

\* An owner that cannot be read is judged by the age of the file alone.
Breakable(p, t) == IF t \in written THEN StaleFor(p, t) ELSE age[t] = Stale

Record(t) == IF t \in written THEN [token |-> t, parsed |-> TRUE] ELSE Nothing

-----------------------------------------------------------------------------
(* acquireFileLock.                                                        *)

Acquire(p) ==
    /\ pc[p] = "idle"
    /\ tokenOf[p].n < MaxTokens
    /\ tokenOf' = [tokenOf EXCEPT ![p].n = @ + 1]
    /\ Go(p, "create") /\ UNCHANGED <<files, dead, judged>>

Create(p) ==
    /\ pc[p] = "create"
    /\ IF path = None THEN path' = tokenOf[p] /\ Go(p, "stamp")
                      ELSE UNCHANGED path /\ Go(p, "judge")
    /\ UNCHANGED <<guard, victim, written, age, dead, tokenOf, judged>>

\* The stamp goes to the open file, wherever it has been renamed to.
Stamp(p) ==
    /\ pc[p] = "stamp"
    /\ written' = written \cup {tokenOf[p]}
    /\ Go(p, "critical") /\ UNCHANGED <<path, guard, victim, age, dead, tokenOf, judged>>

StampFails(p) ==
    /\ pc[p] = "stamp"
    /\ path' = None
    /\ Go(p, "idle") /\ UNCHANGED <<guard, victim, written, age, dead, tokenOf, judged>>

\* After a failed steal: sleep and race again, or give up at the deadline.
Sleep(p) == pc[p] = "wait" /\ Go(p, "create") /\ UNCHANGED <<files, dead, tokenOf, judged>>

GiveUp(p) == pc[p] = "wait" /\ Go(p, "idle") /\ UNCHANGED <<files, dead, tokenOf, judged>>

-----------------------------------------------------------------------------
(* removeSeqLockIf: rename aside, look, then delete or put back.           *)

\* The hard link fails when the path is taken; the file then stays aside.
Settle(p, want) ==
    IF want \/ path # None THEN UNCHANGED path ELSE path' = victim[p]

MoveAside(p) == path' = None /\ victim' = [victim EXCEPT ![p] = path]

Release(p) ==
    /\ pc[p] = "critical"
    /\ IF path = None THEN UNCHANGED <<path, victim>> /\ Go(p, "idle")
                      ELSE MoveAside(p) /\ Go(p, "released")
    /\ UNCHANGED <<guard, written, age, dead, tokenOf, judged>>

Released(p) ==
    /\ pc[p] = "released"
    /\ Settle(p, Record(victim[p]) = [token |-> tokenOf[p], parsed |-> TRUE])
    /\ victim' = [victim EXCEPT ![p] = None]
    /\ Go(p, "idle") /\ UNCHANGED <<guard, written, age, dead, tokenOf, judged>>

-----------------------------------------------------------------------------
(* stealSeqLock.                                                           *)

Judge(p) ==
    /\ pc[p] = "judge"
    /\ Go(p, IF path # None /\ Breakable(p, path) THEN "guard" ELSE "wait")
    /\ UNCHANGED <<files, dead, tokenOf, judged>>

\* A guard past seqLockStaleAfter is garbage of a crash; it is looked at and
\* removed in two steps, and nothing is stolen in this round.

\* Mutant: a guard somebody died with is never cleared.
TakeFreeGuard(p) ==
    /\ pc[p] = "guard"
    /\ IF guard = None THEN guard' = [by |-> p, old |-> FALSE] /\ Go(p, "rejudge")
                       ELSE UNCHANGED guard /\ Go(p, "wait")
    /\ UNCHANGED <<path, victim, written, age, dead, tokenOf, judged>>

TakeGuard(p) ==
    /\ pc[p] = "guard"
    /\ IF guard = None THEN guard' = [by |-> p, old |-> FALSE] /\ Go(p, "rejudge")
       ELSE UNCHANGED guard /\ Go(p, IF guard.old THEN "clear" ELSE "wait")
    /\ UNCHANGED <<path, victim, written, age, dead, tokenOf, judged>>

ClearGuard(p) ==
    /\ pc[p] = "clear" /\ guard' = None /\ Go(p, "wait")
    /\ UNCHANGED <<path, victim, written, age, dead, tokenOf, judged>>

Rejudge(p) ==
    /\ pc[p] = "rejudge"
    /\ IF path # None /\ Breakable(p, path)
       THEN judged' = [judged EXCEPT ![p] = Record(path)] /\ Go(p, "rename")
       ELSE UNCHANGED judged /\ Go(p, "unguard")
    /\ UNCHANGED <<files, dead, tokenOf>>

Rename(p) ==
    /\ pc[p] = "rename"
    /\ IF path = None THEN UNCHANGED <<path, victim>> /\ Go(p, "unguard")
                      ELSE MoveAside(p) /\ Go(p, "check")
    /\ UNCHANGED <<guard, written, age, dead, tokenOf, judged>>

\* The closure of stealSeqLockWithClock: the file is the one that was judged,
\* and may still be broken.
Wanted(p, t) == Record(t) = judged[p] /\ Breakable(p, t)

Check(p) ==
    /\ pc[p] = "check"
    /\ Settle(p, Wanted(p, victim[p]))
    /\ victim' = [victim EXCEPT ![p] = None]
    /\ Go(p, IF Wanted(p, victim[p]) THEN "broken" ELSE "unguard")
    /\ UNCHANGED <<guard, written, age, dead, tokenOf, judged>>

\* The deferred Remove takes whatever guard is there; who broke the lock races
\* for it again at once.
Unguard(p) ==
    /\ pc[p] \in {"unguard", "broken"}
    /\ guard' = None /\ judged' = [judged EXCEPT ![p] = None]
    /\ Go(p, IF pc[p] = "broken" THEN "create" ELSE "wait")
    /\ UNCHANGED <<path, victim, written, age, dead, tokenOf>>

-----------------------------------------------------------------------------
(* Time and death.  The code's assumption: the few system calls of a stamp *)
(* and of a steal take less than seqLockStaleAfter, and so does a critical *)
(* section whose lock another machine may be waiting for.                  *)

Alone(t) == \A p \in Procs : Host[p] = Host[t.by]

Age(t) ==
    /\ t = path \/ \E p \in Procs : victim[p] = t
    /\ age[t] < Stale
    /\ (age[t] = Late /\ t \notin dead) => (t \in written /\ Alone(t))
    /\ age' = [age EXCEPT ![t] = @ + 1]
    /\ UNCHANGED <<path, guard, victim, written, dead, pc, tokenOf, judged>>

AgeGuard ==
    /\ guard # None /\ ~guard.old /\ pc[guard.by] \notin Guarding
    /\ guard' = [guard EXCEPT !.old = TRUE]
    /\ UNCHANGED <<path, victim, written, age, dead, pc, tokenOf, judged>>

Die(p) ==
    /\ pc[p] # "idle"
    /\ pc[p] \in Guarding => StealersDie
    /\ dead' = dead \cup {t \in Tokens : t.by = p /\ t.n <= tokenOf[p].n}
    /\ victim' = [victim EXCEPT ![p] = None] /\ judged' = [judged EXCEPT ![p] = None]
    /\ Go(p, "idle") /\ UNCHANGED <<path, guard, written, age, tokenOf>>

-----------------------------------------------------------------------------
Init ==
    /\ path = None /\ guard = None /\ victim = [p \in Procs |-> None]
    /\ written = {} /\ age = [t \in Tokens |-> Fresh] /\ dead = {}
    /\ pc = [p \in Procs |-> "idle"] /\ tokenOf = [p \in Procs |-> [by |-> p, n |-> 0]]
    /\ judged = [p \in Procs |-> None]

Steal(p) == \/ Judge(p) \/ TakeGuard(p) \/ ClearGuard(p) \/ Rejudge(p)
            \/ Rename(p) \/ Check(p) \/ Unguard(p)

Step(p) == Create(p) \/ Stamp(p) \/ Sleep(p) \/ Release(p) \/ Released(p) \/ Steal(p)

Next == \/ \E p \in Procs : Acquire(p) \/ Step(p) \/ StampFails(p) \/ GiveUp(p) \/ Die(p)
        \/ \E t \in Tokens : Age(t)
        \/ AgeGuard

Spec == Init /\ [][Next]_vars

\* Processes take their steps and clocks run; nobody need give up or die.
FairSpec == /\ Spec /\ \A p \in Procs : WF_vars(Step(p))
            /\ \A t \in Tokens : WF_vars(Age(t))
            /\ WF_vars(AgeGuard)

-----------------------------------------------------------------------------
(* Properties.                                                             *)

TypeOK ==
    /\ path \in Tokens \cup {None} /\ victim \in [Procs -> Tokens \cup {None}]
    /\ guard \in Guards \cup {None}
    /\ written \subseteq Tokens /\ dead \subseteq Tokens /\ age \in [Tokens -> Fresh .. Stale]
    /\ pc \in [Procs -> {"idle", "create", "stamp", "wait", "critical", "released", "judge", "guard", "clear"} \cup Guarding]
    /\ tokenOf \in [Procs -> [by : Procs, n : 0 .. MaxTokens]]
    /\ judged \in [Procs -> [token : Tokens \cup {None}, parsed : BOOLEAN] \cup {None}]

\* Two processes are never in the critical section at once, through deaths
\* and steals ("two callers holding it at once silently gives two tasks the
\* same NNN").
MutualExclusion == \A p, q \in Procs : pc[p] = "critical" /\ pc[q] = "critical" => p = q

\* The file of a process that holds the lock, or is about to stamp it, is at
\* the path: nobody moved it aside, not even to put it back.
HolderIsAtPath == \A p \in Procs : pc[p] \in {"stamp", "critical"} => path = tokenOf[p]

\* One stealer at a time.
OneStealer == \A p, q \in Procs : pc[p] \in Guarding /\ pc[q] \in Guarding => p = q

\* While somebody wants the lock, the file of a dead owner does not stay.
DeadLockIsBroken == \A t \in Tokens :
    (path = t /\ t \in dead) ~> (path # t \/ \A p \in Procs : pc[p] = "idle")

=============================================================================
