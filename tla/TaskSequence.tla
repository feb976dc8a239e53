---------------------------- MODULE TaskSequence ----------------------------
(***************************************************************************)
(* How a new task gets its number (store.go CreateTask, task_sequence.go,  *)
(* remove.go).  Under the sequence lock the next number is taken from a    *)
(* cache that is valid while nothing it was computed from has changed, or  *)
(* found as one more than the highest number in the task folders, on any   *)
(* Git ref and among the tombstones of removed tasks, read one after the   *)
(* other.  Tasks are removed, moved, committed and checked out meanwhile.  *)
(***************************************************************************)
EXTENDS Naturals, FiniteSets, FiniteSetsExt

CONSTANTS Procs, MaxSeq, None

\* What instances have to provide.
Bounds == MaxSeq \in Nat /\ None \notin Procs \cup Nat /\ "cache" \notin Procs

Seqs == 1 .. MaxSeq

VARIABLES
    disk,       \* numbers of the task files in the checkout
    git,        \* numbers of the tasks on some ref
    tomb,       \* numbers of the tombstones
    cache,      \* .task-sequence.json: the next number, or None
    outdated,   \* whose observation of the inputs is out of date
    lock,       \* who holds the sequence lock
    run,        \* [pc, seq, disk, git, seen] of each process; seen: the numbers on refs when it began
    issued      \* how many tasks got each number

vars == <<disk, git, tomb, cache, outdated, lock, run, issued>>

Idle == [pc |-> "idle", seq |-> None, disk |-> 0, git |-> 0, seen |-> {}]

Top(numbers) == IF numbers = {} THEN 0 ELSE Max(numbers)

\* A change of a folder or a ref: every observation taken before differs.
Changed == outdated' = Procs \cup {"cache"}

-----------------------------------------------------------------------------
(* CreateTask.                                                             *)

Begin(p) ==
    /\ run[p] = Idle /\ lock = None
    /\ lock' = p /\ run' = [run EXCEPT ![p].pc = "cache", ![p].seen = git]
    /\ UNCHANGED <<disk, git, tomb, cache, outdated, issued>>

\* Mutant: the cache is trusted whatever happened to the folders.
CacheHitAlways == cache # None

CacheHit == cache # None /\ "cache" \notin outdated

ReadCache(p) ==
    /\ run[p].pc = "cache"
    /\ IF CacheHit THEN run' = [run EXCEPT ![p].pc = "write", ![p].seq = cache] /\ UNCHANGED outdated
       ELSE run' = [run EXCEPT ![p].pc = "disk"] /\ outdated' = outdated \ {p}
    /\ UNCHANGED <<disk, git, tomb, cache, lock, issued>>

ReadDisk(p) == /\ run[p].pc = "disk" /\ run' = [run EXCEPT ![p].pc = "git", ![p].disk = Top(disk)]
               /\ UNCHANGED <<disk, git, tomb, cache, outdated, lock, issued>>

ReadGit(p) == /\ run[p].pc = "git" /\ run' = [run EXCEPT ![p].pc = "tomb", ![p].git = Top(git)]
              /\ UNCHANGED <<disk, git, tomb, cache, outdated, lock, issued>>

Ceiling(p) == Max({run[p].disk, run[p].git, Top(tomb)})

\* The tombstones, and the second observation: after a change the ceilings are
\* read again, three times at most.
ReadTomb(p) ==
    /\ run[p].pc = "tomb"
    /\ IF p \notin outdated
       THEN /\ Ceiling(p) < MaxSeq /\ run' = [run EXCEPT ![p].pc = "write", ![p].seq = Ceiling(p) + 1]
            /\ UNCHANGED outdated
       ELSE run' = [run EXCEPT ![p].pc = "disk"] /\ outdated' = outdated \ {p}
    /\ UNCHANGED <<disk, git, tomb, cache, lock, issued>>

GiveUp(p) == /\ run[p].pc = "tomb" /\ p \in outdated
             /\ run' = [run EXCEPT ![p] = Idle] /\ lock' = None
             /\ UNCHANGED <<disk, git, tomb, cache, outdated, issued>>

Write(p) ==
    LET n == run[p].seq IN
    /\ run[p].pc = "write"
    /\ n <= MaxSeq
    /\ disk' = disk \cup {n} /\ issued' = [issued EXCEPT ![n] = @ + 1]
    /\ run' = [run EXCEPT ![p] = [Idle EXCEPT !.pc = "record", !.seq = n]] /\ Changed
    /\ UNCHANGED <<git, tomb, cache, lock>>

\* recordNextTaskSequence observes the inputs as they are now.
Record(p) ==
    /\ run[p].pc = "record"
    /\ cache' = run[p].seq + 1 /\ outdated' = outdated \ {"cache"}
    /\ lock' = None /\ run' = [run EXCEPT ![p] = Idle]
    /\ UNCHANGED <<disk, git, tomb, issued>>

Die(p) == /\ run[p] # Idle /\ run' = [run EXCEPT ![p] = Idle]
          /\ lock' = IF lock = p THEN None ELSE lock
          /\ UNCHANGED <<disk, git, tomb, cache, outdated, issued>>

-----------------------------------------------------------------------------
(* Meanwhile: RemoveTask without the lock, and Git.                        *)

WriteTombstone(p, n) ==
    /\ run[p] = Idle /\ n \in disk
    /\ tomb' = tomb \cup {n} /\ run' = [run EXCEPT ![p].pc = "rm", ![p].seq = n] /\ Changed
    /\ UNCHANGED <<disk, git, cache, lock, issued>>

RemoveFile(p) ==
    /\ run[p].pc = "rm"
    /\ disk' = disk \ {run[p].seq} /\ run' = [run EXCEPT ![p] = Idle] /\ Changed
    /\ UNCHANGED <<git, tomb, cache, lock, issued>>

Commit == /\ git # git \cup disk /\ git' = git \cup disk /\ Changed
          /\ UNCHANGED <<disk, tomb, cache, lock, run, issued>>

\* A ref of another clone brings a number that was given there.
Fetch == /\ \E n \in Seqs \ git : git' = git \cup {n}
         /\ Changed /\ UNCHANGED <<disk, tomb, cache, lock, run, issued>>

\* Another branch is checked out: what is committed leaves or enters the folders.
Checkout == \E files \in SUBSET git :
    /\ disk' = (disk \ git) \cup (files \ tomb) /\ disk' # disk /\ Changed
    /\ UNCHANGED <<git, tomb, cache, lock, run, issued>>

-----------------------------------------------------------------------------
Init == /\ disk = {} /\ git = {} /\ tomb = {} /\ cache = None /\ outdated = Procs \cup {"cache"}
        /\ lock = None /\ run = [p \in Procs |-> Idle] /\ issued = [n \in Seqs |-> 0]

Create(p) == \/ Begin(p) \/ ReadCache(p) \/ ReadDisk(p) \/ ReadGit(p) \/ ReadTomb(p)
             \/ GiveUp(p) \/ Write(p) \/ Record(p)

Next == \/ \E p \in Procs : Create(p) \/ Die(p) \/ RemoveFile(p) \/ \E n \in Seqs : WriteTombstone(p, n)
        \/ Commit \/ Fetch \/ Checkout

Spec == Init /\ [][Next]_vars

-----------------------------------------------------------------------------
Creating == {"cache", "disk", "git", "tomb", "write", "record"}

Runs == [pc : Creating \cup {"idle", "rm"}, seq : 1 .. MaxSeq + 1 \cup {None},
         disk : 0 .. MaxSeq, git : 0 .. MaxSeq, seen : SUBSET Seqs]

TypeOK == /\ disk \subseteq Seqs /\ git \subseteq Seqs /\ tomb \subseteq Seqs
          /\ cache \in 1 .. MaxSeq + 1 \cup {None} /\ lock \in Procs \cup {None}
          /\ outdated \subseteq Procs \cup {"cache"}
          /\ run \in [Procs -> Runs] /\ issued \in [Seqs -> Nat]

\* No number is given twice, not even one whose task was removed or is only on
\* another branch: "a stale ref must not resolve to a different task".
GivenOnce == \A n \in Seqs : issued[n] <= 1

\* "monotonic-never-reuse ... for any seq ever committed": the number of a task
\* that was on some ref before CreateTask began is not given to a new task.
CommittedIsNotReissued == \A p \in Procs : run[p].pc = "write" => run[p].seq \notin run[p].seen

\* Every number that was given can still be found somewhere.
NumbersAreRemembered == \A n \in Seqs : issued[n] > 0 => n \in disk \cup git \cup tomb

\* No number is given to two tasks, and none that was given is forgotten.
NumberedOnce == GivenOnce /\ NumbersAreRemembered

=============================================================================
