--------------------------- MODULE AuthorityStore ---------------------------
(***************************************************************************)
(* The storage transaction every governance operation goes through         *)
(* (Authority.transaction, persist, readAuthority): an exclusively created *)
(* lock file, a read of the whole aggregate, a closure on the private      *)
(* copy, a synced temporary file renamed over the aggregate, a directory   *)
(* sync, and the deferred removal of the lock.                             *)
(*                                                                         *)
(* A call is one invocation of transaction by some process.  Only what a   *)
(* caller can tell apart is kept of the aggregate: which calls' effects it *)
(* contains.  `file' is what the file system shows, `disk' what survives a *)
(* loss of power; they differ between the rename and the directory sync.   *)
(***************************************************************************)
EXTENDS Naturals, FiniteSets

CONSTANTS Creators,      \* calls of Bootstrap (create = TRUE, write = TRUE)
          Writers,       \* calls with create = FALSE, write = TRUE
          Readers,       \* calls with create = FALSE, write = FALSE
          NoLock,        \* no lock file
          MaxAttempts,   \* lock attempts before the deadline (5 s / 5 ms)
          MaxAuthority   \* aggregate size limit (MaxAuthorityBytes)

Calls == Creators \cup Writers \cup Readers

ASSUME CallKinds == /\ Creators \cap (Writers \cup Readers) = {}
                    /\ Writers \cap Readers = {}
                    /\ IsFiniteSet(Calls)
ASSUME Distinct  == NoLock \notin Calls
ASSUME Bounds    == MaxAttempts \in Nat /\ MaxAuthority \in Nat

VARIABLES
    lock,      \* the call that created the lock file, or NoLock
    file,      \* the aggregate at the path, as any process sees it
    disk,      \* the aggregate that survives a power loss
    pc,        \* where each call is in transaction
    attempts,  \* failed attempts to create the lock file
    mem,       \* the aggregate each call loaded
    temps,     \* calls whose temporary file is in the directory
    result     \* what transaction returns to each call

vars == <<lock, file, disk, pc, attempts, mem, temps, result>>

Aggregates == SUBSET Calls
Absent     == {}    \* no file: an existing aggregate holds Bootstrap's effect
Running    == {"idle", "waiting", "locked", "loaded", "decided", "staged", "renamed", "unlocking"}
Critical   == {"locked", "loaded", "decided", "staged", "renamed", "unlocking"}

Init == /\ lock = NoLock /\ file = Absent /\ disk = Absent /\ temps = {}
        /\ pc = [c \in Calls |-> "idle"]
        /\ attempts = [c \in Calls |-> 0]
        /\ mem = [c \in Calls |-> Absent]
        /\ result = [c \in Calls |-> "none"]

Goto(c, l) == pc' = [pc EXCEPT ![c] = l]

\* transaction is about to return r: the deferred functions run next.
Return(c, r) == Goto(c, "unlocking") /\ result' = [result EXCEPT ![c] = r]

Begin(c) ==
    /\ pc[c] = "idle" /\ Goto(c, "waiting")
    /\ UNCHANGED <<lock, file, disk, attempts, mem, temps, result>>

-----------------------------------------------------------------------------
(* The lock loop.                                                           *)

\* OpenFile(O_CREATE|O_EXCL) succeeds only when there is no lock file.
Acquire(c) ==
    /\ pc[c] = "waiting" /\ lock = NoLock
    /\ lock' = c /\ Goto(c, "locked")
    /\ UNCHANGED <<file, disk, attempts, mem, temps, result>>

\* The lock file exists and the deadline has not passed: sleep and try again.
Retry(c) ==
    /\ pc[c] = "waiting" /\ lock # NoLock /\ attempts[c] < MaxAttempts
    /\ attempts' = [attempts EXCEPT ![c] = @ + 1]
    /\ UNCHANGED <<lock, file, disk, pc, mem, temps, result>>

\* Mutant: the deadline applies only while the creator of the lock lives.
TimeoutIfAlive(c) ==
    /\ pc[c] = "waiting" /\ lock # NoLock /\ attempts[c] = MaxAttempts
    /\ pc[lock] \in Critical
    /\ Goto(c, "done") /\ result' = [result EXCEPT ![c] = "storage"]
    /\ UNCHANGED <<lock, file, disk, attempts, mem, temps>>

\* The deadline has passed: a storage error, whoever left the lock file.
Timeout(c) ==
    /\ pc[c] = "waiting" /\ lock # NoLock /\ attempts[c] = MaxAttempts
    /\ Goto(c, "done") /\ result' = [result EXCEPT ![c] = "storage"]
    /\ UNCHANGED <<lock, file, disk, attempts, mem, temps>>

\* The lock path is not a regular file, or creating it fails otherwise.
LockError(c) ==
    /\ pc[c] = "waiting"
    /\ Goto(c, "done") /\ result' = [result EXCEPT ![c] = "storage"]
    /\ UNCHANGED <<lock, file, disk, attempts, mem, temps>>

-----------------------------------------------------------------------------
(* Under the lock.                                                          *)

\* Mutant: the aggregate comes from a cache of the last acknowledged write.
LoadCached(c) ==
    /\ pc[c] = "locked"
    /\ (c \in Creators) <=> (file = Absent)
    /\ mem' = [mem EXCEPT ![c] = disk] /\ Goto(c, "loaded")
    /\ UNCHANGED <<lock, file, disk, attempts, temps, result>>

\* readAuthority and decodeAuthorityState.
Load(c) ==
    /\ pc[c] = "locked"
    /\ (c \in Creators) <=> (file = Absent)
    /\ mem' = [mem EXCEPT ![c] = file] /\ Goto(c, "loaded")
    /\ UNCHANGED <<lock, file, disk, attempts, temps, result>>

\* Bootstrap finds an authority, or another call finds none.
LoadFails(c) ==
    /\ pc[c] = "locked"
    /\ ~ ((c \in Creators) <=> (file = Absent))
    /\ Return(c, IF c \in Creators THEN "denied" ELSE "storage")
    /\ UNCHANGED <<lock, file, disk, attempts, mem, temps>>

\* The closure accepts; a read-only transaction returns at once.
Decide(c) ==
    /\ pc[c] = "loaded"
    /\ IF c \in Readers THEN Return(c, "ok") ELSE Goto(c, "decided") /\ UNCHANGED result
    /\ UNCHANGED <<lock, file, disk, attempts, mem, temps>>

\* The closure returns an error; Bootstrap's closure never does.
Deny(c) ==
    /\ pc[c] = "loaded" /\ c \notin Creators
    /\ Return(c, "denied")
    /\ UNCHANGED <<lock, file, disk, attempts, mem, temps>>

\* The new aggregate fits, and is written to a temporary file and synced.
Stage(c) ==
    /\ pc[c] = "decided"
    /\ Cardinality(mem[c] \cup {c}) <= MaxAuthority
    /\ temps' = temps \cup {c} /\ Goto(c, "staged")
    /\ UNCHANGED <<lock, file, disk, attempts, mem, result>>

\* The new aggregate exceeds MaxAuthorityBytes.
TooLarge(c) ==
    /\ pc[c] = "decided"
    /\ Cardinality(mem[c] \cup {c}) > MaxAuthority
    /\ Return(c, "storage")
    /\ UNCHANGED <<lock, file, disk, attempts, mem, temps>>

Rename(c) ==
    /\ pc[c] = "staged"
    /\ file' = mem[c] \cup {c} /\ temps' = temps \ {c} /\ Goto(c, "renamed")
    /\ UNCHANGED <<lock, disk, attempts, mem, result>>

\* Mutant: the directory is not synced.
SyncSkipped(c) ==
    /\ pc[c] = "renamed" /\ Return(c, "ok")
    /\ UNCHANGED <<lock, file, disk, attempts, mem, temps>>

\* The directory sync makes the rename durable before the caller is told.
SyncDir(c) ==
    /\ pc[c] = "renamed"
    /\ disk' = file /\ Return(c, "ok")
    /\ UNCHANGED <<lock, file, attempts, mem, temps>>

\* Any system call under the lock may fail: before the rename nothing has
\* changed, after it the caller gets an error although the file has.
SystemError(c) ==
    /\ pc[c] \in {"locked", "loaded", "decided", "staged", "renamed"}
    /\ pc[c] = "loaded" => c \notin Creators
    /\ Return(c, "storage") /\ temps' = temps \ {c}
    /\ UNCHANGED <<lock, file, disk, attempts, mem>>

\* The deferred os.Remove(lock); its own error is discarded.
Unlock(c) ==
    /\ pc[c] = "unlocking" /\ Goto(c, "done")
    /\ lock' \in {NoLock, lock}
    /\ UNCHANGED <<file, disk, attempts, mem, temps, result>>

-----------------------------------------------------------------------------
(* Failures.                                                                *)

\* A process is killed: deferred functions do not run.
Crash(c) ==
    /\ pc[c] \in Running \ {"idle"} /\ Goto(c, "crashed")
    /\ UNCHANGED <<lock, file, disk, attempts, mem, temps, result>>

\* Power is lost: all processes die, unsynced directory entries may revert.
PowerLoss ==
    /\ pc' = [c \in Calls |-> IF pc[c] \in Running \ {"idle"} THEN "crashed" ELSE pc[c]]
    /\ \E f \in {file, disk} : file' = f /\ disk' = f
    /\ lock' \in {NoLock, lock}
    /\ UNCHANGED <<attempts, mem, temps, result>>

\* The owner removes a lock file after making sure its creator is gone; the
\* program itself never removes a lock file it did not create.
OwnerClearsLock ==
    /\ lock # NoLock /\ pc[lock] \in {"crashed", "done"}
    /\ lock' = NoLock
    /\ UNCHANGED <<file, disk, pc, attempts, mem, temps, result>>

-----------------------------------------------------------------------------

Step(c) == \/ Acquire(c) \/ Retry(c) \/ Timeout(c)
           \/ Load(c) \/ LoadFails(c) \/ Decide(c) \/ Deny(c)
           \/ Stage(c) \/ TooLarge(c) \/ Rename(c) \/ SyncDir(c)
           \/ Unlock(c)

Next == \/ PowerLoss \/ OwnerClearsLock
        \/ \E c \in Calls : Begin(c) \/ Step(c) \/ LockError(c) \/ SystemError(c) \/ Crash(c)

\* A started call keeps running: its loop is bounded by the deadline and
\* nothing it does under the lock blocks.  Nobody has to start a call, clear
\* a lock or crash, and no system call has to fail.
Fairness == \A c \in Calls : WF_vars(Step(c))

Spec == Init /\ [][Next]_vars
FairSpec == Spec /\ Fairness

-----------------------------------------------------------------------------
(* Properties.                                                              *)

\* The type of every variable.
TypeOK ==
    /\ lock \in Calls \cup {NoLock}
    /\ file \in Aggregates /\ disk \in Aggregates
    /\ pc \in [Calls -> Running \cup {"done", "crashed"}]
    /\ attempts \in [Calls -> 0 .. MaxAttempts]
    /\ mem \in [Calls -> Aggregates]
    /\ temps \subseteq Calls
    /\ result \in [Calls -> {"none", "ok", "denied", "storage"}]

\* transaction: a call between its O_EXCL creation and its deferred removal
\* is the creator of the lock file on disk, so no two are ever inside,
\* whatever crashed, timed out or was cleared before.
MutualExclusion == \A c \in Calls : pc[c] \in Critical => lock = c

\* transaction: the copy a closure decided on is still the aggregate when the
\* rename replaces it ("each operation reloads under lock").
NoStaleDecision ==
    \A c \in Calls : pc[c] \in {"loaded", "decided", "staged"} => mem[c] = file

\* persist: a write the caller was told of is in the aggregate and survives
\* any later crash, error or loss of power.
AcknowledgedIsDurable ==
    \A c \in Creators \cup Writers :
        result[c] = "ok" => c \in file \cap disk

\* Bootstrap: "initializes an absent authority exactly once": two callers
\* never both hold an owner token, whatever failed in between.
BootstrapOnce ==
    \A b, c \in Creators : result[b] = "ok" /\ result[c] = "ok" => b = c

\* transaction: a lock file whose creator is gone is never taken over, and
\* the aggregate stays as it is until the owner removes that lock file (or a
\* loss of power reverts the directory).
DeadLockFreezesAuthority ==
    [][lock # NoLock /\ pc[lock] \in {"crashed", "done"}
          => lock' \in {lock, NoLock} /\ file' \in {file, disk}]_vars

\* persist: temporary files outlive their call only when it was killed.
OnlyCrashesLeaveTemps ==
    \A c \in temps : pc[c] \in {"staged", "crashed"}

\* transaction: every started call is answered within its deadline, even if
\* the lock file is never removed, unless its process dies.
EveryCallReturns ==
    \A c \in Calls : pc[c] = "waiting" ~> pc[c] \in {"done", "crashed"}

-----------------------------------------------------------------------------
(* The transactions implement the atomic aggregate: a write takes effect    *)
(* at its rename, a read when its closure returns.                          *)

Status(c) ==
    IF result[c] # "none" THEN result[c]
    ELSE IF pc[c] = "crashed" THEN "crashed"
    ELSE IF pc[c] = "renamed" THEN "applied" ELSE "pending"

Atomic == INSTANCE AtomicAuthority
    WITH authority <- file,
         status <- [c \in Calls |-> Status(c)],
         seen <- [c \in Readers |-> IF result[c] = "ok" THEN mem[c] ELSE Absent]

\* Every behaviour of the lock, temporary and aggregate files is one of
\* atomic calls on a single aggregate.
ImplementsAtomic == Atomic!ASpec

=============================================================================
