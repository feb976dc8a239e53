------------------------------ MODULE MCTasks -------------------------------
(***************************************************************************)
(* The shared files of a project: the lock files, the task files with the  *)
(* event log, and the numbering of tasks.  They share no variable, so each *)
(* is explored with the others at rest: `part` is the one that moves.  Two *)
(* processes create and remove tasks while branches are fetched; two of a  *)
(* host and one of another contend for the lock.                           *)
(***************************************************************************)
EXTENDS WorkspaceProofs, TLC

CONSTANTS p1, p2, p3, p4, p5

VARIABLE part

lockVars == <<path, guard, victim, written, age, dead, pc, tokenOf, judged>>
numVars  == <<disk, git, tomb, cache, outdated, sequence, creation, issued>>

-----------------------------------------------------------------------------
\* The machines of those who contend for the lock.
Machines == (p1 :> "here") @@ (p2 :> "here") @@ (p3 :> "there")

\* Two processes of the root apply and close while a read-only agent reports;
\* a process of the root runs every command beside one of a worker.
Identities == (p1 :> "root") @@ (p2 :> "root") @@ (p3 :> "ro") @@ (p4 :> "root") @@ (p5 :> "worker")
Skills     == LET Few == {"check", "done", "sync"}
                  All == {"claim", "check", "done", "takeover", "estimate", "block", "reopen", "ask", "answer",
                          "sync", "dismiss", "journal"}
              IN (p1 :> Few) @@ (p2 :> Few) @@ (p3 :> {"done"}) @@ (p4 :> All)
                 @@ (p5 :> {"claim", "check", "done", "block", "ask", "sync"})
Reports    == (p1 :> {}) @@ (p2 :> {}) @@ (p3 :> {"finding"}) @@ (p4 :> {})
              @@ (p5 :> {"run", "status", "release", "claim", "block"})
Policies   == ("t" :> "direct") @@ ("u" :> "pr")

\* These processes work on this task.
Only(hands, t) == /\ \E p \in hands : Acts(p)
                  /\ \A p \in hands : run'[p].task \in {None, t}
                  /\ \A e \in Known' : event'[e].about = t

Appliers == Only({p1, p2, p3}, "t")
Every    == Only({p4, p5}, "u") /\ event'[2] = None /\ Len(task'["u"].log) <= 2

Alike == Permutations({p1, p2})

ASSUME Bounds /\ L!Bounds /\ N!Bounds

-----------------------------------------------------------------------------
AnyInit == part \in {"lock", "events", "commands", "numbers"} /\ Init /\ L!Init /\ N!Init

AnyNext == \/ part = "lock" /\ L!Next /\ UNCHANGED <<part, vars, numVars>>
           \/ part = "events" /\ Appliers /\ UNCHANGED <<part, lockVars, numVars>>
           \/ part = "commands" /\ Every /\ UNCHANGED <<part, lockVars, numVars>>
           \/ part = "numbers" /\ N!Next /\ UNCHANGED <<part, lockVars, vars>>

AnySpec == AnyInit /\ [][AnyNext]_<<part, lockVars, vars, numVars>>

=============================================================================
