----------------------------- MODULE MCProgress -----------------------------
(***************************************************************************)
(* What must eventually happen, of the components that have something      *)
(* outstanding: the storage transaction, the canonical acceptance, the     *)
(* envelope worker, the file lock and the MCP server.  They share no       *)
(* variable; `part` is the one that moves, under the fairness its module   *)
(* argues for.                                                             *)
(***************************************************************************)
EXTENDS TLC, Integers

CONSTANT None

VARIABLES
    part,
    lock, aggregate, disk, step, attempts, mem, temps, result,
    current, rev, clean, checked, landed, reviewers, reviews, policy, used, decisions, approvals, lapsed, consumed,
    terminal, file, pc, args, crashes,
    row, worker, payload, proposal, received, sends, acked,
    path, guard, victim, written, age, dead, at, tokenOf, judged,
    profile, frames, eof, drains, auth, cancelled, hand, read, pending, initialized, main, calls, writing, open, watch, timer,
    failed, answers, ran

sVars == <<lock, aggregate, disk, step, attempts, mem, temps, result>>
aVars == <<current, rev, clean, checked, landed, reviewers, reviews, policy, used, decisions, approvals, lapsed, consumed,
           terminal, file, pc, args, crashes>>
wVars == <<row, worker, payload, proposal, received, sends, acked>>
lVars == <<path, guard, victim, written, age, dead, at, tokenOf, judged>>
nVars == <<profile, frames, eof, drains, auth, cancelled, hand, read, pending, initialized, main, calls, writing, open, watch,
           timer, failed, answers, ran>>

S == INSTANCE AuthorityStore WITH
    file <- aggregate, pc <- step,
    Creators <- {"b"}, Writers <- {"w"}, Readers <- {}, NoLock <- None, MaxAttempts <- 2, MaxAuthority <- 2

A == INSTANCE Acceptance WITH
    worker <- current, evidence <- checked, grants <- reviewers,
    Owners <- {"o"}, Reviewers <- {"r"}, Keys <- {"k"}, Decisions <- {"d"},
    Policies <- ("open" :> [allow |-> TRUE, approval |-> FALSE]),
    MaxRevision <- 1, MaxVersion <- 0, MaxCrashes <- 1

W == INSTANCE EnvelopeWorker WITH
    Outbound <- {"out"}, Inbound <- {"in"}, Workers <- {"w"}, MaxAttempts <- 2, BatchSize <- 1

L == INSTANCE FileLock WITH
    pc <- at, Procs <- {"p", "q"}, Host <- [p \in {"p", "q"} |-> "here"], MaxTokens <- 2, StealersDie <- TRUE

N == INSTANCE NativeServer WITH
    Kinds <- {"initialize", "ping", "tools/call"}, Tools <- {"identity"}, Profiles <- {"plain"}, Slots <- 1, MaxFrames <- 2

ASSUME A!Bounds /\ W!Bounds /\ L!Bounds /\ N!Bounds

-----------------------------------------------------------------------------
Init == /\ part \in {"store", "acceptance", "worker", "lock", "server"}
        /\ S!Init /\ A!Init /\ W!Init /\ L!Init /\ N!Init

Next == \/ part = "store" /\ S!Next /\ UNCHANGED <<part, aVars, wVars, lVars, nVars>>
        \/ part = "acceptance" /\ A!Next /\ UNCHANGED <<part, sVars, wVars, lVars, nVars>>
        \/ part = "worker" /\ W!Next /\ UNCHANGED <<part, sVars, aVars, lVars, nVars>>
        \/ part = "lock" /\ L!Next /\ UNCHANGED <<part, sVars, aVars, wVars, nVars>>
        \/ part = "server" /\ N!Next /\ UNCHANGED <<part, sVars, aVars, wVars, lVars>>

vars == <<part, sVars, aVars, wVars, lVars, nVars>>

\* A call that was started goes on running.
StoreFairness == \A c \in {"b", "w"} : WF_sVars(part = "store" /\ S!Step(c))

\* The owner applies an acceptance that is under way again, and what runs is
\* scheduled; processes die only finitely often.
OwnerFairness == /\ SF_aVars(part = "acceptance" /\ A!Retry)
                 /\ WF_aVars(part = "acceptance" /\ A!Advance("o"))

\* Time passes, and the worker starts and finishes cycles now and then; it may
\* die at any point, as often as it likes.
WorkerFairness == /\ \A r \in {"out", "in"} : /\ WF_wVars(part = "worker" /\ W!BecomesDue(r))
                                              /\ WF_wVars(part = "worker" /\ W!LeaseLapses(r))
                  /\ WF_wVars(part = "worker" /\ W!ProcessInbox("w")) /\ WF_wVars(part = "worker" /\ W!Step("w"))
                  /\ SF_wVars(part = "worker" /\ W!RunTenant("w"))

\* Processes take their steps and clocks run; nobody need give up or die.
LockFairness == /\ \A p \in {"p", "q"} : WF_lVars(part = "lock" /\ L!Step(p))
                /\ \A t \in L!Tokens : WF_lVars(part = "lock" /\ L!Age(t))
                /\ WF_lVars(part = "lock" /\ L!AgeGuard)

\* Goroutines are scheduled and timers fire; the client owes nothing.
ServerFairness == /\ WF_nVars(part = "server" /\ N!Scan) /\ WF_nVars(part = "server" /\ N!ScanEnds)
                  /\ WF_nVars(part = "server" /\ N!Take) /\ WF_nVars(part = "server" /\ N!Leave)
                  /\ WF_nVars(part = "server" /\ N!Finish) /\ WF_nVars(part = "server" /\ N!Lock)
                  /\ WF_nVars(part = "server" /\ N!MainEncodes)
                  /\ \A n \in 1 .. 2 : WF_nVars(part = "server" /\ N!CallRuns(n)) /\ WF_nVars(part = "server" /\ N!CallEncodes(n))
                  /\ WF_nVars(part = "server" /\ N!WatchContext) /\ WF_nVars(part = "server" /\ N!ArmTimer)
                  /\ WF_nVars(part = "server" /\ N!Drained)

Spec == Init /\ [][Next]_vars /\ StoreFairness /\ OwnerFairness /\ WorkerFairness /\ LockFairness /\ ServerFairness

\* Every call of the authority is answered, also when a lock file stays for ever.
EveryCallReturns == S!EveryCallReturns

\* When the task file stays closed the authority records it as closed.
RecordCatchesUp == A!RecordCatchesUp

\* Every row is delivered, processed or given up, however often workers die.
EveryRowEnds == W!EveryRowEnds

\* The lock of a dead process is broken while somebody waits for it.
DeadLockIsBroken == L!DeadLockIsBroken

\* Once its input has ended or its context is cancelled the MCP server returns,
\* also when the client reads nothing more.
ServerReturns == N!ServerReturns

=============================================================================
