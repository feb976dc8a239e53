--------------------------- MODULE GovernanceState --------------------------
(***************************************************************************)
(* The part of the authority aggregate (type state) that decides who may   *)
(* write which resources, and the predicates the operations on it share.   *)
(* Every operation is one storage transaction: AuthorityStore shows those  *)
(* to be atomic, so each is one action on this state.                      *)
(*                                                                         *)
(* Sessions shows what holds of a session tree that grows; here the tree is*)
(* a constant, as after the owner's enrolments, and sessions only expire or*)
(* are revoked.  A call repeated under its operation key returns the stored*)
(* receipt and changes nothing: it is a stuttering step.  The admission    *)
(* adapter, the Git observation of the checkout and the role, preflight,   *)
(* budget and checkpoint gates can only refuse: refused is not happening.  *)
(***************************************************************************)
EXTENDS Naturals, FiniteSets, Sequences

CONSTANTS
    Sessions, NoSession,    \* session identifiers; Parent = "" and no session
    Parent, Expires, Can,   \* of each session: its parent, expiry, actions
    Covers,                 \* of each session: the claims within its scope
    Tasks, Checkouts,
    Repository,             \* of each task: TaskBinding.Repository
    RepositoryOf,           \* of each checkout: what checkout.Observe finds
    Claims,                 \* claims [task, checkout, paths, whole] requested
    Policies,               \* of each revision: [width, wip, ttl, stopped, placements]
    NoPolicy,               \* no swarm or lifecycle policy configured
    Channels,               \* cancellation channels of lifecycle policies
    Revocable, Rebindable,  \* inputs: sessions revoked, tasks bound again
    Acceptances,            \* inputs: AcceptCooperativeTerminal configured
    MaxFence, MaxTime       \* math.MaxUint64; bound on the clock

ASSUME SessionTree == /\ NoSession \notin Sessions
                      /\ Parent \in [Sessions -> Sessions \cup {NoSession}]
                      /\ Can \in [Sessions -> SUBSET STRING]
                      /\ Covers \in [Sessions -> SUBSET Claims]
                      /\ Revocable \subseteq Sessions /\ Rebindable \subseteq Tasks
                      /\ Acceptances \subseteq BOOLEAN
ASSUME Bounds == MaxFence \in Nat /\ MaxTime \in Nat /\ Expires \in [Sessions -> 0 .. MaxTime]
ASSUME ClaimShape == /\ \A c \in Claims : /\ c.task \in Tasks /\ c.checkout \in Checkouts
                                          /\ c.whole \in BOOLEAN
ASSUME PolicyShape == /\ NoPolicy \notin DOMAIN Policies /\ NoPolicy \notin Channels
                      /\ \A r \in DOMAIN Policies : Policies[r].width \in Nat /\ Policies[r].wip \in Nat

VARIABLES
    now, revoked,           \* the clock; revoked sessions
    admitted,               \* tasks bound with AdmissionEnabled
    attempts,               \* Attempts: [session, task, checkout]
    fence,                  \* Fence: the last fence given out
    leases,                 \* Leases by identifier
    dispatches,             \* Dispatches by identifier
    recoveries,             \* Recoveries: the owner's tombstones
    intents,                \* DispatchIntents by dispatch
    observed,               \* the last of LifecycleObservations by dispatch
    cancelled,              \* LifecycleCancellations by dispatch
    retired,                \* TaskTerminals
    policy, revisions,      \* SwarmPolicies: current and ever used revisions
    channel,                \* LifecyclePolicies: the cancellation channel
    acceptTerminal          \* RecoveryPolicies: AcceptCooperativeTerminal

clock       == <<now, revoked>>
bindings    == <<admitted, attempts>>
protections == <<fence, leases, dispatches, recoveries>>
hosts       == <<intents, observed, cancelled>>
policies    == <<policy, revisions, channel, acceptTerminal>>
vars        == <<clock, bindings, protections, hosts, policies, retired>>

Times  == 0 .. MaxTime
\* Reservations and leases are named by the fence they were created with.
Ids    == 1 .. MaxFence
Put(f, x, v) == [y \in DOMAIN f \cup {x} |-> IF y = x THEN v ELSE f[y]]

-----------------------------------------------------------------------------
(* Sessions.                                                                *)

\* The sessions authenticate visits: the least set closed under Parent.
LineageOf == [s \in Sessions |->
    {a \in Sessions : \A S \in SUBSET Sessions :
        s \in S /\ (\A x \in S : Parent[x] \in S \cup {NoSession}) => a \in S}]

IsRoot(s) == Parent[s] = NoSession

\* Every lineage ends at an enrolled session (theorem Families of
\* SessionsProofs).
ASSUME RootedTree == \A s \in Sessions : \E r \in LineageOf[s] : IsRoot(r)

\* historicalWorkerFamily: revocation and expiry do not matter.
Family(s) == CHOOSE r \in LineageOf[s] : IsRoot(r)

Authenticate(s) == \A a \in LineageOf[s] : a \notin revoked /\ now < Expires[a]

\* Controllers of the bounded kind act through other entry points.
GenericController(s) == \A a \in LineageOf[s] : Can[a] \cap {"controller.step", "controller.reconcile"} = {}

TaskInScope(s, t) == \E c \in Covers[s] : c.task = t

-----------------------------------------------------------------------------
(* Claims.                                                                  *)

Prefix(p, q) == Len(p) <= Len(q) /\ SubSeq(q, 1, Len(p)) = p

\* overlaps: one writer per checkout; the same task; in one repository, a
\* claim of the whole checkout, or paths one of which contains the other.
Overlap(c, d) ==
    \/ c.checkout = d.checkout
    \/ c.task = d.task
    \/ /\ Repository[c.task] = Repository[d.task]
       /\ \/ c.whole \/ d.whole
          \/ \E p \in c.paths, q \in d.paths : Prefix(p, q) \/ Prefix(q, p)

Recovered(kind, id) == \E r \in recoveries : r.kind = kind /\ r.id = id

\* reservationRetained.
Retained == {d \in DOMAIN dispatches : ~ dispatches[d].converted /\ ~ Recovered("reservation", d)}
Held     == {l \in DOMAIN leases : ~ leases[l].released}

\* No unreleased lease and no retained reservation other than the one handed
\* over is in the way.  Expiry and revocation free nothing.
FreeExcept(c, own) ==
    /\ \A l \in Held : ~ Overlap(c, leases[l].claim)
    /\ \A d \in Retained \ own : ~ Overlap(c, dispatches[d].claim)

-----------------------------------------------------------------------------
(* Withdrawal of a worker from a task.                                      *)

\* recoveryTaskWithdrawn, the cancellations and TaskTerminals.
WorkerTaskWithdrawn(s, t) ==
    \/ t \in retired
    \/ \E r \in recoveries : r.task = t /\ r.family \in LineageOf[s]
    \/ \E d \in DOMAIN cancelled : dispatches[d].claim.task = t /\ intents[d].worker \in LineageOf[s]

CurrentLease(l) ==
    /\ ~ leases[l].released /\ now < leases[l].expires
    /\ ~ WorkerTaskWithdrawn(leases[l].session, leases[l].claim.task)

\* leaseAuth, apart from the attempt.
LeaseAuth(s, t, action) ==
    /\ Authenticate(s) /\ action \in Can[s] /\ TaskInScope(s, t)
    /\ ~ WorkerTaskWithdrawn(s, t)

Attempt(s, c) == [session |-> s, task |-> c.task, checkout |-> c.checkout]

-----------------------------------------------------------------------------

\* After the owner has enrolled the sessions and bound the tasks.
Init ==
    /\ now = 0 /\ revoked = {} /\ admitted = Tasks /\ attempts = {}
    /\ fence = 0 /\ leases = [x \in {} |-> {}] /\ dispatches = [x \in {} |-> {}] /\ recoveries = {}
    /\ intents = [x \in {} |-> {}] /\ observed = [x \in {} |-> {}] /\ cancelled = [x \in {} |-> {}]
    /\ policy = NoPolicy /\ revisions = {} /\ channel = NoPolicy /\ acceptTerminal = FALSE
    /\ retired = {}

\* Revoke; the clock.
Revoke(s) == revoked' = revoked \cup {s} /\ UNCHANGED <<now, bindings, protections, hosts, policies, retired>>

Tick == now < MaxTime /\ now' = now + 1 /\ UNCHANGED <<revoked, bindings, protections, hosts, policies, retired>>

-----------------------------------------------------------------------------
(* Task bindings, attempts and the leases workers take by themselves        *)
(* (attempts.go, leases.go).                                                *)

\* The owner binds a task again with admission on or off; the project and the
\* repository cannot change.
BindTask(t, on) ==
    /\ admitted' = IF on THEN admitted \cup {t} ELSE admitted \ {t}
    /\ UNCHANGED <<clock, attempts, protections, hosts, policies, retired>>

\* The checkout is observed between two transactions; the second repeats every
\* check of the first, so the call takes effect there.
RegisterAttempt(s, t, k) ==
    /\ LeaseAuth(s, t, "attempt.register")
    /\ t \in admitted /\ Repository[t] = RepositoryOf[k]
    /\ attempts' = attempts \cup {[session |-> s, task |-> t, checkout |-> k]}
    /\ UNCHANGED <<clock, admitted, protections, hosts, policies, retired>>

LeaseOf(s, c, e) == [session |-> s, claim |-> c, fence |-> fence + 1, expires |-> e, released |-> FALSE]

\* Canonical resources within the session's scope; nothing in force overlaps.
AcquireLease(s, c, e) ==
    /\ Attempt(s, c) \in attempts /\ LeaseAuth(s, c.task, "lease.acquire") /\ c \in Covers[s]
    /\ now < e /\ e <= Expires[s] /\ FreeExcept(c, {})
    /\ fence < MaxFence
    /\ fence' = fence + 1 /\ leases' = Put(leases, fence + 1, LeaseOf(s, c, e))
    /\ UNCHANGED <<clock, bindings, dispatches, recoveries, hosts, policies, retired>>

\* changeLease: the session and the attempt are those of the lease, the fence
\* the caller expects is its fence, and the lease is current.
ChangeLease(l, action) ==
    /\ LeaseAuth(leases[l].session, leases[l].claim.task, action) /\ CurrentLease(l)
    /\ UNCHANGED <<clock, bindings, fence, dispatches, recoveries, hosts, policies, retired>>

\* Mutant: renewal authenticates the session and looks at the lease only.
RenewLeaseWithdrawn(l, e) ==
    LET s == leases[l].session IN
    /\ Authenticate(s) /\ "lease.renew" \in Can[s] /\ ~ leases[l].released
    /\ now < e /\ e <= Expires[s]
    /\ leases' = [leases EXCEPT ![l].expires = e]
    /\ UNCHANGED <<clock, bindings, fence, dispatches, recoveries, hosts, policies, retired>>

RenewLease(l, e) ==
    /\ ChangeLease(l, "lease.renew")
    /\ now < e /\ e <= Expires[leases[l].session]
    /\ leases' = [leases EXCEPT ![l].expires = e]

ReleaseLease(l) ==
    /\ ChangeLease(l, "lease.release")
    /\ leases' = [leases EXCEPT ![l].released = TRUE]

=============================================================================
