------------------------------ MODULE Tenancy -------------------------------
(***************************************************************************)
(* The tenant's control plane: the HTTP handlers (tenant_http.go), the     *)
(* operations behind them (tenantapi), the authorization (tenant,          *)
(* tenantresource), the project cache (tenantcache) and the rows and audit *)
(* events of PostgreSQL (tenantrepo).  Requests run concurrently.  The     *)
(* membership is read in a transaction of its own, the write and its audit *)
(* event share one, and the evidence of a failure is written in a third.   *)
(* An insert draws its list ordinal when it is made and becomes visible    *)
(* when it is committed.  Invitations and assignments have no route yet;   *)
(* the manager's operations on them are requests like the others.          *)
(***************************************************************************)
EXTENDS Naturals, Sequences, FiniteSets

CONSTANTS
    Projects, Environments, Invitations, Assignments,
    Home,           \* the project of an environment
    Subject,        \* [on, account] of an assignment
    Invited,        \* the account an invitation is for
    Accounts, Members,
    Asks,           \* [id, kind, target, expected, name, state, actor]: what clients may send
    Clients,        \* the requests that may run at a time
    RoleSets,       \* what roles a membership may be changed to
    Lists,          \* what is listed: "projects", or the environments of a project
    None,
    Limit,          \* the size of a page
    Until,          \* when invitations expire
    MaxCache, MaxVersion, MaxTime, MaxOrdinal

Targets == Projects \cup Environments \cup Invitations \cup Assignments
Keys    == {a.id : a \in Asks} \X {"", "invitation", "membership"}

\* What requests, rows and audit events are made of.
Values == [name : {a.name : a \in Asks} \cup Accounts,
           state : {a.state : a \in Asks} \cup {"active", "pending", "accepted", "archived"}]
Requests == [id : {a.id : a \in Asks}, kind : {"create", "read", "update", "accept", "transition", "archive"},
             target : Targets, expected : Nat, name : {v.name : v \in Values}, state : {v.state : v \in Values}, actor : Accounts]
Row == [value : Values, version : Nat \ {0}, ordinal : 1 .. MaxOrdinal]
Event == [actor : Accounts, target : Targets \cup Accounts, after : Nat, value : Values,
          result : {"succeeded", "refused", "conflict", "failed"}]

\* What instances have to provide.  An event names the kind of its target, so a
\* membership is no resource.
Bounds == /\ Limit \in Nat \ {0} /\ MaxCache \in Nat \ {0} /\ Members \subseteq Accounts
          /\ MaxVersion \in Nat /\ MaxTime \in Nat /\ MaxOrdinal \in Nat
          /\ IsFiniteSet(Projects) /\ IsFiniteSet(Environments) /\ Asks \subseteq Requests
          /\ Accounts \cap Targets = {} /\ None \notin Row \cup Event

VARIABLES
    now,
    rows,           \* every row but the memberships: [version, value, ordinal], or None
    member,         \* the memberships
    tokens,         \* the membership version each account's bearer was signed with
    audit,          \* controlplane_tenant_audit_events, by correlation id
    ordinal,        \* the last list ordinal drawn
    cache,          \* the process's project cache, most recently used first
    calls,          \* the requests that run
    page            \* a client's traversal of a list, or None

database == <<rows, member, audit, ordinal>>
vars     == <<now, database, tokens, cache, calls, page>>

Idle    == [phase |-> "idle"]
Routed(a) == a.target \in Projects \cup Environments /\ a.kind \in {"create", "update"}

-----------------------------------------------------------------------------
(* Who may do what.                                                        *)

All == {"membership.manage", "project.read", "project.manage", "environment.manage"}

\* grants, of the permissions that are used here.
grants == [owner |-> All, administrator |-> All, manager |-> All, developer |-> {"project.read"},
           reviewer |-> {"project.read"}, auditor |-> {"project.read"}, billing |-> {}]

\* Authorizer.Authorize, of the membership as it is stored now.
Authorize(account, version, permission) ==
    LET m == member[account] IN
    /\ m # None /\ m.active /\ m.version = version /\ (m.expires # 0 => m.expires > now)
    /\ \E r \in m.roles : permission \in grants[r]

\* What each operation of the manager asks for.
permissionOf(a) == CASE a.kind = "read"             -> "project.read"
                     [] a.target \in Projects       -> "project.manage"
                     [] a.target \in Environments   -> "environment.manage"
                     [] a.target \in Invitations    -> "membership.manage"
                     [] Subject[a.target].on \in Projects -> "project.manage"
                     [] OTHER                       -> "environment.manage"

\* The membership changes; a bearer is signed for it.
UpdateMembership(account, roles, active, expires) ==
    /\ member[account] # None /\ member[account].version < MaxVersion
    /\ member' = [member EXCEPT ![account] = [version |-> @.version + 1, roles |-> roles, active |-> active, expires |-> expires]]
    /\ UNCHANGED <<now, rows, audit, ordinal, tokens, cache, calls, page>>
Sign(account) ==
    /\ member[account] # None /\ tokens[account] # member[account].version
    /\ tokens' = [tokens EXCEPT ![account] = member[account].version]
    /\ UNCHANGED <<now, database, cache, calls, page>>
Tick == now < MaxTime /\ now' = now + 1 /\ UNCHANGED <<database, tokens, cache, calls, page>>

-----------------------------------------------------------------------------
(* Audit events.                                                           *)

\* NewAuditEvent and NewAuditAttempt.
NewAuditEvent(actor, target, after, value) ==
    [actor |-> actor, target |-> target, after |-> after, value |-> value, result |-> "succeeded"]
NewAuditAttempt(a, result) ==
    [actor |-> a.actor, target |-> a.target, after |-> a.expected + 1, value |-> [name |-> a.name, state |-> a.state], result |-> result]

\* Mutant: an event of the same correlation id is taken for this one.
appendAuditFirstWins(log, key, e) == IF log[key] = None THEN [log EXCEPT ![key] = e] ELSE log

\* appendAudit: one event per correlation id; None is ErrAuditConflict, which
\* ends the transaction.
appendAudit(log, key, e) ==
    IF log[key] = None THEN [log EXCEPT ![key] = e] ELSE IF log[key] = e THEN log ELSE None

failureEvidence(cause) == CASE cause \in {"invalid", "denied", "not_found"} -> "refused"
                            [] cause = "conflict" -> "conflict"
                            [] OTHER              -> "failed"
normalize(cause) == CASE cause \in {"denied", "not_found"} -> "unavailable"
                      [] cause = "conflict" -> "conflict"
                      [] OTHER              -> "dependency"

-----------------------------------------------------------------------------
(* The repository's writes: what a request makes of the rows, as           *)
(* [code, row] with the row it stores.                                     *)

Refuse(code)       == [code |-> code, row |-> None]
Store(value, v, o) == [code |-> "ok", row |-> [value |-> value, version |-> v, ordinal |-> o]]

\* A new row: the database decides what is unique and what is referred to.
New(a, o, referenced, state) ==
    IF rows[a.target] # None THEN Refuse("conflict") ELSE IF ~ referenced THEN Refuse("persistence")
    ELSE Store([name |-> a.name, state |-> state], 1, o)

CreateProject(a, o)     == New(a, o, TRUE, "active")
CreateEnvironment(a, o) == New(a, o, rows[Home[a.target]] # None, "active")
IssueInvitation(a, o)   == New(a, o, TRUE, "pending")
createAssignment(a, o)  == New(a, o, rows[Subject[a.target].on] # None /\ member[Subject[a.target].account] # None, "active")

Create(a, o) == CASE a.target \in Projects     -> CreateProject(a, o)
                  [] a.target \in Environments -> CreateEnvironment(a, o)
                  [] a.target \in Invitations  -> IssueInvitation(a, o)
                  [] OTHER                     -> createAssignment(a, o)

UpdateProject(a) ==
    LET before == rows[a.target] IN
    IF before = None THEN Refuse("not_found") ELSE IF before.version # a.expected THEN Refuse("conflict")
    ELSE Store([name |-> a.name, state |-> a.state], a.expected + 1, before.ordinal)

\* UpdateEnvironment: the project of an environment never changes.
UpdateEnvironment(a) ==
    LET before == rows[a.target] IN
    IF before = None THEN Refuse("not_found") ELSE IF before.version # a.expected THEN Refuse("conflict")
    ELSE Store([name |-> a.name, state |-> a.state], a.expected + 1, before.ordinal)

\* An assignment keeps what it is of; a missing one is a conflict.
Reassigned(a) ==
    LET before == rows[a.target] IN
    IF before = None \/ before.version # a.expected THEN Refuse("conflict")
    ELSE Store([before.value EXCEPT !.state = a.state], a.expected + 1, before.ordinal)
updateProjectAssignment(a)     == Reassigned(a)
updateEnvironmentAssignment(a) == Reassigned(a)

TransitionInvitation(a) ==
    LET before == rows[a.target] IN
    IF before = None \/ before.version # a.expected \/ before.value.state # "pending" THEN Refuse("conflict")
    ELSE IF a.state = "expired" /\ Until > now THEN Refuse("conflict")
    ELSE Store([before.value EXCEPT !.state = a.state], a.expected + 1, before.ordinal)

\* AcceptInvitation, as far as the invitation goes: the account is a member
\* already when its membership cannot be inserted.
AcceptInvitation(a) ==
    LET before == rows[a.target] IN
    IF before = None \/ a.actor # Invited[a.target] THEN Refuse("conflict")
    ELSE IF before.version # a.expected \/ before.value.state # "pending" \/ Until <= now THEN Refuse("conflict")
    ELSE IF member[a.actor] # None THEN Refuse("conflict")
    ELSE Store([before.value EXCEPT !.state = "accepted"], a.expected + 1, before.ordinal)

Changed(a) == CASE a.kind = "accept"              -> AcceptInvitation(a)
                [] a.target \in Projects          -> UpdateProject(a)
                [] a.target \in Environments      -> UpdateEnvironment(a)
                [] a.target \in Assignments       -> IF Subject[a.target].on \in Projects THEN updateProjectAssignment(a)
                                                     ELSE updateEnvironmentAssignment(a)
                [] OTHER                          -> TransitionInvitation(a)

Part(a) == IF a.kind = "accept" THEN "invitation" ELSE ""
Joined(a) == [name |-> a.actor, state |-> "active"]

\* The events of a write; accepting an invitation has two.
Logged(a, row) ==
    LET first == appendAudit(audit, <<a.id, Part(a)>>, NewAuditEvent(a.actor, a.target, row.version, row.value)) IN
    IF a.kind # "accept" \/ first = None THEN first
    ELSE appendAudit(first, <<a.id, "membership">>, NewAuditEvent(a.actor, a.actor, 1, Joined(a)))

-----------------------------------------------------------------------------
(* One request, step by step.                                              *)

Step(c, phase) == calls' = [calls EXCEPT ![c].phase = phase]
Fails(c, cause) == calls' = [calls EXCEPT ![c].phase = "failed", ![c].cause = cause]
Answers(c, answer) == calls' = [calls EXCEPT ![c].phase = "answered", ![c].cause = answer]

\* The routes: what each handler makes of a request.  A new row is active and
\* at version 1, an update names the version it expects.
createProject(a)     == a.kind = "create" /\ a.target \in Projects /\ a.expected = 0 /\ a.state = "active"
updateProject(a)     == a.kind = "update" /\ a.target \in Projects
project(a)           == a.kind = "read" /\ a.target \in Projects /\ a.expected > 0
createEnvironment(a) == a.kind = "create" /\ a.target \in Environments /\ a.expected = 0 /\ a.state = "active"
environment(a)       == a.kind = "update" /\ a.target \in Environments
Unrouted(a)          == a.kind \in {"accept", "transition", "archive"} \/ a.target \in Invitations \cup Assignments

\* Verify: the bearer names the account and its membership's version.
\* Accepting an invitation is authorized by the invitation itself.
Verify(a) == tokens[a.actor] # 0 \/ a.kind = "accept"
Receive(c, a) ==
    /\ calls[c] = Idle /\ Verify(a)
    /\ createProject(a) \/ updateProject(a) \/ project(a) \/ createEnvironment(a) \/ environment(a) \/ Unrouted(a)
    /\ calls' = [calls EXCEPT ![c] = [phase |-> "new", ask |-> a, seen |-> tokens[a.actor], cause |-> "", value |-> None, ordinal |-> 0]]
    /\ UNCHANGED <<now, database, tokens, cache, page>>

\* The manager's checks: the state asked for, then the membership.
authorize(c) ==
    LET a == calls[c].ask IN
    /\ calls[c].phase = "new"
    /\ IF a.kind \notin {"create", "read"} /\ a.expected = 0 THEN Fails(c, "invalid")
       ELSE IF a.kind # "accept" /\ ~ Authorize(a.actor, calls[c].seen, permissionOf(a)) THEN Fails(c, "denied")
       ELSE Step(c, CASE a.kind = "read" -> "lookup" [] a.kind = "archive" -> "load" [] OTHER -> "write")
    /\ UNCHANGED <<now, database, tokens, cache, page>>

\* ArchiveProject and ArchiveEnvironment read the row in a transaction before.
Archive(c) ==
    LET a == calls[c].ask  row == rows[a.target] IN
    /\ calls[c].phase = "load"
    /\ IF row # None /\ row.version = a.expected /\ row.value.state = "active"
       THEN calls' = [calls EXCEPT ![c].phase = "write", ![c].ask.name = row.value.name, ![c].ask.state = "archived"]
       ELSE Fails(c, "denied")
    /\ UNCHANGED <<now, database, tokens, cache, page>>

\* An insert draws the next ordinal; it waits for another insert of the row.
Insert(c) ==
    LET a == calls[c].ask IN
    /\ calls[c].phase = "write" /\ a.kind = "create" /\ ordinal < MaxOrdinal
    /\ \A d \in Clients \ {c} : calls[d].phase = "inserted" => calls[d].ask.target # a.target
    /\ ordinal' = ordinal + 1
    /\ IF Create(a, ordinal').code = "ok" THEN calls' = [calls EXCEPT ![c].phase = "inserted", ![c].ordinal = ordinal']
       ELSE Fails(c, Create(a, ordinal').code)
    /\ UNCHANGED <<now, rows, member, audit, tokens, cache, page>>

\* mutate: the change and its events are committed together, or neither is.
mutate(c) ==
    LET a == calls[c].ask
        r == IF a.kind = "create" THEN Create(a, calls[c].ordinal) ELSE Changed(a) IN
    /\ calls[c].phase \in {"write", "inserted"} /\ (calls[c].phase = "inserted" <=> a.kind = "create")
    /\ IF r.code # "ok" THEN Fails(c, r.code) /\ UNCHANGED <<rows, member, audit>>
       ELSE IF Logged(a, r.row) = None THEN Fails(c, "persistence") /\ UNCHANGED <<rows, member, audit>>
       ELSE /\ rows' = [rows EXCEPT ![a.target] = r.row] /\ audit' = Logged(a, r.row)
            /\ member' = IF a.kind = "accept" THEN [member EXCEPT ![a.actor] = [version |-> 1, roles |-> {"developer"}, active |-> TRUE, expires |-> 0]]
                         ELSE member
            /\ IF a.target \in Projects /\ Routed(a) THEN Step(c, "invalidate") ELSE Answers(c, "ok")
    /\ UNCHANGED <<now, ordinal, tokens, cache, page>>

\* InvalidateTenant, after the commit.
InvalidateTenant(c) == /\ calls[c].phase = "invalidate" /\ cache' = <<>> /\ Answers(c, "ok")
                       /\ UNCHANGED <<now, database, tokens, page>>

\* recordFailure and RecordAttempt: the evidence of a routed mutation that
\* failed, in a transaction of its own; without it the caller is not told why.
recordFailure(c) ==
    LET a == calls[c].ask
        log == appendAudit(audit, <<a.id, "">>, NewAuditAttempt(a, failureEvidence(calls[c].cause))) IN
    /\ calls[c].phase = "failed"
    /\ IF ~ Routed(a) THEN Answers(c, normalize(calls[c].cause)) /\ UNCHANGED audit
       ELSE IF log = None THEN Answers(c, "dependency") /\ UNCHANGED audit
       ELSE audit' = log /\ Answers(c, normalize(calls[c].cause))
    /\ UNCHANGED <<now, rows, member, ordinal, tokens, cache, page>>

\* Finish: the answer is sent.  Cancel: the client went away, and what was not
\* committed is rolled back.  Restart: the process begins with an empty cache.
Finish(c)  == calls[c].phase = "answered" /\ calls' = [calls EXCEPT ![c] = Idle] /\ UNCHANGED <<now, database, tokens, cache, page>>
Cancel(c)  == calls[c].phase \notin {"idle", "answered"} /\ calls' = [calls EXCEPT ![c] = Idle] /\ UNCHANGED <<now, database, tokens, cache, page>>
Restart    == /\ cache # <<>> /\ cache' = <<>> /\ calls' = [c \in Clients |-> Idle] /\ UNCHANGED <<now, database, tokens, page>>

-----------------------------------------------------------------------------
(* Reading a project at an exact version, through the cache.               *)

CacheKey(c) == [target |-> calls[c].ask.target, subject |-> calls[c].ask.actor, version |-> calls[c].ask.expected, member |-> calls[c].seen]
Hit(k)      == {i \in 1 .. Len(cache) : cache[i].key = k}

\* The other entries; a key has at most one.
Other(k)    == IF Hit(k) = {} THEN cache
               ELSE LET i == CHOOSE i \in Hit(k) : TRUE IN SubSeq(cache, 1, i - 1) \o SubSeq(cache, i + 1, Len(cache))

\* Get: a hit is moved to the front.
Get(c) == /\ calls[c].phase = "lookup" /\ Hit(CacheKey(c)) # {}
          /\ LET e == cache[CHOOSE i \in Hit(CacheKey(c)) : TRUE] IN
             /\ cache' = <<e>> \o Other(CacheKey(c))
             /\ calls' = [calls EXCEPT ![c].phase = "answered", ![c].cause = "ok", ![c].value = e.value]
          /\ UNCHANGED <<now, database, tokens, page>>

\* Project: the row, if it has the version asked for.
Project(c) == LET a == calls[c].ask  row == rows[a.target] IN
              /\ calls[c].phase = "lookup" /\ Hit(CacheKey(c)) = {}
              /\ IF row = None THEN Answers(c, "unavailable")
                 ELSE IF row.version # a.expected THEN Answers(c, "conflict")
                 ELSE calls' = [calls EXCEPT ![c].phase = "put", ![c].value = row.value]
              /\ UNCHANGED <<now, database, tokens, cache, page>>

\* Put: the least recently used entry makes room.
Put(c) == /\ calls[c].phase = "put"
          /\ LET full == <<[key |-> CacheKey(c), value |-> calls[c].value]>> \o Other(CacheKey(c)) IN
             cache' = SubSeq(full, 1, IF Len(full) > MaxCache THEN MaxCache ELSE Len(full))
          /\ Answers(c, "ok")
          /\ UNCHANGED <<now, database, tokens, page>>

-----------------------------------------------------------------------------
(* Lists, page by page: the cursor carries the snapshot and where to go on. *)

Visible(of) == {t \in IF of = "projects" THEN Projects ELSE {e \in Environments : Home[e] = of} : rows[t] # None}
MaxOf(S)    == IF S = {} THEN 0 ELSE CHOOSE x \in S : \A y \in S : y <= x

\* pageSnapshot.
pageSnapshot(of) == MaxOf({rows[t].ordinal : t \in Visible(of)})

\* ListProjects and ListEnvironments: the rows after the cursor within the
\* snapshot, the first Limit of them by ordinal.
Rest(of, snapshot, after) == {t \in Visible(of) : rows[t].ordinal <= snapshot /\ rows[t].ordinal > after}
Items(of, snapshot, after) ==
    LET rest == Rest(of, snapshot, after) IN
    {t \in rest : Cardinality({u \in rest : rows[u].ordinal < rows[t].ordinal}) < Limit}

\* Next: the last row of the page, or 0 when no row is left.
NextAfter(of, snapshot, after) ==
    IF Rest(of, snapshot, after) = Items(of, snapshot, after) THEN 0
    ELSE MaxOf({rows[t].ordinal : t \in Items(of, snapshot, after)})

ListPage(of, snapshot, after, seen, start) ==
    page' = [of |-> of, snapshot |-> snapshot, after |-> NextAfter(of, snapshot, after), start |-> start,
             seen |-> [t \in Visible(of) |-> (IF t \in DOMAIN seen THEN seen[t] ELSE 0) + IF t \in Items(of, snapshot, after) THEN 1 ELSE 0]]

\* pageRequest without a cursor, and with the one of the page before: each page
\* is authorized again.
FirstPage(of, account) ==
    /\ page = None /\ Authorize(account, tokens[account], "project.read")
    /\ ListPage(of, pageSnapshot(of), 0, <<>>, Visible(of))
    /\ UNCHANGED <<now, database, tokens, cache, calls>>
FollowCursor(account) ==
    /\ page # None /\ page.after # 0 /\ Authorize(account, tokens[account], "project.read")
    /\ ListPage(page.of, page.snapshot, page.after, page.seen, page.start)
    /\ UNCHANGED <<now, database, tokens, cache, calls>>
StopListing == page # None /\ page' = None /\ UNCHANGED <<now, database, tokens, cache, calls>>

-----------------------------------------------------------------------------
Init == /\ now = 0 /\ rows = [t \in Targets |-> None] /\ audit = [k \in Keys |-> None] /\ ordinal = 0
        /\ member = [m \in Accounts |-> IF m \in Members THEN [version |-> 1, roles |-> {"owner"}, active |-> TRUE, expires |-> 0] ELSE None]
        /\ tokens = [m \in Accounts |-> IF m \in Members THEN 1 ELSE 0]
        /\ cache = <<>> /\ calls = [c \in Clients |-> Idle] /\ page = None

Next == \/ \E c \in Clients : \/ \E a \in Asks : Receive(c, a)
                              \/ authorize(c) \/ Archive(c) \/ Insert(c) \/ mutate(c) \/ InvalidateTenant(c) \/ recordFailure(c)
                              \/ Finish(c) \/ Cancel(c) \/ Get(c) \/ Project(c) \/ Put(c)
        \/ \E of \in Lists, m \in Accounts : FirstPage(of, m)
        \/ \E m \in Accounts : FollowCursor(m) \/ Sign(m)
        \/ \E m \in Accounts, r \in RoleSets, active \in BOOLEAN, x \in {0, now + 1} : UpdateMembership(m, r, active, x)
        \/ StopListing \/ Restart \/ Tick

Spec == Init /\ [][Next]_vars

-----------------------------------------------------------------------------
Succeeded(t, v) == {k \in Keys : audit[k] # None /\ audit[k].result = "succeeded" /\ audit[k].target = t /\ audit[k].after = v}

\* The audit trail is the whole history, whatever ids clients repeat, share or
\* abandon: every version of every row has exactly one event of success, the
\* last one with the row's value, no event of success is about anything else,
\* a routed mutation that was refused has its evidence, and what the cache
\* holds for a version is what was written as that version.
AuditTellsAll ==
    /\ \A t \in Targets : rows[t] # None =>
           /\ \A v \in 1 .. rows[t].version : Cardinality(Succeeded(t, v)) = 1
           /\ \A k \in Succeeded(t, rows[t].version) : audit[k].value = rows[t].value
    /\ \A k \in Keys : audit[k] # None /\ audit[k].result = "succeeded" /\ audit[k].target \in Targets =>
           rows[audit[k].target] # None /\ audit[k].after <= rows[audit[k].target].version
    /\ \A c \in Clients : calls[c].phase = "answered" /\ calls[c].cause \in {"unavailable", "conflict"} /\ Routed(calls[c].ask) =>
           audit[<<calls[c].ask.id, "">>] # None /\ audit[<<calls[c].ask.id, "">>].result # "succeeded"
    /\ \A i \in 1 .. Len(cache) : \E k \in Succeeded(cache[i].key.target, cache[i].key.version) : audit[k].value = cache[i].value

\* A traversal tiles the list it began with: every row that was there at the
\* first page is listed exactly once, and no row twice, however many rows are
\* inserted and committed out of order meanwhile.
PagesTile ==
    page # None => /\ \A t \in DOMAIN page.seen : page.seen[t] <= 1
                   /\ page.after = 0 => \A t \in page.start : t \in DOMAIN page.seen /\ page.seen[t] = 1

=============================================================================
