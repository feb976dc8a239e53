----------------------------- MODULE MCIdentity -----------------------------
(***************************************************************************)
(* Who may act, and with what: the sessions of an authority, the members   *)
(* of a tenant and what they change, and the roles a tenant hosts and a    *)
(* checkout selects.  They share no variable, so each is explored with the *)
(* others at rest: `part` is the one that moves, and an instance of it in  *)
(* which a case of its own happens.                                        *)
(***************************************************************************)
EXTENDS Sessions, TLC

VARIABLE part

tVars == <<clock, rows, member, tokens, audit, ordinal, projects, calls, page>>
rVars == <<day, signed, actor, identity, live, catalog, enrolled, releases, lifecycle, rolePins, known, export,
           keyring, cache, history, torn, canonical, doc, copy, task>>

-----------------------------------------------------------------------------
Ask(id, kind, target, expected, name, state, by) ==
    [id |-> id, kind |-> kind, target |-> target, expected |-> expected, name |-> name, state |-> state, actor |-> by]
Homes    == [e1 |-> "p1"]
Subjects == [s1 |-> [on |-> "p1", account |-> "bo"], s2 |-> [on |-> "e1", account |-> "al"]]
Invites  == [i1 |-> "bo"]
First    == Ask("r1", "create", "p1", 0, "n", "active", "al")

\* Two clients that share request ids write and read one project, while the
\* member's roles change.
WritesAsks == {First, Ask("r1", "update", "p1", 1, "m", "active", "al"), Ask("r2", "update", "p1", 1, "m", "active", "al"),
               Ask("r3", "read", "p1", 1, "n", "active", "al"), Ask("r3", "read", "p1", 2, "n", "active", "al")}

\* Projects are listed page by page while others are created.
ListingAsks == {First, Ask("r2", "create", "p2", 0, "n", "active", "al"), Ask("r3", "create", "p3", 0, "n", "active", "al")}

\* An invitation is accepted, cancelled and expires; roles are assigned.
InvitingAsks ==
    {First, Ask("r2", "create", "i1", 0, "n", "pending", "al"), Ask("r3", "accept", "i1", 1, "n", "accepted", "bo"),
     Ask("r4", "transition", "i1", 1, "n", "cancelled", "al"), Ask("r4", "transition", "i1", 1, "n", "expired", "al"),
     Ask("r5", "create", "s1", 0, "n", "active", "al"), Ask("r7", "archive", "p1", 1, "n", "archived", "al")}

\* An environment and what hangs on it.
NestedAsks ==
    {First, Ask("r2", "create", "e1", 0, "n", "active", "al"), Ask("r3", "update", "e1", 1, "m", "active", "al"),
     Ask("r4", "archive", "e1", 1, "n", "archived", "al"), Ask("r5", "create", "s2", 0, "n", "active", "al"),
     Ask("r6", "update", "s2", 1, "n", "archived", "al")}

AllAsks  == WritesAsks \cup ListingAsks \cup InvitingAsks \cup NestedAsks
Reviewer == {{"reviewer"}}

\* Which client sends a request makes no difference.
ClientsAlike == Permutations(Clients)

\* The parts of the tenancy: the requests that are sent, how many ordinals are
\* drawn, and whether memberships change, a list is read and time passes.
Called(S)      == {<<a.id, a.kind, a.target>> : a \in S}
WritesCalled   == Called(WritesAsks)
ListingCalled  == Called(ListingAsks)
InvitingCalled == Called(InvitingAsks)
NestedCalled   == Called(NestedAsks)
Asked(called)  == \A c \in Clients : calls[c] # Tenant!Idle => <<calls[c].ask.id, calls[c].ask.kind, calls[c].ask.target>> \in called
Unchanged(m)   == member[m] # None => member[m].version = 1
Drawn(n)       == ordinal <= n
TenancyWithin ==
    CASE part = "writes"   -> Asked(WritesCalled) /\ page = None /\ Drawn(1) /\ clock = 0
      [] part = "listing"  -> Asked(ListingCalled) /\ Unchanged("al") /\ Drawn(3) /\ clock = 0
      [] part = "inviting" -> Asked(InvitingCalled) /\ Unchanged("al") /\ Unchanged("bo") /\ page = None /\ Drawn(3)
      [] part = "nested"   -> Asked(NestedCalled) /\ Unchanged("al") /\ page = None /\ clock = 0

Two   == {[version |-> 1, digest |-> "a", key |-> "k"], [version |-> 2, digest |-> "c", key |-> "k"]}
Manage == {"organization.read", "organization.manage", "team.manage", "project.manage"}
Some  == {Manage, {"organization.read", "team.manage"}}

\* The parts of the registry: the publisher's membership changes; statements
\* about two releases interleave; pins of two scopes are set; a catalog is
\* exported and imported by processes that die; a checkout selects, rolls back
\* and verifies releases.
AnyTeam    == {None, "team"}
Hosts(t)   == catalog # None => catalog.team \in t
Says(n, m) == Len(signed) <= n /\ Len(lifecycle) <= m
Unpinned   == \A s \in Scopes : rolePins[s] = <<>>
RegistryWithin ==
    CASE part = "members"  -> Says(0, 3) /\ Unpinned /\ export = None
      [] part = "statuses" -> Says(3, 4) /\ Hosts({None}) /\ Unpinned /\ export = None
      [] part = "pins"     -> Says(2, 4) /\ Hosts({"team"}) /\ export = None
      [] part = "imports"  -> Says(2, 3) /\ Hosts({None}) /\ Unpinned
      [] part = "selects"  -> Says(2, 0)

-----------------------------------------------------------------------------
TenancyParts  == {"writes", "listing", "inviting", "nested"}
RegistryParts == {"members", "statuses", "pins", "imports", "selects"}

AnyInit ==
    /\ Init /\ Tenant!Init /\ Registry!Init
    /\ part \in {"sessions"} \cup TenancyParts \cup RegistryParts
    /\ part # "selects" => canonical = "a"

AnyNext ==
    \/ part = "sessions" /\ Next /\ UNCHANGED <<part, tVars, rVars>>
    \/ part \in TenancyParts /\ Tenant!Next /\ UNCHANGED <<part, vars, rVars>> /\ TenancyWithin'
    \/ /\ \/ part \in {"members", "statuses", "pins", "imports"} /\ (Registry!Manage \/ Registry!Reread)
          \/ part = "members" /\ (Registry!MemberNext \/ Registry!Tick)
          \/ part = "pins" /\ Registry!Pin
          \/ part = "imports" /\ (Registry!Export \/ Registry!LocalNext)
          \/ part = "selects" /\ (Registry!LocalNext \/ Registry!SelectNext \/ Registry!Tick)
          \/ part # "members" /\ part \in RegistryParts /\ Registry!PublisherNext
       /\ UNCHANGED <<part, vars, tVars>> /\ RegistryWithin'

AnySpec == AnyInit /\ [][AnyNext]_<<part, vars, tVars, rVars>>

=============================================================================
