---------------------------- MODULE RoleRegistry ----------------------------
(***************************************************************************)
(* Signed role releases: the hosted catalog (role_registry.go and          *)
(* role_registry_pins.go of tenantrepo, role_registry.go of tenant), the   *)
(* publisher's signed statements (rolebundle) and the local registry of a  *)
(* project (store/role_registry*.go).  One catalog and one role.  A hosted *)
(* operation is one transaction under the role's advisory lock; a local    *)
(* one writes its files one after the other under the registry's lock and  *)
(* may die between two of them, and the project document it selects        *)
(* releases in is rewritten as a whole by commands that take other locks   *)
(* or none.  A signed statement is named by its place in `signed`, which   *)
(* stands for its digest; 0 is no statement.                               *)
(***************************************************************************)
EXTENDS Naturals, Sequences, FiniteSets, SequencesExt

CONSTANTS
    Releases,       \* [version, digest, key]: what the publisher signed
    Grants,         \* the permission sets a membership may have
    Scopes,         \* the scopes of hosted pins, of "organization", "team" and "project"
    Teams,          \* what a catalog may belong to: a team, or None
    Trusted,        \* the keys the local owner may enroll
    Contents,       \* the digests the canonical role file may match
    None,
    Window,         \* how long a statement is fresh
    MaxTime, MaxSigned, MaxEntries, MaxPins, MaxVersion, MaxStage

States  == {"draft", "released", "deprecated", "revoked"}

\* What instances have to provide.
Bounds == /\ Window \in Nat \ {0} /\ MaxTime \in Nat /\ MaxSigned \in Nat /\ MaxEntries \in Nat
          /\ MaxPins \in Nat /\ MaxVersion \in Nat \ {0} /\ MaxStage \in Nat
          /\ Scopes \subseteq {"organization", "team", "project"}
          /\ \A a, b \in Releases : a.digest = b.digest => a.version = b.version     \* the digest covers the version
          /\ None \notin [rel : Releases, state : States, status : Nat]

VARIABLES
    now, signed,
    member, identity, live,                                     \* the actor, as the database and as its session know it
    catalog, enrolled, releases, lifecycle, rolePins, known,    \* the hosted registry, what the actor last read of it
    export,                                                     \* a saved export
    keyring, cache, history, torn, canonical,                   \* the local registry
    doc, copy,                                                  \* the project document, what another command holds of it
    task                                                        \* who holds the registry lock, and where it is

hosted == <<catalog, enrolled, releases, lifecycle, rolePins, known>>
actor  == <<member, identity, live>>
locals == <<keyring, cache, history, torn, canonical, doc, copy, task>>
vars   == <<now, signed, actor, hosted, export, locals>>

Keys    == {r.key : r \in Releases}
Rows    == {"organization", "account", "team", "device", "project"}
Exact(a, b) == a.version = b.version /\ a.digest = b.digest

LastOf(I)   == IF I = {} THEN 0 ELSE CHOOSE i \in I : \A j \in I : j <= i

-----------------------------------------------------------------------------
(* Statements and releases.                                                *)

\* LifecycleStatus.Verify: signed, with an enrolled key, and fresh at t.
VerifyStatus(s, keys, t) == s \in 1 .. Len(signed) /\ signed[s].key \in keys /\ signed[s].issued <= t /\ t < signed[s].issued + Window

\* Verify at its own issue time, which history is checked with.
VerifyIssued(s, keys) == VerifyStatus(s, keys, signed[s].issued)

\* Release.Verify.
VerifyRelease(r, keys) == r.key \in keys

\* The publisher signs a statement that follows any earlier one: it may
\* publish, revoke, and even contradict itself with two successors of one.
SignStatus(r, state, prev) ==
    /\ Len(signed) < MaxSigned /\ prev \in 0 .. Len(signed)
    /\ signed' = Append(signed, [rel |-> r, state |-> state, prev |-> prev, issued |-> now, key |-> r.key,
                                 generation |-> IF prev = 0 THEN 1 ELSE signed[prev].generation + 1])
    /\ UNCHANGED <<now, actor, hosted, export, locals>>

Follows(s, prev) == /\ signed[s].generation = (IF prev = 0 THEN 1 ELSE signed[prev].generation + 1)
                    /\ signed[s].prev = prev

Tick == now < MaxTime /\ now' = now + 1 /\ UNCHANGED <<signed, actor, hosted, export, locals>>

-----------------------------------------------------------------------------
(* The actor of a hosted operation.                                        *)

ensureActiveRoleIdentity == {"organization", "account"} \subseteq live
ensureActiveTeam(team)   == team # None => "team" \in live
lockRoleDevice           == "device" \in live
roleHasPermission(p)     == p \in member.grants

\* loadRoleActor: the membership is reloaded, and is the one the session was
\* verified with; refreshRoleRegistryTime checks its expiry once more.
refreshRoleRegistryTime == member.expires # 0 => member.expires > now

loadRoleActor(p) ==
    /\ ensureActiveRoleIdentity
    /\ member.version = identity /\ member.active /\ refreshRoleRegistryTime
    /\ ensureActiveTeam(member.team) /\ roleHasPermission(p) /\ lockRoleDevice

permissionForCatalog(team) == IF team = None THEN "organization.manage" ELSE "team.manage"

authorizeCatalogTeam(team) ==
    \/ team = None /\ roleHasPermission("organization.manage")
    \/ /\ team # None /\ ensureActiveTeam(team)
       /\ roleHasPermission("organization.manage") \/ (roleHasPermission("team.manage") /\ member.team = team)

authorizeCatalogRead(team) == team = None \/ roleHasPermission("organization.manage") \/ member.team = team

lockRoleActor == catalog # None /\ loadRoleActor(permissionForCatalog(catalog.team)) /\ authorizeCatalogTeam(catalog.team)

\* The membership changes, or a row of the tenant stops being active; the
\* actor's session is verified again, and it reads the registry again.
UpdateMembership(grants, active, expires) ==
    /\ member.version < MaxVersion
    /\ member' = [member EXCEPT !.version = @ + 1, !.grants = grants, !.active = active, !.expires = expires]
    /\ UNCHANGED <<now, signed, identity, live, hosted, export, locals>>
Suspend(row) == /\ live = Rows /\ live' = live \ {row}
                /\ UNCHANGED <<now, signed, member, identity, hosted, export, locals>>
Reverify == /\ identity # member.version /\ identity' = member.version
            /\ UNCHANGED <<now, signed, member, live, hosted, export, locals>>
Reread == /\ known' = [sequence |-> Len(lifecycle), pins |-> [s \in Scopes |-> Len(rolePins[s])]]
          /\ known' # known
          /\ UNCHANGED <<now, signed, actor, catalog, enrolled, releases, lifecycle, rolePins, export, locals>>

-----------------------------------------------------------------------------
(* The hosted catalog.                                                     *)

CreateRoleCatalog(team) ==
    /\ catalog = None /\ loadRoleActor(permissionForCatalog(team)) /\ authorizeCatalogTeam(team)
    /\ catalog' = [team |-> team]
    /\ UNCHANGED <<now, signed, actor, enrolled, releases, lifecycle, rolePins, known, export, locals>>

EnrollRolePublisher(k) ==
    /\ lockRoleActor /\ k \notin enrolled /\ enrolled' = enrolled \cup {k}
    /\ UNCHANGED <<now, signed, actor, catalog, releases, lifecycle, rolePins, known, export, locals>>

\* ValidateHostedRelease: the envelope is the exact release, by an enrolled key.
ValidateHostedRelease(r) == VerifyRelease(r, enrolled)

\* loadHostedRelease.
Stored(r) == r \in releases

\* insertRoleLifecycle.
Entry(r, state, s) == [rel |-> r, state |-> state, status |-> s]

\* A signed envelope is stored once per version, as a draft.
ImportRoleRelease(r) ==
    /\ lockRoleActor /\ ValidateHostedRelease(r)
    /\ \A x \in releases : x.version # r.version
    /\ Len(lifecycle) < MaxEntries
    /\ releases' = releases \cup {r}
    /\ lifecycle' = Append(lifecycle, Entry(r, "draft", 0))
    /\ UNCHANGED <<now, signed, actor, catalog, enrolled, rolePins, known, export, locals>>

validLifecycleTransition(from, to) ==
    CASE from = "draft"      -> to \in {"released", "revoked"}
      [] from = "released"   -> to \in {"released", "deprecated", "revoked"}
      [] from = "deprecated" -> to \in {"deprecated", "released", "revoked"}
      [] OTHER               -> FALSE

\* What is said last, of a release and of the role, before the i-th entry.
LastEntryBefore(entries, i, r) == LastOf({j \in 1 .. i - 1 : Exact(entries[j].rel, r)})
LastStatusBefore(entries, i) == LET j == LastOf({k \in 1 .. i - 1 : entries[k].status # 0}) IN IF j = 0 THEN 0 ELSE entries[j].status

latestLifecycleForRelease(r) == LET i == LastEntryBefore(lifecycle, Len(lifecycle) + 1, r) IN IF i = 0 THEN None ELSE lifecycle[i]
latestRoleStatus == LastStatusBefore(lifecycle, Len(lifecycle) + 1)

\* The hosted state of the exact release, and the role-wide chain of statements.
ValidateHostedLifecycleEntry(r, state, s, previous, prior) ==
    /\ previous # None => previous.state # "revoked" /\ (previous.state # "draft" => previous.status # 0)
    /\ previous # None /\ previous.status # 0 =>
           prior # 0 /\ signed[prior].generation >= signed[previous.status].generation
    /\ IF state = "draft" THEN s = 0 /\ (previous # None => previous.state = "draft")
       ELSE /\ s # 0 /\ (state = "deprecated" => previous # None)
            /\ prior # 0 => ~ (signed[prior].state = "revoked" /\ Exact(signed[prior].rel, r))
            /\ Exact(signed[s].rel, r) /\ VerifyStatus(s, enrolled, now)
            /\ signed[s].state = IF state = "revoked" THEN "revoked" ELSE "active"
            /\ Follows(s, prior)
            /\ previous # None => validLifecycleTransition(previous.state, state)

AppendRoleLifecycle(r, state, s) ==
    /\ lockRoleActor /\ known.sequence = Len(lifecycle) /\ Len(lifecycle) < MaxEntries
    /\ Stored(r)
    /\ latestRoleStatus # 0 => VerifyIssued(latestRoleStatus, enrolled)
    /\ state # "draft" => ValidateHostedRelease(r)
    /\ ValidateHostedLifecycleEntry(r, state, s, latestLifecycleForRelease(r), latestRoleStatus)
    /\ lifecycle' = Append(lifecycle, Entry(r, state, s))
    /\ UNCHANGED <<now, signed, actor, catalog, enrolled, releases, rolePins, known, export, locals>>

-----------------------------------------------------------------------------
(* Exports and hosted pins: the whole history is checked once more.        *)

\* validHostedLifecycleTransition, of the export: a draft may be repeated.
validHostedLifecycleTransition(from, to) == validLifecycleTransition(from, to) \/ (from = "draft" /\ to = "draft")

validateExportLifecycleHistory(entries, keys) ==
    \A i \in 1 .. Len(entries) :
        LET e == entries[i]  p == LastEntryBefore(entries, i, entries[i].rel) IN
        /\ IF p = 0 THEN e.state = "draft" ELSE validHostedLifecycleTransition(entries[p].state, e.state)
        /\ e.status # 0 => /\ VerifyIssued(e.status, keys) /\ Exact(signed[e.status].rel, e.rel)
                           /\ Follows(e.status, LastStatusBefore(entries, i))
        /\ e.state # "draft" => /\ e.status # 0
                                /\ signed[e.status].state = IF e.state = "revoked" THEN "revoked" ELSE "active"

ExportRole(r) ==
    /\ catalog # None
    /\ loadRoleActor("organization.read") /\ authorizeCatalogRead(catalog.team) /\ ensureActiveTeam(catalog.team)
    /\ Stored(r) /\ \A x \in releases : ValidateHostedRelease(x)
    /\ validateExportLifecycleHistory(lifecycle, enrolled)
    /\ export' = [selected |-> r, releases |-> releases, lifecycle |-> lifecycle]
    /\ export' # export
    /\ UNCHANGED <<now, signed, actor, hosted, locals>>

\* The statement a release is used with: released or deprecated, and fresh.
Usable(r) ==
    LET e == latestLifecycleForRelease(r) IN
    /\ e # None /\ e.state \in {"released", "deprecated"} /\ e.status # 0
    /\ signed[e.status].state = "active" /\ Exact(signed[e.status].rel, r) /\ VerifyStatus(e.status, enrolled, now)

permissionForPin(scope) == CASE scope = "organization" -> "organization.manage"
                             [] scope = "team"         -> "team.manage"
                             [] OTHER                  -> "project.manage"

validatePinTarget(scope) ==
    CASE scope = "organization" -> TRUE
      [] scope = "team"    -> /\ ensureActiveTeam("team")
                              /\ roleHasPermission("organization.manage") \/ (roleHasPermission("team.manage") /\ member.team = "team")
      [] OTHER             -> "project" \in live

\* ValidateRolePin: a team's catalog is pinned to no other team.
ValidateRolePin(scope) == scope = "team" /\ catalog.team # None => catalog.team = "team"

SetRolePin(scope, r) ==
    /\ loadRoleActor(permissionForPin(scope)) /\ validatePinTarget(scope)
    /\ known.pins[scope] = Len(rolePins[scope]) /\ Len(rolePins[scope]) < MaxPins
    /\ catalog # None /\ authorizeCatalogRead(catalog.team)
    /\ Stored(r) /\ ValidateHostedRelease(r) /\ validateExportLifecycleHistory(lifecycle, enrolled)
    /\ Usable(r) /\ ValidateRolePin(scope)
    /\ rolePins' = [rolePins EXCEPT ![scope] = Append(@, r)]
    /\ UNCHANGED <<now, signed, actor, catalog, enrolled, releases, lifecycle, known, export, locals>>

\* readRolePinHeads: project, then the member's team, then the organization.
readRolePinHeads == SelectSeq(<<"project", "team", "organization">>,
                        LAMBDA s : s \in Scopes /\ rolePins[s] # <<>> /\ (s = "team" => member.team = "team"))

\* ResolveRole: the pin that comes first decides, and never gives way.
ResolveRole ==
    IF readRolePinHeads = <<>> \/ ~ loadRoleActor("organization.read") \/ ~ authorizeCatalogRead(catalog.team) \/ ~ ensureActiveTeam(catalog.team)
           \/ ~ validateExportLifecycleHistory(lifecycle, enrolled)
    THEN None
    ELSE LET r == Last(rolePins[Head(readRolePinHeads)]) IN IF Usable(r) /\ ValidateHostedRelease(r) THEN r ELSE None

-----------------------------------------------------------------------------
(* The requests of the hosted API, one per endpoint: what a handler checks *)
(* of the request before the repository's transaction decides.  The rate   *)
(* limits can only refuse.                                                 *)

WellFormed(state, s) == state \in States /\ (state = "draft" <=> s = 0)

catalogs(t)            == CreateRoleCatalog(t)
publisher(k)           == EnrollRolePublisher(k)
catalogReleases(r)     == ImportRoleRelease(r)
release(r)             == ExportRole(r)
lifecycleOf(r, state, s) == WellFormed(state, s) /\ AppendRoleLifecycle(r, state, s)
pin(scope, r)          == scope \in Scopes /\ SetRolePin(scope, r)

Manage == \/ \E t \in Teams : catalogs(t)
          \/ \E k \in Keys : publisher(k)
          \/ \E r \in Releases : catalogReleases(r)
          \/ \E r \in releases, state \in States, s \in 0 .. Len(signed) : lifecycleOf(r, state, s)
Export == \E r \in Releases : release(r)
Pin    == \E scope \in Scopes, r \in releases : pin(scope, r)

handle == Manage \/ Export \/ Pin

-----------------------------------------------------------------------------
(* The local registry.  Each statement is a file of the role's directory,  *)
(* named by its generation; a process that dies while it writes one leaves *)
(* the temporary file, and readLifecycleHistory refuses the directory.     *)

Free == task = None

EnrollLocal(k) == /\ k \notin keyring /\ keyring' = keyring \cup {k}
                  /\ UNCHANGED <<now, signed, actor, hosted, export, cache, history, torn, canonical, doc, copy, task>>

EditRole(d) == /\ canonical # d /\ canonical' = d
               /\ UNCHANGED <<now, signed, actor, hosted, export, keyring, cache, history, torn, doc, copy, task>>

\* ReadRelease.
ReadRelease(r) == r \in cache /\ VerifyRelease(r, keyring)

\* storeReleaseLocked and storeCatalogReleaseLocked: a version has one digest.
storeReleaseLocked(r) == VerifyRelease(r, keyring) /\ \A x \in cache : x.version = r.version => x = r

\* readLifecycleHistory, with every statement verified at its issue time.
readLifecycleHistory == ~ torn /\ \A i \in 1 .. Len(history) : VerifyIssued(history[i], keyring)
RevokedBefore(statuses, i, d) == \E j \in 1 .. i - 1 : signed[statuses[j]].state = "revoked" /\ signed[statuses[j]].rel.digest = d
Revoked(statuses, d) == RevokedBefore(statuses, Len(statuses) + 1, d)

\* Mutant: a later statement may make a revoked release active again.
storeLifecycleLockedRevived(s) ==
    \/ \E i \in 1 .. Len(history) : history[i] = s
    \/ /\ readLifecycleHistory /\ Follows(s, IF history = <<>> THEN 0 ELSE Last(history)) /\ ReadRelease(signed[s].rel)

\* storeLifecycleLocked and storeHistoricalLifecycleLocked: a statement that is
\* there already is left alone, another one has to extend the chain.
storeLifecycleLocked(s) ==
    IF signed[s].generation <= Len(history) THEN history[signed[s].generation] = s
    ELSE /\ readLifecycleHistory /\ Follows(s, IF history = <<>> THEN 0 ELSE Last(history))
         /\ signed[s].state = "active" => ~ Revoked(history, signed[s].rel.digest)
         /\ ReadRelease(signed[s].rel)

WriteStatus(s) == history' = IF signed[s].generation <= Len(history) THEN history ELSE Append(history, s)

\* validatePinHistory, of the document as ReadPins decodes it.
validatePinHistory(d) ==
    /\ d.generation = Len(d.changes)
    /\ \A i \in 1 .. Len(d.changes) : d.changes[i].previous = IF i = 1 THEN None ELSE d.changes[i - 1].selected
    /\ d.pin = IF d.changes = <<>> THEN None ELSE Last(d.changes).selected

\* ImportRoleRelease of store: one release and its fresh statement: the release is
\* cached first, and stays when its statement is refused.
ImportRelease(r, s) ==
    /\ Free /\ validatePinHistory(doc) /\ VerifyRelease(r, keyring) /\ VerifyStatus(s, keyring, now) /\ Exact(signed[s].rel, r)
    /\ storeReleaseLocked(r) /\ cache' = cache \cup {r}
    /\ task' = [kind |-> "release", releases |-> {}, statuses |-> <<s>>]
    /\ UNCHANGED <<now, signed, actor, hosted, export, keyring, history, torn, canonical, doc, copy>>

Statuses(entries) == LET I == {i \in 1 .. Len(entries) : entries[i].status # 0}
                         At(n) == CHOOSE i \in I : Cardinality({j \in I : j <= i}) = n
                     IN [n \in 1 .. Cardinality(I) |-> entries[At(n)].status]

\* ImportCatalogExport and ImportRoleCatalogHistory, before anything is stored:
\* the export is complete, one release per version, and the selected release
\* has a fresh statement of its own.
ValidExport(e) ==
    /\ e.lifecycle # <<>> /\ \A x, y \in e.releases : x.version = y.version => x = y
    /\ \A r \in e.releases : VerifyRelease(r, keyring) /\ \E i \in 1 .. Len(e.lifecycle) : Exact(e.lifecycle[i].rel, r) /\ e.lifecycle[i].state = "draft"
    /\ validateExportLifecycleHistory(e.lifecycle, keyring)
    /\ LET new == Statuses(e.lifecycle)
           mine == LastOf({i \in 1 .. Len(new) : Exact(signed[new[i]].rel, e.selected)}) IN
       mine # 0 /\ VerifyStatus(new[mine], keyring, now)

\* preflightRoleCatalogImportLocked: releases agree with the cached ones, and
\* both histories together are one chain in which nothing revoked comes back.
preflightRoleCatalogImportLocked(e) ==
    LET new == Statuses(e.lifecycle)
        all == [i \in 1 .. (IF Len(new) > Len(history) THEN Len(new) ELSE Len(history)) |-> IF i <= Len(history) THEN history[i] ELSE new[i]] IN
    /\ ~ torn
    /\ \A r \in e.releases, x \in cache : x.version = r.version => x = r
    /\ \A i \in 1 .. Len(new) : i <= Len(history) => history[i] = new[i]
    /\ \A i \in 1 .. Len(all) :
           /\ VerifyIssued(all[i], keyring) /\ Follows(all[i], IF i = 1 THEN 0 ELSE all[i - 1])
           /\ signed[all[i]].rel \in e.releases \/ ReadRelease(signed[all[i]].rel)
           /\ signed[all[i]].state = "active" => ~ RevokedBefore(all, i, signed[all[i]].rel.digest)

ImportCatalog ==
    /\ Free /\ validatePinHistory(doc) /\ export # None /\ ValidExport(export) /\ preflightRoleCatalogImportLocked(export)
    /\ task' = [kind |-> "catalog", releases |-> export.releases, statuses |-> Statuses(export.lifecycle)]
    /\ UNCHANGED <<now, signed, actor, hosted, export, keyring, cache, history, torn, canonical, doc, copy>>

StoreNextRelease(r) ==
    /\ ~ Free /\ task.kind = "catalog" /\ r \in task.releases /\ storeReleaseLocked(r)
    /\ cache' = cache \cup {r} /\ task' = [task EXCEPT !.releases = @ \ {r}]
    /\ UNCHANGED <<now, signed, actor, hosted, export, keyring, history, torn, canonical, doc, copy>>

StoreNextStatus ==
    /\ ~ Free /\ task.kind \in {"release", "catalog"} /\ task.releases = {}
    /\ IF storeLifecycleLocked(Head(task.statuses))
       THEN /\ WriteStatus(Head(task.statuses))
            /\ task' = IF Len(task.statuses) = 1 THEN None ELSE [task EXCEPT !.statuses = Tail(@)]
       ELSE task' = None /\ UNCHANGED history
    /\ UNCHANGED <<now, signed, actor, hosted, export, keyring, cache, torn, canonical, doc, copy>>

\* The process dies; while it writes a statement, its temporary file stays.
Die == /\ ~ Free /\ task' = None
       /\ torn' \in IF task.kind \in {"release", "catalog"} THEN {torn, TRUE} ELSE {torn}
       /\ UNCHANGED <<now, signed, actor, hosted, export, keyring, cache, history, canonical, doc, copy>>

-----------------------------------------------------------------------------
(* Selecting a release in the project document.                            *)

\* LifecycleForRelease: the last statement on the exact release decides.
LifecycleForRelease(r) ==
    LET i == LastOf({j \in 1 .. Len(history) : Exact(signed[history[j]].rel, r)}) IN
    /\ readLifecycleHistory /\ i # 0
    /\ signed[history[i]].state = "active" /\ VerifyStatus(history[i], keyring, now) /\ ReadRelease(r)

\* RoleVersionGreater, RoleFileMatches.
RoleVersionGreater(a, b) == a > b
RoleFileMatches(r) == r.digest = canonical

\* Resolve: the pinned release, while its last statement is active and fresh.
Resolve(r) == validatePinHistory(doc) /\ doc.pin = r /\ LifecycleForRelease(r)

\* validateRoleRegistry: what a native admission accepts of a pinned role.
validateRoleRegistry(r) == Resolve(r) /\ RoleFileMatches(r)

\* Select: what the action needs of the pin the owner saw.
Allowed(r, action) ==
    CASE action = "pin"     -> doc.pin = None
      [] action = "upgrade" -> doc.pin # None /\ RoleVersionGreater(r.version, doc.pin.version)
      [] OTHER              -> /\ doc.pin # None /\ ~ Exact(doc.pin, r)
                               /\ \E i \in 1 .. Len(doc.changes) : Exact(doc.changes[i].selected, r)

\* CompareAndSelect, under the registry's and the selection's lock.
CompareAndSelect(r, action) ==
    /\ Free /\ LifecycleForRelease(r) /\ validatePinHistory(doc) /\ doc.generation < MaxPins
    /\ Allowed(r, action) /\ RoleFileMatches(r)
    /\ task' = [kind |-> "select", stage |-> None,
                pins |-> [generation |-> doc.generation + 1, pin |-> r,
                          changes |-> Append(doc.changes, [previous |-> doc.pin, selected |-> r])]]
    /\ UNCHANGED <<now, signed, actor, hosted, export, keyring, cache, history, torn, canonical, doc, copy>>

\* The document is read a second time, and written back with the new pins.
ReadDocument == /\ ~ Free /\ task.kind = "select" /\ task.stage = None /\ task' = [task EXCEPT !.stage = doc.stage]
                /\ UNCHANGED <<now, signed, actor, hosted, export, keyring, cache, history, torn, canonical, doc, copy>>
WriteDocument == /\ ~ Free /\ task.kind = "select" /\ task.stage # None
                 /\ doc' = [generation |-> task.pins.generation, pin |-> task.pins.pin, changes |-> task.pins.changes, stage |-> task.stage]
                 /\ task' = None
                 /\ UNCHANGED <<now, signed, actor, hosted, export, keyring, cache, history, torn, canonical, copy>>

\* Another command loads the project, works, and writes all of it back:
\* Attach and Advance of the gates, SaveProject, UpdateProjectLanding.
LoadProject == /\ copy = None /\ doc.stage < MaxStage /\ copy' = doc
               /\ UNCHANGED <<now, signed, actor, hosted, export, keyring, cache, history, torn, canonical, doc, task>>
SaveProject == /\ copy # None /\ doc' = [copy EXCEPT !.stage = @ + 1] /\ copy' = None
               /\ UNCHANGED <<now, signed, actor, hosted, export, keyring, cache, history, torn, canonical, task>>

-----------------------------------------------------------------------------
Init == /\ now = 0 /\ signed = <<>>
        /\ member = [version |-> 1, active |-> TRUE, expires |-> 0, team |-> "team", grants |-> UNION Grants]
        /\ identity = 1 /\ live = Rows
        /\ catalog = None /\ enrolled = {} /\ releases = {} /\ lifecycle = <<>>
        /\ rolePins = [s \in Scopes |-> <<>>] /\ known = [sequence |-> 0, pins |-> [s \in Scopes |-> 0]]
        /\ export = None /\ keyring = {} /\ cache = {} /\ history = <<>> /\ torn = FALSE /\ canonical \in Contents
        /\ doc = [generation |-> 0, pin |-> None, changes |-> <<>>, stage |-> 0] /\ copy = None /\ task = None

HostedNext == handle \/ Reread

MemberNext ==
    \/ \E g \in Grants, a \in BOOLEAN, x \in {0, now + 1} : UpdateMembership(g, a, x)
    \/ \E row \in Rows : Suspend(row)
    \/ Reverify

PublisherNext == \E r \in Releases, state \in {"active", "revoked"}, prev \in 0 .. Len(signed) : SignStatus(r, state, prev)

LocalNext ==
    \/ \E k \in Trusted : EnrollLocal(k)
    \/ \E r \in Releases, s \in 1 .. Len(signed) : ImportRelease(r, s)
    \/ ImportCatalog \/ StoreNextStatus \/ Die
    \/ \E r \in Releases : StoreNextRelease(r)

SelectNext ==
    \/ \E d \in Contents : EditRole(d)
    \/ \E r \in Releases, a \in {"pin", "upgrade", "rollback"} : CompareAndSelect(r, a)
    \/ ReadDocument \/ WriteDocument \/ LoadProject \/ SaveProject

Next == HostedNext \/ MemberNext \/ PublisherNext \/ LocalNext \/ SelectNext \/ Tick

Spec == Init /\ [][Next]_vars

-----------------------------------------------------------------------------
\* The hosted history always passes the checks an export and a pin make of it:
\* what AppendRoleLifecycle accepts, one entry at a time and with the
\* statements of all releases in one chain, never makes the role unusable.
HistoryIsExportable == validateExportLifecycleHistory(lifecycle, enrolled)

\* Nothing revoked comes back: neither the catalog nor the local registry ever
\* resolves, or selects, a release that one of its entries revoked.
RevokedIsTerminal ==
    /\ ResolveRole # None => \A i \in 1 .. Len(lifecycle) : Exact(lifecycle[i].rel, ResolveRole) => lifecycle[i].state # "revoked"
    /\ \A r \in cache : LifecycleForRelease(r) \/ validateRoleRegistry(r) => ~ Revoked(history, r.digest)

\* An import that passed its preflight is never refused halfway: whatever an
\* earlier import left when its process died, every store that follows succeeds.
ImportsRunThrough ==
    task # None /\ task.kind = "catalog" =>
        /\ \A r \in task.releases : storeReleaseLocked(r)
        /\ task.releases = {} => storeLifecycleLocked(Head(task.statuses))

=============================================================================
