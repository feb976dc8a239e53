------------------------------ MODULE Sessions ------------------------------
(***************************************************************************)
(* Sessions and their delegation (Enroll, Delegate, Revoke, authenticate,  *)
(* Authorize).  Every operation is one storage transaction (AuthorityStore *)
(* shows those to be atomic), so each is one action on the aggregate.      *)
(*                                                                         *)
(* A credential is abstracted to the session it was minted for: a caller   *)
(* that does not hold the credential is refused and changes nothing.  An   *)
(* identifier is minted once and never reused.                             *)
(***************************************************************************)
EXTENDS Naturals, Sequences, FiniteSetTheorems, SequenceTheorems, WellFoundedInduction, TLAPS

CONSTANTS SessionIds,   \* identifiers mint() may produce
          Actions,      \* actions a scope may name
          Resources,    \* resources a scope may name
          NoParent,     \* Parent = "": enrolled by the owner
          MaxTime       \* bound on the clock

ASSUME NoParentIsNoSession == NoParent \notin SessionIds
ASSUME TimeIsNatural == MaxTime \in Nat

VARIABLES sessions,     \* state.Sessions: the issued sessions by identifier
          now           \* the wall clock, assumed never to go back

\* The tenant whose members those sessions work for: its projects, the requests
\* about them and who may make them.
CONSTANTS Projects, Environments, Invitations, Assignments, Home, Subject, Invited, Accounts, Founders, Asks,
          Clients, RoleSets, Lists, None, Limit, Until, MaxCache, MaxVersion, MaxClock, MaxOrdinal

VARIABLES clock, rows, member, tokens, audit, ordinal, projects, calls, page

Tenant == INSTANCE Tenancy WITH now <- clock, cache <- projects, Members <- Founders, MaxTime <- MaxClock

ASSUME TenancyBounds == Tenant!Bounds

\* The roles it hosts, and a checkout that selects them.
CONSTANTS Releases, Grants, Scopes, Teams, Trusted, Contents, Window, MaxDay, MaxSigned, MaxEntries, MaxPins,
          MaxMember, MaxStage

VARIABLES day, signed, actor, identity, live, catalog, enrolled, releases, lifecycle, rolePins, known, export,
          keyring, cache, history, torn, canonical, doc, copy, task

Registry == INSTANCE RoleRegistry WITH now <- day, member <- actor, MaxTime <- MaxDay, MaxVersion <- MaxMember

ASSUME RegistryBounds == Registry!Bounds

vars == <<sessions, now>>

Times == 0 .. MaxTime
Session == [parent : SessionIds \cup {NoParent}, actions : (SUBSET Actions) \ {{}},
            resources : (SUBSET Resources) \ {{}}, expires : Times, revoked : BOOLEAN]

Issued == DOMAIN sessions

-----------------------------------------------------------------------------
(* authenticate.                                                            *)

\* A set that contains the parent of each of its issued members.
ParentClosed(S) == \A x \in S \cap Issued : sessions[x].parent \in S \cup {NoParent}

\* The sessions the loop of authenticate visits, starting from id: id, its
\* parent, and so on.
Lineage(id) == {a \in SessionIds : \A S \in SUBSET SessionIds : id \in S /\ ParentClosed(S) => a \in S}

IsRoot(id) == id \in Issued /\ sessions[id].parent = NoParent

Live(id) == id \in Issued /\ ~ sessions[id].revoked /\ now < sessions[id].expires

\* The loop ends at a root, having met only live sessions and no cycle.
Authenticate(id) == (\A a \in Lineage(id) : Live(a)) /\ (\E a \in Lineage(id) : IsRoot(a))

\* Exact action and resource scope on top of authentication.
Authorize(id, action, resource) ==
    /\ Authenticate(id)
    /\ action \in sessions[id].actions /\ resource \in sessions[id].resources

-----------------------------------------------------------------------------
(* Operations.                                                              *)

Init == sessions = [x \in {} |-> {}] /\ now = 0

Put(id, s) == sessions' = [x \in Issued \cup {id} |-> IF x = id THEN s ELSE sessions[x]]

Record(parent, A, R, e) ==
    [parent |-> parent, actions |-> A, resources |-> R, expires |-> e, revoked |-> FALSE]

\* issue with the owner's credential; validScope refuses an empty scope.
Enroll(id, A, R, e) ==
    /\ id \notin Issued
    /\ A # {} /\ R # {} /\ now < e
    /\ Put(id, Record(NoParent, A, R, e))
    /\ UNCHANGED now

\* Mutant: delegation does not compare the resources.
DelegateWidens(id, parent, A, R, e) ==
    /\ id \notin Issued
    /\ A # {} /\ R # {} /\ now < e
    /\ Authenticate(parent)
    /\ e <= sessions[parent].expires /\ A \subseteq sessions[parent].actions
    /\ Put(id, Record(parent, A, R, e))
    /\ UNCHANGED now

\* issue with the credential of a parent session.
Delegate(id, parent, A, R, e) ==
    /\ id \notin Issued
    /\ A # {} /\ R # {} /\ now < e
    /\ Authenticate(parent)
    /\ e <= sessions[parent].expires
    /\ A \subseteq sessions[parent].actions /\ R \subseteq sessions[parent].resources
    /\ Put(id, Record(parent, A, R, e))
    /\ UNCHANGED now

\* Mutant: Revoke toggles instead of setting.
RevokeToggles(id) ==
    /\ id \in Issued
    /\ Put(id, [sessions[id] EXCEPT !.revoked = ~ @])
    /\ UNCHANGED now

Revoke(id) ==
    /\ id \in Issued
    /\ Put(id, [sessions[id] EXCEPT !.revoked = TRUE])
    /\ UNCHANGED now

Tick == now < MaxTime /\ now' = now + 1 /\ UNCHANGED sessions

Next ==
    \/ Tick
    \/ \E id \in SessionIds : Revoke(id)
    \/ \E id \in SessionIds, A \in SUBSET Actions, R \in SUBSET Resources, e \in Times :
          \/ Enroll(id, A, R, e)
          \/ \E parent \in Issued : Delegate(id, parent, A, R, e)

Spec == Init /\ [][Next]_vars

-----------------------------------------------------------------------------
(* Properties.                                                              *)

\* Issued sessions are well formed and name issued parents.
TypeOK ==
    /\ Issued \subseteq SessionIds /\ sessions \in [Issued -> Session]
    /\ \A id \in Issued : sessions[id].parent \in Issued \cup {NoParent}
    /\ now \in Times

\* Delegate "cannot widen its scope or lifetime": whatever a session may do
\* at some moment, every session it descends from may do at that moment.
NoAmplification ==
    \A id \in Issued : \A a \in Lineage(id), x \in Actions, r \in Resources :
        Authorize(id, x, r) => Authorize(a, x, r)

\* Revoke, expiry: a session that is refused is refused for ever, and so is
\* everything delegated from it; no later operation brings it back.
DenialIsFinal ==
    [][\A id \in Issued : ~ Authenticate(id) => ~ Authenticate(id)']_vars

\* historicalWorkerFamily, rootSession: every session belongs to the family of
\* exactly one owner-enrolled session, also after revocation and expiry.
OneFamily ==
    \A id \in Issued : \E r \in Lineage(id) :
        IsRoot(r) /\ \A q \in Lineage(id) : IsRoot(q) => q = r

\* Every version of every row has its one audit event, whatever clients repeat,
\* share or abandon; and a traversal lists what was there once.
TenancyHolds == Tenant!AuditTellsAll /\ Tenant!PagesTile

\* The hosted history passes the checks of an export, no release that was
\* revoked is resolved or selected again, and an import that passed its
\* preflight is not refused halfway.
RegistryHolds == Registry!HistoryIsExportable /\ Registry!RevokedIsTerminal /\ Registry!ImportsRunThrough

-----------------------------------------------------------------------------
(* The proofs, for any number of sessions, actions and resources.          *)
(* Lineage(id) is the least parent-closed set around id; every fact about  *)
(* it is obtained by exhibiting a closed set.                              *)

\* What Delegate establishes on one edge and no later operation disturbs.
Attenuated ==
    \A id \in Issued : sessions[id].parent # NoParent =>
        LET p == sessions[sessions[id].parent] IN
        /\ sessions[id].actions \subseteq p.actions
        /\ sessions[id].resources \subseteq p.resources
        /\ sessions[id].expires <= p.expires

\* authenticate's loop ends at an enrolled session.
Rooted == \A id \in Issued : \E r \in Lineage(id) : IsRoot(r)

Inv == TypeOK /\ Attenuated

-----------------------------------------------------------------------------
(* Lineages.                                                                *)

\* authenticate looks at the session itself first.
LEMMA LineageSelf == \A id \in SessionIds : id \in Lineage(id)
BY DEF Lineage

\* The ancestors of an ancestor are ancestors.
LEMMA LineageTransitive ==
    ASSUME NEW id, NEW a \in Lineage(id), NEW b \in Lineage(a)
    PROVE  b \in Lineage(id)
BY DEF Lineage

\* authenticate follows every parent it meets.
LEMMA LineageClosed ==
    ASSUME TypeOK, NEW id, NEW x \in Lineage(id) \cap Issued, sessions[x].parent # NoParent
    PROVE  sessions[x].parent \in Lineage(id)
<1>1. sessions[x].parent \in SessionIds
  BY DEF TypeOK, Session
<1> QED BY <1>1 DEF Lineage, ParentClosed

\* authenticate stops at an enrolled session.
LEMMA LineageOfRoot ==
    ASSUME NEW r \in SessionIds, IsRoot(r), NEW a \in Lineage(r)
    PROVE  a = r
<1>1. ParentClosed({r})
  BY DEF ParentClosed, IsRoot
<1> QED BY <1>1 DEF Lineage

\* Any other ancestor is an ancestor of the parent.
LEMMA LineageViaParent ==
    ASSUME TypeOK, NEW x \in Issued, NEW a \in Lineage(x), a # x
    PROVE  sessions[x].parent \in SessionIds /\ a \in Lineage(sessions[x].parent)
<1>0. x \in SessionIds /\ sessions[x].parent \in SessionIds \cup {NoParent}
  BY DEF TypeOK, Session
<1>1. sessions[x].parent # NoParent
  BY <1>0, LineageOfRoot DEF IsRoot
<1>2. ASSUME NEW T \in SUBSET SessionIds, sessions[x].parent \in T, ParentClosed(T)
      PROVE  a \in T
  <2>1. ParentClosed(T \cup {x})
    BY <1>2 DEF ParentClosed
  <2>2. a \in T \cup {x}
    BY <2>1, <1>0 DEF Lineage
  <2> QED BY <2>2
<1>3. a \in SessionIds
  BY DEF Lineage
<1> QED BY <1>0, <1>1, <1>2, <1>3 DEF Lineage

\* The loop is a chain: two ancestors of a session are ordered.
LEMMA LineageChain ==
    ASSUME TypeOK, NEW id \in SessionIds, NEW a \in Lineage(id), NEW b \in Lineage(id)
    PROVE  a \in Lineage(b) \/ b \in Lineage(a)
<1> DEFINE S == {x \in SessionIds : a \in Lineage(x)} \cup Lineage(a)
<1>0. a \in SessionIds /\ Lineage(a) \subseteq SessionIds
  BY DEF Lineage
<1>1. ParentClosed(S)
  <2> SUFFICES ASSUME NEW x \in S \cap Issued, sessions[x].parent # NoParent
               PROVE  sessions[x].parent \in S
    BY DEF ParentClosed
  <2>1. CASE x \in Lineage(a)
    BY <2>1, LineageClosed
  <2>2. CASE x \notin Lineage(a)
    <3>1. x # a
      BY <2>2, <1>0, LineageSelf
    <3> QED BY <3>1, <2>2, LineageViaParent
  <2> QED BY <2>1, <2>2
<1>2. id \in S
  OBVIOUS
<1>3. b \in S
  BY <1>0, <1>1, <1>2 DEF Lineage
<1> QED BY <1>3

\* Roots are unique: authenticate, rootSession and historicalWorkerFamily
\* end at the same session wherever in the lineage they start.
LEMMA UniqueRoot ==
    ASSUME TypeOK, NEW id \in SessionIds, NEW r \in Lineage(id), NEW q \in Lineage(id),
           IsRoot(r), IsRoot(q)
    PROVE  r = q
<1>1. r \in SessionIds /\ q \in SessionIds
  BY DEF Lineage
<1> QED BY <1>1, LineageChain, LineageOfRoot

\* Scope and lifetime only shrink along a lineage.
LEMMA LineageDominates ==
    ASSUME Inv, NEW id \in Issued, NEW a \in Lineage(id)
    PROVE  /\ a \in Issued
           /\ sessions[id].actions \subseteq sessions[a].actions
           /\ sessions[id].resources \subseteq sessions[a].resources
           /\ sessions[id].expires <= sessions[a].expires
<1> DEFINE S == {x \in Issued : /\ sessions[id].actions \subseteq sessions[x].actions
                                /\ sessions[id].resources \subseteq sessions[x].resources
                                /\ sessions[id].expires <= sessions[x].expires}
<1>1. /\ S \subseteq SessionIds
      /\ \A x \in Issued : /\ sessions[x].parent \in Issued \cup {NoParent}
                            /\ sessions[x].expires \in Nat
  BY TimeIsNatural DEF Inv, TypeOK, Session, Times
<1>2. id \in S
  BY <1>1
<1>3. ParentClosed(S)
  <2> SUFFICES ASSUME NEW x \in S, sessions[x].parent # NoParent
               PROVE  sessions[x].parent \in S
    BY DEF ParentClosed
  <2>1. sessions[x].parent \in Issued
    BY <1>1
  <2> QED BY <1>1, <2>1 DEF Inv, Attenuated
<1> QED BY <1>1, <1>2, <1>3 DEF Lineage

-----------------------------------------------------------------------------
(* The invariant.                                                           *)

\* What any step leaves alone: sessions stay issued with parent, scope and
\* expiry, stay revoked, and the clock does not go back.
Preserved ==
    /\ Issued \subseteq Issued'
    /\ \A x \in Issued :
        /\ sessions'[x].parent = sessions[x].parent
        /\ sessions'[x].actions = sessions[x].actions
        /\ sessions'[x].resources = sessions[x].resources
        /\ sessions'[x].expires = sessions[x].expires
        /\ sessions[x].revoked => sessions'[x].revoked
    /\ now <= now'

\* A step issues no session, or one session: enrolled, or delegated by a
\* session that authenticates.
LEMMA Steps ==
    ASSUME TypeOK, [Next]_vars
    PROVE  /\ Preserved
           /\ TypeOK'
           /\ \A x \in Issued' \ Issued : sessions'[x].parent # NoParent =>
                 LET p == sessions'[x].parent IN
                 /\ p \in Issued /\ Authenticate(p)
                 /\ sessions'[x].actions \subseteq sessions[p].actions
                 /\ sessions'[x].resources \subseteq sessions[p].resources
                 /\ sessions'[x].expires <= sessions[p].expires
<1>0. /\ now \in Nat /\ MaxTime \in Nat
      /\ \A x \in Issued : sessions[x] \in Session
  BY TimeIsNatural DEF TypeOK, Times
<1>1. CASE Tick
  BY <1>0, <1>1 DEF Tick, Preserved, TypeOK, Times, Issued
<1>2. CASE \E id \in SessionIds : Revoke(id)
  <2> PICK id \in SessionIds : Revoke(id)
    BY <1>2
  <2>1. /\ Issued' = Issued /\ now' = now
        /\ \A x \in Issued : sessions'[x] = IF x = id THEN [sessions[id] EXCEPT !.revoked = TRUE]
                                            ELSE sessions[x]
        /\ sessions' \in [Issued -> Session]
    BY <1>0 DEF Revoke, Put, Issued, Session
  <2> QED BY <1>0, <2>1 DEF Preserved, TypeOK, Session
<1>3. ASSUME NEW id \in SessionIds, NEW A \in SUBSET Actions, NEW R \in SUBSET Resources,
             NEW e \in Times, NEW parent, Put(id, Record(parent, A, R, e)), id \notin Issued,
             A # {}, R # {}, UNCHANGED now,
             \/ parent = NoParent
             \/ /\ parent \in Issued /\ Authenticate(parent)
                /\ e <= sessions[parent].expires
                /\ A \subseteq sessions[parent].actions /\ R \subseteq sessions[parent].resources
      PROVE  /\ Preserved /\ TypeOK'
             /\ \A x \in Issued' \ Issued : sessions'[x].parent # NoParent =>
                 LET p == sessions'[x].parent IN
                 /\ p \in Issued /\ Authenticate(p)
                 /\ sessions'[x].actions \subseteq sessions[p].actions
                 /\ sessions'[x].resources \subseteq sessions[p].resources
                 /\ sessions'[x].expires <= sessions[p].expires
  <2>1. Record(parent, A, R, e) \in Session
    BY <1>3 DEF Record, Session, TypeOK
  <2>2. /\ Issued' = Issued \cup {id} /\ now' = now
        /\ \A x \in Issued : sessions'[x] = sessions[x]
        /\ sessions'[id] = Record(parent, A, R, e)
        /\ sessions' \in [Issued' -> Session]
    BY <1>0, <1>3, <2>1 DEF Put, Issued
  <2>3. /\ sessions'[id].parent = parent /\ sessions'[id].actions = A
        /\ sessions'[id].resources = R /\ sessions'[id].expires = e
    BY <2>2 DEF Record
  <2>4. Preserved
    BY <1>0, <2>2 DEF Preserved
  <2>5. TypeOK'
    BY <1>3, <2>2, <2>3 DEF TypeOK
  <2>6. Issued' \ Issued = {id}
    BY <1>3, <2>2
  <2> QED BY <1>3, <2>3, <2>4, <2>5, <2>6
<1>4. CASE \E id \in SessionIds, A \in SUBSET Actions, R \in SUBSET Resources, e \in Times :
              Enroll(id, A, R, e)
  <2> PICK id \in SessionIds, A \in SUBSET Actions, R \in SUBSET Resources, e \in Times :
              Enroll(id, A, R, e)
    BY <1>4
  <2> QED BY <1>3 DEF Enroll
<1>5. CASE \E id \in SessionIds, A \in SUBSET Actions, R \in SUBSET Resources, e \in Times :
              \E parent \in Issued : Delegate(id, parent, A, R, e)
  <2> PICK id \in SessionIds, A \in SUBSET Actions, R \in SUBSET Resources, e \in Times,
           parent \in Issued : Delegate(id, parent, A, R, e)
    BY <1>5
  <2> QED BY <1>3 DEF Delegate
<1>6. CASE UNCHANGED vars
  BY <1>0, <1>6 DEF vars, Preserved, TypeOK, Issued
<1> QED BY <1>1, <1>2, <1>4, <1>5, <1>6 DEF Next

\* The lineage of an issued session never changes.
LEMMA LineageFixed ==
    ASSUME Inv, Preserved, NEW id \in Issued
    PROVE  Lineage(id)' = Lineage(id)
<1>1. Lineage(id) \subseteq Issued
  BY LineageDominates
<1>2. ASSUME NEW S \in SUBSET SessionIds, ParentClosed(S)' PROVE ParentClosed(S)
  BY <1>2 DEF Preserved, ParentClosed
<1>3. Lineage(id) \subseteq Lineage(id)'
  BY <1>2 DEF Lineage
<1>4. ParentClosed(Lineage(id))
  BY LineageClosed DEF ParentClosed, Inv
<1> PICK L : L = Lineage(id)
  OBVIOUS
<1>5. ParentClosed(L)'
  BY <1>1, <1>4 DEF ParentClosed, Preserved
<1>6. id \in L /\ L \in SUBSET SessionIds
  BY LineageSelf DEF Inv, TypeOK, Lineage
<1>7. Lineage(id)' \subseteq L
  BY <1>5, <1>6 DEF Lineage
<1> QED BY <1>3, <1>7

\* A session refused before a step is refused after it.
LEMMA DenialPersists ==
    ASSUME Inv, Preserved, now \in Nat, now' \in Nat, NEW id \in Issued, Authenticate(id)'
    PROVE  Authenticate(id)
<1>1. Lineage(id)' = Lineage(id) /\ Lineage(id) \subseteq Issued
  BY LineageFixed, LineageDominates
<1>2. \A a \in Issued : sessions[a].expires \in Nat
  BY TimeIsNatural DEF Inv, TypeOK, Session, Times
<1>3. \A a \in Issued : Live(a)' => Live(a)
  BY <1>2 DEF Live, Preserved
<1>4. \A a \in Issued : IsRoot(a)' => IsRoot(a)
  BY DEF IsRoot, Preserved
<1> QED BY <1>1, <1>3, <1>4 DEF Authenticate

-----------------------------------------------------------------------------
(* Theorems.                                                                *)

\* Every reachable authority has well-formed sessions, each attenuated with
\* respect to its parent (issue, Revoke).
THEOREM Invariance == Spec => []Inv
<1>1. Init => Inv
  BY TimeIsNatural DEF Init, Inv, TypeOK, Attenuated, Issued, Times
<1>2. Inv /\ [Next]_vars => Inv'
  <2> SUFFICES ASSUME Inv, [Next]_vars PROVE Attenuated'
    BY Steps DEF Inv
  <2>1. TypeOK /\ Preserved
    BY Steps DEF Inv
  <2> SUFFICES ASSUME NEW x \in Issued', sessions'[x].parent # NoParent
               PROVE  LET p == sessions'[sessions'[x].parent] IN
                      /\ sessions'[x].actions \subseteq p.actions
                      /\ sessions'[x].resources \subseteq p.resources
                      /\ sessions'[x].expires <= p.expires
    BY DEF Attenuated
  <2>2. CASE x \in Issued
    BY <2>1, <2>2 DEF Inv, TypeOK, Attenuated, Preserved
  <2>3. CASE x \notin Issued
    BY <2>1, <2>3, Steps DEF Preserved
  <2> QED BY <2>2, <2>3
<1> QED BY <1>1, <1>2, PTL DEF Spec

\* Issued sessions stay well formed and name issued parents (validateAuthorityMaps).
THEOREM TypeCorrect == Spec => []TypeOK
BY Invariance, PTL DEF Inv

\* Delegate cannot widen: whatever a session may do, every session it descends
\* from may do at the same moment.
THEOREM Attenuation == Spec => []NoAmplification
<1>1. Inv => NoAmplification
  <2> SUFFICES ASSUME Inv, NEW id \in Issued, NEW a \in Lineage(id), NEW x \in Actions,
                      NEW r \in Resources, Authorize(id, x, r)
               PROVE  Authorize(a, x, r)
    BY DEF NoAmplification
  <2>0. id \in SessionIds /\ a \in SessionIds
    BY DEF Inv, TypeOK, Lineage
  <2>1. x \in sessions[a].actions /\ r \in sessions[a].resources
    BY LineageDominates DEF Authorize
  <2>2. \A b \in Lineage(a) : Live(b)
    BY LineageTransitive DEF Authorize, Authenticate
  <2>3. PICK q \in Lineage(id) : IsRoot(q)
    BY DEF Authorize, Authenticate
  <2>4. a \in Lineage(q) => a = q
    BY <2>3, LineageOfRoot DEF Lineage
  <2>5. q \in Lineage(a)
    BY <2>0, <2>3, <2>4, LineageChain, LineageSelf DEF Inv
  <2> QED BY <2>1, <2>2, <2>3, <2>5 DEF Authorize, Authenticate
<1> QED BY <1>1, Invariance, PTL

\* Revocation and expiry are final for a session and all its descendants.
THEOREM Finality == Spec => DenialIsFinal
<1>1. Inv /\ Inv' /\ [Next]_vars
        => [\A id \in Issued : ~ Authenticate(id) => ~ Authenticate(id)']_vars
  BY Steps, DenialPersists, TimeIsNatural DEF Inv, TypeOK, Times
<1> QED BY <1>1, Invariance, PTL DEF Spec, DenialIsFinal

\* Every session, also a revoked or expired one, belongs to the family of
\* exactly one owner-enrolled session.
THEOREM Families == Spec => []OneFamily
<1>1. Init => Rooted
  BY DEF Init, Rooted, Issued
<1>2. Inv /\ Inv' /\ Rooted /\ [Next]_vars => Rooted'
  <2> SUFFICES ASSUME Inv, Inv', Rooted, [Next]_vars, NEW id \in Issued'
               PROVE  \E r \in Lineage(id)' : IsRoot(r)'
    BY DEF Rooted
  <2>1. TypeOK /\ Preserved /\ TypeOK'
    BY Steps DEF Inv
  <2>2. ASSUME NEW x \in Issued PROVE \E r \in Lineage(x)' : IsRoot(r)'
    <3>1. PICK r \in Lineage(x) : IsRoot(r)
      BY DEF Rooted
    <3> QED BY <2>1, <3>1, LineageFixed DEF IsRoot, Preserved
  <2>3. CASE id \notin Issued /\ sessions'[id].parent = NoParent
    <3>1. id \in Lineage(id)'
      BY <2>1 DEF Lineage, TypeOK
    <3> QED BY <2>3, <3>1 DEF IsRoot
  <2>4. CASE id \notin Issued /\ sessions'[id].parent # NoParent
    <3> PICK p : p = sessions'[id].parent
      OBVIOUS
    <3>1. p \in Issued /\ p \in SessionIds
      BY <2>1, <2>4, Steps DEF TypeOK
    <3>2. ASSUME NEW r \in Lineage(p)' PROVE r \in Lineage(id)'
      BY <2>4, <3>1 DEF Lineage, ParentClosed
    <3> QED BY <2>2, <3>1, <3>2
  <2> QED BY <2>2, <2>3, <2>4
<1>3. Inv /\ Rooted => OneFamily
  <2> SUFFICES ASSUME Inv, Rooted, NEW id \in Issued
               PROVE  \E r \in Lineage(id) : IsRoot(r) /\ \A q \in Lineage(id) : IsRoot(q) => q = r
    BY DEF OneFamily
  <2>1. id \in SessionIds /\ TypeOK
    BY DEF Inv, TypeOK
  <2> QED BY <2>1, UniqueRoot DEF Rooted
<1> QED BY <1>1, <1>2, <1>3, Invariance, PTL DEF Spec

-----------------------------------------------------------------------------
(* The tenancy, for any requests, clients, memberships, lists and bounds:  *)
(* what a request, a cached entry, a row and a traversal may be.           *)

Phases == {"new", "load", "write", "inserted", "failed", "invalidate", "lookup", "put", "answered"}
Causes == {"", "ok", "invalid", "denied", "not_found", "conflict", "persistence", "unavailable", "dependency"}
Call == [phase : Phases, ask : Tenant!Requests, seen : Nat, cause : Causes,
         value : Tenant!Values \cup {None}, ordinal : 0 .. MaxOrdinal]
Entry == [key : [target : Tenant!Targets, subject : Accounts, version : Nat, member : Nat], value : Tenant!Values]
Member == [version : Nat \ {0}, roles : {{"owner"}, {"developer"}} \cup RoleSets, active : BOOLEAN, expires : Nat]
Listed == [of : Lists, snapshot : 0 .. MaxOrdinal, after : 0 .. MaxOrdinal, start : SUBSET Tenant!Targets,
           seen : UNION {[S -> 0 .. 1] : S \in SUBSET Tenant!Targets}]

\* The types of what is stored, running and listed.
TenancyTyped ==
    /\ clock \in Nat /\ ordinal \in 0 .. MaxOrdinal
    /\ rows \in [Tenant!Targets -> Tenant!Row \cup {None}]
    /\ member \in [Accounts -> Member \cup {None}]
    /\ tokens \in [Accounts -> Nat]
    /\ audit \in [Tenant!Keys -> Tenant!Event \cup {None}]
    /\ projects \in Seq(Entry)
    /\ calls \in [Clients -> Call \cup {Tenant!Idle}]
    /\ page \in Listed \cup {None}

\* mutate: each version of each row has its one event, the last one with the
\* row's value, and nothing else is called a success.
EachVersionTold ==
    \A t \in Tenant!Targets : rows[t] # None => 
        /\ \A v \in 1 .. rows[t].version : \E k \in Tenant!Keys : Tenant!Succeeded(t, v) = {k}
        /\ \A k \in Tenant!Succeeded(t, rows[t].version) : audit[k].value = rows[t].value
OnlyVersionsTold ==
    \A k \in Tenant!Keys : audit[k] # None /\ audit[k].result = "succeeded" /\ audit[k].target \in Tenant!Targets =>
        /\ rows[audit[k].target] # None
        /\ audit[k].after <= rows[audit[k].target].version

\* Get, Put: what is read for a version was written as that version.
WrittenAs(t, v, value) == \E k \in Tenant!Succeeded(t, v) : audit[k].value = value
CacheIsTrue == \A i \in 1 .. Len(projects) : WrittenAs(projects[i].key.target, projects[i].key.version, projects[i].value)

\* A request: who was refused finds the evidence of it, what was read is true,
\* only a read looks into the cache, and an insert has its ordinal.
CallTrue(x) ==
    /\ x.phase = "answered" /\ x.cause \in {"unavailable", "conflict"} /\ Tenant!Routed(x.ask) =>
           audit[<<x.ask.id, "">>] # None /\ audit[<<x.ask.id, "">>].result # "succeeded"
    /\ x.phase = "put" => x.value \in Tenant!Values /\ WrittenAs(x.ask.target, x.ask.expected, x.value)
    /\ x.phase \in {"lookup", "put"} => ~ Tenant!Routed(x.ask)
    /\ x.phase = "inserted" => x.ordinal \in 1 .. MaxOrdinal
CallsAreTrue == \A c \in Clients : CallTrue(calls[c])

\* pageRequest: what the cursor has passed was listed once, and nothing else was.
CursorIsTrue ==
    page # None =>
        /\ DOMAIN page.seen \subseteq Tenant!Visible(page.of) /\ page.start \subseteq DOMAIN page.seen
        /\ \A t \in DOMAIN page.seen : page.seen[t] = 1 => page.after = 0 \/ rows[t].ordinal <= page.after
        /\ \A t \in page.start : /\ rows[t].ordinal <= page.snapshot
                                 /\ page.after = 0 \/ rows[t].ordinal <= page.after => page.seen[t] = 1

TenancyInv == /\ TenancyTyped /\ EachVersionTold /\ OnlyVersionsTold /\ CacheIsTrue
              /\ CallsAreTrue /\ CursorIsTrue

-----------------------------------------------------------------------------
(* Lemmas: numbers, audit events, writes.                                  *)

\* A non-empty set of numbers has a least member.
LEMMA Least ==
    ASSUME NEW S \in SUBSET Nat, S # {}
    PROVE  \E x \in S : \A y \in S : x <= y
<1>1. IsWellFoundedOn({rs \in Nat \X Nat : rs[1] < rs[2]}, Nat)
  BY NatLessThanWellFounded DEF OpToRel
<1>2. PICK x \in S : \A y \in S : ~(<<y, x>> \in {rs \in Nat \X Nat : rs[1] < rs[2]})
  BY <1>1, WFMin
<1>3. ASSUME NEW y \in S PROVE x <= y
  <2>1. <<y, x>> \in Nat \X Nat /\ <<y, x>>[1] = y /\ <<y, x>>[2] = x
    OBVIOUS
  <2>2. ~(y < x)
    BY <1>2, <2>1
  <2> QED BY <2>2
<1> QED BY <1>3

\* And a greatest one, when it is bounded.
LEMMA Greatest ==
    ASSUME NEW n \in Nat, NEW S \in SUBSET (0 .. n), S # {}
    PROVE  \E x \in S : \A y \in S : y <= x
<1> DEFINE T == {n - x : x \in S}
<1>1. T \in SUBSET Nat
  OBVIOUS
<1>2. T # {}
  OBVIOUS
<1>3. \E t \in T : \A u \in T : t <= u
  <2> HIDE DEF T
  <2> QED BY <1>1, <1>2, Least
<1>4. PICK t \in T : \A u \in T : t <= u
  BY <1>3
<1>5. PICK x \in S : t = n - x
  BY <1>4
<1>6. ASSUME NEW y \in S PROVE y <= x
  <2>1. n - x <= n - y
    BY <1>4, <1>5
  <2>2. x \in 0 .. n /\ y \in 0 .. n
    OBVIOUS
  <2> QED BY <2>1, <2>2
<1> QED BY <1>6

\* It is what pageSnapshot and Next choose.
LEMMA MaxIs ==
    ASSUME NEW n \in Nat, NEW S \in SUBSET (0 .. n), S # {}
    PROVE  Tenant!MaxOf(S) \in S /\ \A y \in S : y <= Tenant!MaxOf(S)
<1>1. \E x \in S : \A y \in S : y <= x
  BY Greatest
<1> QED BY <1>1 DEF Tenant!MaxOf

Trails == [Tenant!Keys -> Tenant!Event \cup {None}]

\* appendAudit writes one event, over none.
LEMMA AppendIs ==
    ASSUME NEW log \in Trails, NEW k \in Tenant!Keys, NEW e \in Tenant!Event, Tenant!appendAudit(log, k, e) # None
    PROVE  /\ Tenant!appendAudit(log, k, e) \in Trails
           /\ Tenant!appendAudit(log, k, e)[k] = e
           /\ log[k] \in {None, e}
           /\ \A j \in Tenant!Keys : j # k => Tenant!appendAudit(log, k, e)[j] = log[j]
BY DEF Tenant!appendAudit, Trails

\* NewAuditEvent and NewAuditAttempt make events.
LEMMA EventsAre ==
    ASSUME NEW a \in Tenant!Requests, NEW row \in Tenant!Row, NEW cause \in Causes, Tenant!Bounds
    PROVE  /\ Tenant!NewAuditEvent(a.actor, a.target, row.version, row.value) \in Tenant!Event
           /\ Tenant!NewAuditEvent(a.actor, a.actor, 1, Tenant!Joined(a)) \in Tenant!Event
           /\ Tenant!NewAuditAttempt(a, Tenant!failureEvidence(cause)) \in Tenant!Event
           /\ Tenant!NewAuditAttempt(a, Tenant!failureEvidence(cause)).result # "succeeded"
           /\ <<a.id, Tenant!Part(a)>> \in Tenant!Keys /\ <<a.id, "membership">> \in Tenant!Keys /\ <<a.id, "">> \in Tenant!Keys
<1>1. /\ a.actor \in Accounts /\ a.target \in Tenant!Targets /\ row.version \in Nat /\ row.value \in Tenant!Values /\ a.expected + 1 \in Nat
      /\ a.id \in {b.id : b \in Asks}
  BY DEF Tenant!Requests, Tenant!Row
<1>2. Tenant!Joined(a) \in Tenant!Values
  BY <1>1 DEF Tenant!Joined, Tenant!Values
<1>3. [name |-> a.name, state |-> a.state] \in Tenant!Values
  BY DEF Tenant!Requests, Tenant!Values
<1>4. Tenant!failureEvidence(cause) \in {"refused", "conflict", "failed"}
  BY DEF Tenant!failureEvidence
<1>5. /\ Tenant!NewAuditEvent(a.actor, a.target, row.version, row.value) \in Tenant!Event
      /\ Tenant!NewAuditEvent(a.actor, a.actor, 1, Tenant!Joined(a)) \in Tenant!Event
  BY <1>1, <1>2 DEF Tenant!NewAuditEvent, Tenant!Event
<1>6. /\ Tenant!NewAuditAttempt(a, Tenant!failureEvidence(cause)) \in Tenant!Event
      /\ Tenant!NewAuditAttempt(a, Tenant!failureEvidence(cause)).result # "succeeded"
  BY <1>1, <1>3, <1>4 DEF Tenant!NewAuditAttempt, Tenant!Event
<1> QED BY <1>1, <1>5, <1>6 DEF Tenant!Keys, Tenant!Part

\* The events of a write are added to the trail: one about the row, and
\* perhaps one about a membership.
LEMMA LoggedIs ==
    ASSUME audit \in Trails, Tenant!Bounds, NEW a \in Tenant!Requests, NEW row \in Tenant!Row, Tenant!Logged(a, row) # None
    PROVE  /\ Tenant!Logged(a, row) \in Trails
           /\ Tenant!Logged(a, row)[<<a.id, Tenant!Part(a)>>] = Tenant!NewAuditEvent(a.actor, a.target, row.version, row.value)
           /\ audit[<<a.id, Tenant!Part(a)>>] \in {None, Tenant!NewAuditEvent(a.actor, a.target, row.version, row.value)}
           /\ \A j \in Tenant!Keys : audit[j] # None => Tenant!Logged(a, row)[j] = audit[j]
           /\ \A j \in Tenant!Keys : j # <<a.id, Tenant!Part(a)>> =>
                  Tenant!Logged(a, row)[j] = audit[j] \/ Tenant!Logged(a, row)[j].target \notin Tenant!Targets
<1> DEFINE k == <<a.id, Tenant!Part(a)>>  m == <<a.id, "membership">>
           e == Tenant!NewAuditEvent(a.actor, a.target, row.version, row.value)
           f == Tenant!NewAuditEvent(a.actor, a.actor, 1, Tenant!Joined(a))
           first == Tenant!appendAudit(audit, k, e)
<1>1. e \in Tenant!Event /\ f \in Tenant!Event /\ k \in Tenant!Keys /\ m \in Tenant!Keys /\ k # m
  BY EventsAre DEF Causes, Tenant!Part
<1>2. f.target \notin Tenant!Targets
  BY DEF Tenant!NewAuditEvent, Tenant!Bounds, Tenant!Requests
<1>3. Tenant!Logged(a, row) = IF a.kind # "accept" \/ first = None THEN first ELSE Tenant!appendAudit(first, m, f)
  BY DEF Tenant!Logged
<1>4. first # None
  BY <1>3
<1>5. /\ first \in Trails /\ first[k] = e /\ audit[k] \in {None, e}
      /\ \A j \in Tenant!Keys : j # k => first[j] = audit[j]
  <2> HIDE DEF k, e
  <2> QED BY <1>1, <1>4, AppendIs DEF first
<1>6. CASE a.kind # "accept"
  <2> HIDE DEF k, m, e, f, first
  <2> QED BY <1>1, <1>3, <1>5, <1>6 DEF k, e
<1>7. CASE a.kind = "accept"
  <2> DEFINE L == Tenant!appendAudit(first, m, f)
  <2>1. Tenant!Logged(a, row) = L
    BY <1>3, <1>4, <1>7
  <2>2. /\ L \in Trails /\ L[m] = f /\ first[m] \in {None, f} /\ \A j \in Tenant!Keys : j # m => L[j] = first[j]
    <3> HIDE DEF m, f, first
    <3> QED BY <1>1, <1>5, <2>1, AppendIs DEF L
  <2>3. \A j \in Tenant!Keys : audit[j] # None => L[j] = audit[j]
    <3> HIDE DEF k, m, e, f, first, L
    <3> QED BY <1>1, <1>5, <2>2
  <2>4. \A j \in Tenant!Keys : j # k => L[j] = audit[j] \/ L[j].target \notin Tenant!Targets
    <3> HIDE DEF k, m, e, f, first, L
    <3> QED BY <1>1, <1>2, <1>5, <2>2
  <2>5. L[k] = e
    <3> HIDE DEF k, m, e, f, first, L
    <3> QED BY <1>1, <1>5, <2>2
  <2> HIDE DEF k, m, e, f, first, L
  <2> QED BY <1>5, <2>1, <2>2, <2>3, <2>4, <2>5 DEF k, e
<1> QED BY <1>6, <1>7

\* A stored row is new, at version 1, or the next version of the one before.
LEMMA CreateIs ==
    ASSUME TenancyTyped, Tenant!Bounds, NEW a \in Tenant!Requests, NEW o \in 1 .. MaxOrdinal, Tenant!Create(a, o).code = "ok"
    PROVE  /\ rows[a.target] = None /\ Tenant!Create(a, o).row \in Tenant!Row
           /\ Tenant!Create(a, o).row.version = 1
<1> DEFINE R(state) == Tenant!Store([name |-> a.name, state |-> state], 1, o)
<1>1. \/ Tenant!Create(a, o) = Tenant!CreateProject(a, o) \/ Tenant!Create(a, o) = Tenant!CreateEnvironment(a, o)
      \/ Tenant!Create(a, o) = Tenant!IssueInvitation(a, o) \/ Tenant!Create(a, o) = Tenant!createAssignment(a, o)
  BY DEF Tenant!Create
<1>2. rows[a.target] = None /\ (Tenant!Create(a, o) = R("active") \/ Tenant!Create(a, o) = R("pending"))
  BY <1>1 DEF Tenant!CreateProject, Tenant!CreateEnvironment, Tenant!IssueInvitation, Tenant!createAssignment,
     Tenant!New, Tenant!Refuse
<1>3. \A s \in {"active", "pending"} : [name |-> a.name, state |-> s] \in Tenant!Values
  BY DEF Tenant!Requests, Tenant!Values
<1>4. \A s \in {"active", "pending"} : R(s).row \in Tenant!Row /\ R(s).row.version = 1
  BY <1>3 DEF Tenant!Store, Tenant!Row
<1> QED BY <1>2, <1>4

\* A change is the next version of the row it was made of, in its place.
LEMMA ChangedIs ==
    ASSUME TenancyTyped, Tenant!Bounds, NEW a \in Tenant!Requests, Tenant!Changed(a).code = "ok"
    PROVE  /\ rows[a.target] # None /\ Tenant!Changed(a).row \in Tenant!Row
           /\ Tenant!Changed(a).row.version = rows[a.target].version + 1
           /\ Tenant!Changed(a).row.ordinal = rows[a.target].ordinal
<1> DEFINE b == rows[a.target]
<1>0. a.target \in Tenant!Targets /\ a.expected \in Nat /\ b \in Tenant!Row \cup {None}
  BY DEF TenancyTyped, Tenant!Requests
<1>1. b # None /\ \E v \in Tenant!Values : Tenant!Changed(a) = Tenant!Store(v, a.expected + 1, b.ordinal) /\ b.version = a.expected
  <2>1. [name |-> a.name, state |-> a.state] \in Tenant!Values
    BY DEF Tenant!Requests, Tenant!Values
  <2>2. ASSUME b # None
        PROVE  [b.value EXCEPT !.state = a.state] \in Tenant!Values /\ [b.value EXCEPT !.state = "accepted"] \in Tenant!Values
    BY <1>0, <2>2 DEF Tenant!Row, Tenant!Requests, Tenant!Values
  <2>3. CASE Tenant!Changed(a) = Tenant!AcceptInvitation(a)
    <3>1. b # None /\ b.version = a.expected /\ Tenant!Changed(a) = Tenant!Store([b.value EXCEPT !.state = "accepted"], a.expected + 1, b.ordinal)
      BY <2>3 DEF Tenant!AcceptInvitation, Tenant!Refuse
    <3> QED BY <2>2, <3>1
  <2>4. CASE Tenant!Changed(a) = Tenant!UpdateProject(a) \/ Tenant!Changed(a) = Tenant!UpdateEnvironment(a)
    <3>1. b # None /\ b.version = a.expected /\ Tenant!Changed(a) = Tenant!Store([name |-> a.name, state |-> a.state], a.expected + 1, b.ordinal)
      BY <2>4 DEF Tenant!UpdateProject, Tenant!UpdateEnvironment, Tenant!Refuse
    <3> QED BY <2>1, <3>1
  <2>5. CASE Tenant!Changed(a) = Tenant!Reassigned(a) \/ Tenant!Changed(a) = Tenant!TransitionInvitation(a)
    <3>1. b # None /\ b.version = a.expected /\ Tenant!Changed(a) = Tenant!Store([b.value EXCEPT !.state = a.state], a.expected + 1, b.ordinal)
      BY <2>5 DEF Tenant!Reassigned, Tenant!TransitionInvitation, Tenant!Refuse
    <3> QED BY <2>2, <3>1
  <2> QED BY <2>3, <2>4, <2>5 DEF Tenant!Changed, Tenant!updateProjectAssignment, Tenant!updateEnvironmentAssignment
<1>2. PICK v \in Tenant!Values : Tenant!Changed(a) = Tenant!Store(v, a.expected + 1, b.ordinal) /\ b.version = a.expected
  BY <1>1
<1>3. b \in Tenant!Row
  BY <1>0, <1>1
<1>4. /\ Tenant!Store(v, a.expected + 1, b.ordinal).row \in Tenant!Row
      /\ Tenant!Store(v, a.expected + 1, b.ordinal).row.version = a.expected + 1
      /\ Tenant!Store(v, a.expected + 1, b.ordinal).row.ordinal = b.ordinal
  BY <1>0, <1>3 DEF Tenant!Store, Tenant!Row
<1> QED BY <1>1, <1>2, <1>4

-----------------------------------------------------------------------------
(* Steps.                                                                  *)

\* Nothing is taken from the trail and no row goes.
Grown == /\ \A k \in Tenant!Keys : audit[k] # None => audit'[k] = audit[k]
         /\ \A t \in Tenant!Targets : rows[t] # None => rows'[t] # None /\ rows'[t].ordinal = rows[t].ordinal

\* What was read, answered and listed stays true while the trail and the rows grow.
LEMMA GrownKeeps ==
    ASSUME TenancyInv, Tenant!Bounds, Grown, page' = page
    PROVE  /\ CursorIsTrue'
           /\ \A t, v, value : WrittenAs(t, v, value) => WrittenAs(t, v, value)'
           /\ \A x \in Call \cup {Tenant!Idle} : CallTrue(x) => CallTrue(x)'
<1>1. \A of : Tenant!Visible(of) \subseteq Tenant!Visible(of)'
  BY DEF Tenant!Visible, Grown, Tenant!Targets
<1>2. \A of : Tenant!Visible(of) \subseteq Tenant!Targets /\ \A t \in Tenant!Visible(of) : rows[t] # None
  BY DEF Tenant!Visible, Tenant!Targets
<1>3. CursorIsTrue'
  <2> SUFFICES ASSUME page # None PROVE CursorIsTrue'
    BY DEF CursorIsTrue
  <2>1. \A t \in DOMAIN page.seen : rows'[t].ordinal = rows[t].ordinal
    BY <1>2 DEF TenancyInv, CursorIsTrue, Grown
  <2> QED BY <1>1, <2>1 DEF TenancyInv, CursorIsTrue
<1>4. ASSUME NEW t, NEW v, NEW value, WrittenAs(t, v, value)
      PROVE  WrittenAs(t, v, value)'
  BY <1>4 DEF WrittenAs, Tenant!Succeeded, Grown
<1>5. ASSUME NEW x \in Call \cup {Tenant!Idle}, CallTrue(x)
      PROVE  CallTrue(x)'
  <2>1. ASSUME x.phase = "answered" PROVE <<x.ask.id, "">> \in Tenant!Keys
    <3>1. x \in Call
      BY <2>1 DEF Tenant!Idle
    <3>2. x.ask \in Tenant!Requests
      BY <3>1 DEF Call
    <3>3. x.ask.id \in {a.id : a \in Asks}
      BY <3>2 DEF Tenant!Requests
    <3> QED BY <3>3 DEF Tenant!Keys
  <2> QED BY <1>4, <1>5, <2>1 DEF CallTrue, Grown
<1> QED BY <1>3, <1>4, <1>5

\* And so does what is cached.
LEMMA CacheKept ==
    ASSUME TenancyInv, Tenant!Bounds, Grown, page' = page, projects' = projects
    PROVE  CacheIsTrue'
<1> SUFFICES ASSUME NEW i \in 1 .. Len(projects)
             PROVE  WrittenAs(projects[i].key.target, projects[i].key.version, projects[i].value)'
  BY DEF CacheIsTrue
<1>1. PICK t, v, value : t = projects[i].key.target /\ v = projects[i].key.version /\ value = projects[i].value
  OBVIOUS
<1>2. WrittenAs(t, v, value)
  BY <1>1 DEF TenancyInv, CacheIsTrue
<1>3. WrittenAs(t, v, value)'
  BY <1>2, GrownKeeps
<1> QED BY <1>1, <1>3 DEF WrittenAs, Tenant!Succeeded

\* A step of a request keeps the invariant if the trail grows, and what it says
\* of the rows, the cache and its own request is true afterwards.
LEMMA CallStep ==
    ASSUME TenancyInv, Tenant!Bounds, NEW c \in Clients, NEW x \in Call \cup {Tenant!Idle},
           calls' = [calls EXCEPT ![c] = x], UNCHANGED <<clock, tokens, page>>, Grown, CallTrue(x)',
           ordinal' \in 0 .. MaxOrdinal, rows' \in [Tenant!Targets -> Tenant!Row \cup {None}], audit' \in [Tenant!Keys -> Tenant!Event \cup {None}],
           member' \in [Accounts -> Member \cup {None}], projects' \in Seq(Entry),
           EachVersionTold', OnlyVersionsTold', CacheIsTrue'
    PROVE  TenancyInv'
<1>1. TenancyTyped'
  BY DEF TenancyInv, TenancyTyped
<1>2. CursorIsTrue'
  BY GrownKeeps
<1>3. CallsAreTrue'
  <2> SUFFICES ASSUME NEW d \in Clients PROVE CallTrue(calls[d])'
    BY DEF CallsAreTrue
  <2>1. CASE d = c
    <3>1. calls'[d] = x
      BY <2>1 DEF TenancyInv, TenancyTyped
    <3> QED BY <3>1 DEF CallTrue
  <2>2. CASE d # c
    <3>1. PICK y \in Call \cup {Tenant!Idle} : y = calls[d] /\ CallTrue(y)
      BY DEF TenancyInv, TenancyTyped, CallsAreTrue
    <3>2. CallTrue(y)'
      BY <3>1, GrownKeeps
    <3>3. y = calls'[d]
      BY <2>2, <3>1 DEF TenancyInv, TenancyTyped
    <3> QED BY <3>2, <3>3 DEF CallTrue
  <2> QED BY <2>1, <2>2
<1> QED BY <1>1, <1>2, <1>3 DEF TenancyInv

\* A step of a request that writes nothing.
LEMMA QuietStep ==
    ASSUME TenancyInv, Tenant!Bounds, NEW c \in Clients, NEW x \in Call \cup {Tenant!Idle},
           calls' = [calls EXCEPT ![c] = x], UNCHANGED <<clock, tokens, page, rows, audit, member>>, CallTrue(x),
           ordinal' \in 0 .. MaxOrdinal, projects' \in Seq(Entry), CacheIsTrue'
    PROVE  TenancyInv'
<1>1. Grown
  BY DEF Grown
<1>2. CallTrue(x)'
  BY <1>1, GrownKeeps
<1>3. EachVersionTold' /\ OnlyVersionsTold'
  BY DEF TenancyInv, EachVersionTold, OnlyVersionsTold, Tenant!Succeeded
<1> QED BY <1>1, <1>2, <1>3, CallStep DEF TenancyInv, TenancyTyped

\* And leaves the cache as it is.
LEMMA PlainStep ==
    ASSUME TenancyInv, Tenant!Bounds, NEW c \in Clients, NEW x \in Call \cup {Tenant!Idle},
           calls' = [calls EXCEPT ![c] = x], UNCHANGED <<clock, tokens, page, rows, audit, member, projects>>, CallTrue(x),
           ordinal' \in 0 .. MaxOrdinal
    PROVE  TenancyInv'
<1>1. CacheIsTrue' /\ projects' \in Seq(Entry)
  BY DEF TenancyInv, TenancyTyped, CacheIsTrue, WrittenAs, Tenant!Succeeded
<1> QED BY <1>1, QuietStep

\* The calls of a typed state.
LEMMA CallsTyped ==
    ASSUME TenancyInv, NEW c \in Clients
    PROVE  /\ calls \in [Clients -> Call \cup {Tenant!Idle}] /\ CallTrue(calls[c])
           /\ calls[c].phase # "idle" => calls[c] \in Call /\ calls[c].ask \in Tenant!Requests /\ calls[c].ask.target \in Tenant!Targets
           /\ calls[c].phase \in Phases \cup {"idle"}
<1>1. calls \in [Clients -> Call \cup {Tenant!Idle}] /\ CallTrue(calls[c])
  BY DEF TenancyInv, TenancyTyped, CallsAreTrue
<1>2. calls[c] \in Call \/ calls[c] = Tenant!Idle
  BY <1>1
<1>3. calls[c].phase # "idle" => calls[c] \in Call
  BY <1>2 DEF Tenant!Idle
<1>4. calls[c] \in Call => calls[c].ask \in Tenant!Requests /\ calls[c].phase \in Phases
  BY DEF Call
<1>5. calls[c] \in Call => calls[c].ask.target \in Tenant!Targets
  BY <1>4 DEF Tenant!Requests
<1>6. calls[c] = Tenant!Idle => calls[c].phase = "idle"
  BY DEF Tenant!Idle
<1> QED BY <1>1, <1>2, <1>3, <1>4, <1>5, <1>6

\* The steps of a request that neither write rows nor touch the cache.
LEMMA ReceiveKeeps ==
    ASSUME TenancyInv, Tenant!Bounds, NEW c \in Clients, NEW a \in Asks, Tenant!Receive(c, a)
    PROVE  TenancyInv'
<1>1. \E x \in Call \cup {Tenant!Idle} : calls' = [calls EXCEPT ![c] = x] /\ CallTrue(x)
  <2> DEFINE x == [phase |-> "new", ask |-> a, seen |-> tokens[a.actor], cause |-> "", value |-> None, ordinal |-> 0]
  <2>1. a \in Tenant!Requests /\ a.actor \in Accounts
    BY DEF Tenant!Bounds, Tenant!Requests
  <2>2. tokens[a.actor] \in Nat /\ 0 \in 0 .. MaxOrdinal
    BY <2>1 DEF TenancyInv, TenancyTyped, Tenant!Bounds
  <2>3. x \in Call
    BY <2>1, <2>2 DEF Call, Phases, Causes
  <2>4. CallTrue(x)
    BY DEF CallTrue
  <2> QED BY <2>3, <2>4 DEF Tenant!Receive
<1>2. UNCHANGED <<clock, Tenant!database, tokens, projects, page>>
  BY DEF Tenant!Receive
<1>3. ordinal' \in 0 .. MaxOrdinal
  BY <1>2 DEF TenancyInv, TenancyTyped, Tenant!database
<1>4. UNCHANGED <<clock, tokens, page, rows, audit, member, projects>>
  BY <1>2 DEF Tenant!database
<1> QED BY <1>1, <1>3, <1>4, PlainStep

\* authorize reads the membership and refuses or goes on.
LEMMA authorizeKeeps ==
    ASSUME TenancyInv, Tenant!Bounds, NEW c \in Clients, Tenant!authorize(c)
    PROVE  TenancyInv'
<1>0. calls[c] \in Call /\ calls[c].phase = "new" /\ calls \in [Clients -> Call \cup {Tenant!Idle}]
  BY CallsTyped DEF Tenant!authorize
<1>1. \E x \in Call \cup {Tenant!Idle} : calls' = [calls EXCEPT ![c] = x] /\ CallTrue(x)
  <2>1. CASE \E cause \in {"invalid", "denied"} : Tenant!Fails(c, cause)
    <3>1. PICK cause \in {"invalid", "denied"} : Tenant!Fails(c, cause)
      BY <2>1
    <3>2. [calls[c] EXCEPT !.phase = "failed", !.cause = cause] \in Call
      BY <1>0 DEF Call, Phases, Causes
    <3>3. CallTrue([calls[c] EXCEPT !.phase = "failed", !.cause = cause])
      BY <1>0 DEF CallTrue, Call
    <3>4. calls' = [calls EXCEPT ![c] = [calls[c] EXCEPT !.phase = "failed", !.cause = cause]]
      BY <3>1 DEF Tenant!Fails
    <3> QED BY <3>2, <3>3, <3>4
  <2>2. CASE \E p \in {"lookup", "load", "write"} : Tenant!Step(c, p) /\ (p = "lookup" => calls[c].ask.kind = "read")
    <3>1. PICK p \in {"lookup", "load", "write"} : Tenant!Step(c, p) /\ (p = "lookup" => calls[c].ask.kind = "read")
      BY <2>2
    <3>2. [calls[c] EXCEPT !.phase = p] \in Call
      BY <1>0 DEF Call, Phases
    <3>3. CallTrue([calls[c] EXCEPT !.phase = p])
      BY <1>0, <3>1 DEF CallTrue, Call, Tenant!Routed
    <3>4. calls' = [calls EXCEPT ![c] = [calls[c] EXCEPT !.phase = p]]
      BY <3>1 DEF Tenant!Step
    <3> QED BY <3>2, <3>3, <3>4
  <2> QED BY <2>1, <2>2 DEF Tenant!authorize
<1>2. UNCHANGED <<clock, Tenant!database, tokens, projects, page>>
  BY DEF Tenant!authorize
<1>3. ordinal' \in 0 .. MaxOrdinal
  BY <1>2 DEF TenancyInv, TenancyTyped, Tenant!database
<1>4. UNCHANGED <<clock, tokens, page, rows, audit, member, projects>>
  BY <1>2 DEF Tenant!database
<1> QED BY <1>1, <1>3, <1>4, PlainStep

\* Archive loads the row it is to write back.
LEMMA ArchiveKeeps ==
    ASSUME TenancyInv, Tenant!Bounds, NEW c \in Clients, Tenant!Archive(c)
    PROVE  TenancyInv'
<1>0. /\ calls[c] \in Call /\ calls[c].phase = "load" /\ calls[c].ask \in Tenant!Requests /\ calls[c].ask.target \in Tenant!Targets
      /\ calls \in [Clients -> Call \cup {Tenant!Idle}]
  BY CallsTyped DEF Tenant!Archive
<1>1. \E x \in Call \cup {Tenant!Idle} : calls' = [calls EXCEPT ![c] = x] /\ CallTrue(x)
  <2> DEFINE a == calls[c].ask  row == rows[a.target]
  <2>1. CASE Tenant!Fails(c, "denied")
    <3>2. [calls[c] EXCEPT !.phase = "failed", !.cause = "denied"] \in Call
      BY <1>0 DEF Call, Phases, Causes
    <3>3. CallTrue([calls[c] EXCEPT !.phase = "failed", !.cause = "denied"])
      BY <1>0 DEF CallTrue, Call
    <3>4. calls' = [calls EXCEPT ![c] = [calls[c] EXCEPT !.phase = "failed", !.cause = "denied"]]
      BY <2>1 DEF Tenant!Fails
    <3> QED BY <3>2, <3>3, <3>4
  <2>2. CASE row # None /\ calls' = [calls EXCEPT ![c].phase = "write", ![c].ask.name = row.value.name, ![c].ask.state = "archived"]
    <3> DEFINE x == [calls[c] EXCEPT !.phase = "write", !.ask = [a EXCEPT !.name = row.value.name, !.state = "archived"]]
    <3>1. row \in Tenant!Row
      BY <1>0, <2>2 DEF TenancyInv, TenancyTyped
    <3>2. row.value.name \in {v.name : v \in Tenant!Values} /\ "archived" \in {v.state : v \in Tenant!Values}
      <4>1. row.value \in Tenant!Values
        BY <3>1 DEF Tenant!Row
      <4>2. [row.value EXCEPT !.state = "archived"] \in Tenant!Values
        BY <4>1 DEF Tenant!Values
      <4>3. [row.value EXCEPT !.state = "archived"].state = "archived"
        BY <4>1 DEF Tenant!Values
      <4> QED BY <4>1, <4>2, <4>3
    <3>3. [a EXCEPT !.name = row.value.name, !.state = "archived"] \in Tenant!Requests
      <4> HIDE DEF row
      <4> QED BY <1>0, <3>2 DEF Tenant!Requests
    <3>4. x \in Call
      <4> DEFINE b == [a EXCEPT !.name = row.value.name, !.state = "archived"]
      <4> HIDE DEF b
      <4>1. [calls[c] EXCEPT !.phase = "write", !.ask = b] \in Call
        BY <1>0, <3>3 DEF b, Call, Phases
      <4> QED BY <4>1 DEF b
    <3>5. x.phase = "write"
      BY <1>0 DEF Call
    <3>6. calls' = [calls EXCEPT ![c] = x]
      BY <1>0, <2>2 DEF Call
    <3>7. CallTrue(x)
      BY <3>5 DEF CallTrue
    <3> QED BY <3>4, <3>6, <3>7
  <2> QED BY <2>1, <2>2 DEF Tenant!Archive
<1>2. UNCHANGED <<clock, Tenant!database, tokens, projects, page>>
  BY DEF Tenant!Archive
<1>3. ordinal' \in 0 .. MaxOrdinal
  BY <1>2 DEF TenancyInv, TenancyTyped, Tenant!database
<1>4. UNCHANGED <<clock, tokens, page, rows, audit, member, projects>>
  BY <1>2 DEF Tenant!database
<1> QED BY <1>1, <1>3, <1>4, PlainStep

\* Insert draws an ordinal, or finds that it may not.
LEMMA InsertKeeps ==
    ASSUME TenancyInv, Tenant!Bounds, NEW c \in Clients, Tenant!Insert(c)
    PROVE  TenancyInv'
<1>0. /\ calls[c] \in Call /\ calls[c].phase = "write" /\ calls \in [Clients -> Call \cup {Tenant!Idle}]
      /\ ordinal \in 0 .. MaxOrdinal /\ MaxOrdinal \in Nat
  BY CallsTyped DEF Tenant!Insert, TenancyInv, TenancyTyped, Tenant!Bounds
<1>1. ordinal' \in 1 .. MaxOrdinal
  BY <1>0 DEF Tenant!Insert
<1>2. \E x \in Call \cup {Tenant!Idle} : calls' = [calls EXCEPT ![c] = x] /\ CallTrue(x)
  <2>1. CASE calls' = [calls EXCEPT ![c].phase = "inserted", ![c].ordinal = ordinal']
    <3>1. PICK o \in 1 .. MaxOrdinal : o = ordinal'
      BY <1>1
    <3>2. [calls[c] EXCEPT !.phase = "inserted", !.ordinal = o] \in Call
      <4>1. o \in 0 .. MaxOrdinal
        BY <1>0
      <4> QED BY <1>0, <4>1 DEF Call, Phases
    <3>3. CallTrue([calls[c] EXCEPT !.phase = "inserted", !.ordinal = o])
      BY <1>0 DEF CallTrue, Call
    <3> QED BY <2>1, <3>1, <3>2, <3>3
  <2>2. CASE \E cause \in {"conflict", "persistence"} : Tenant!Fails(c, cause)
    <3>1. PICK cause \in {"conflict", "persistence"} : Tenant!Fails(c, cause)
      BY <2>2
    <3>2. [calls[c] EXCEPT !.phase = "failed", !.cause = cause] \in Call
      BY <1>0 DEF Call, Phases, Causes
    <3>3. CallTrue([calls[c] EXCEPT !.phase = "failed", !.cause = cause])
      BY <1>0 DEF CallTrue, Call
    <3>4. calls' = [calls EXCEPT ![c] = [calls[c] EXCEPT !.phase = "failed", !.cause = cause]]
      BY <3>1 DEF Tenant!Fails
    <3> QED BY <3>2, <3>3, <3>4
  <2>3. \A a, o : Tenant!Create(a, o).code \in {"ok", "conflict", "persistence"}
    <3> TAKE a, o
    <3>1. \/ Tenant!Create(a, o) = Tenant!CreateProject(a, o) \/ Tenant!Create(a, o) = Tenant!CreateEnvironment(a, o)
          \/ Tenant!Create(a, o) = Tenant!IssueInvitation(a, o) \/ Tenant!Create(a, o) = Tenant!createAssignment(a, o)
      BY DEF Tenant!Create
    <3> QED BY <3>1 DEF Tenant!CreateProject, Tenant!CreateEnvironment, Tenant!IssueInvitation,
               Tenant!createAssignment, Tenant!New, Tenant!Refuse, Tenant!Store
  <2> QED BY <2>1, <2>2, <2>3 DEF Tenant!Insert
<1>3. UNCHANGED <<clock, rows, member, audit, tokens, projects, page>>
  BY DEF Tenant!Insert
<1>4. ordinal' \in 0 .. MaxOrdinal
  BY <1>0, <1>1
<1> QED BY <1>2, <1>3, <1>4, PlainStep

\* InvalidateTenant empties the cache, of which nothing is left to be true.
LEMMA InvalidateKeeps ==
    ASSUME TenancyInv, Tenant!Bounds, NEW c \in Clients, Tenant!InvalidateTenant(c)
    PROVE  TenancyInv'
<1>0. calls[c] \in Call /\ calls \in [Clients -> Call \cup {Tenant!Idle}]
  BY CallsTyped DEF Tenant!InvalidateTenant
<1>1. PICK x \in Call : x = [calls[c] EXCEPT !.phase = "answered", !.cause = "ok"]
  BY <1>0 DEF Call, Phases, Causes
<1>2. CallTrue(x) /\ calls' = [calls EXCEPT ![c] = x]
  BY <1>0, <1>1 DEF CallTrue, Tenant!InvalidateTenant, Tenant!Answers, Call
<1>3. projects' \in Seq(Entry) /\ CacheIsTrue'
  BY DEF Tenant!InvalidateTenant, CacheIsTrue
<1>4. UNCHANGED <<clock, tokens, page, rows, audit, member, ordinal>>
  BY DEF Tenant!InvalidateTenant, Tenant!database
<1> QED BY <1>2, <1>3, <1>4, QuietStep DEF TenancyInv, TenancyTyped

\* A request that ends promises nothing more.
LEMMA FinishKeeps ==
    ASSUME TenancyInv, Tenant!Bounds, NEW c \in Clients, Tenant!Finish(c) \/ Tenant!Cancel(c)
    PROVE  TenancyInv'
<1>1. CallTrue(Tenant!Idle)
  BY DEF CallTrue, Tenant!Idle
<1>2. /\ calls' = [calls EXCEPT ![c] = Tenant!Idle]
      /\ UNCHANGED <<clock, tokens, page, rows, audit, member, ordinal, projects>>
  BY DEF Tenant!Finish, Tenant!Cancel, Tenant!database
<1>3. PICK x \in Call \cup {Tenant!Idle} : x = Tenant!Idle
  OBVIOUS
<1> QED BY <1>1, <1>2, <1>3, PlainStep DEF TenancyInv, TenancyTyped

\* A restart ends all requests and empties the cache.
LEMMA RestartKeeps ==
    ASSUME TenancyInv, Tenant!Bounds, Tenant!Restart
    PROVE  TenancyInv'
<1>1. CallTrue(Tenant!Idle)'
  BY DEF CallTrue, Tenant!Idle
<1>2. /\ calls' = [c \in Clients |-> Tenant!Idle] /\ projects' = <<>>
      /\ UNCHANGED <<clock, tokens, page, rows, audit, member, ordinal>>
  BY DEF Tenant!Restart, Tenant!database
<1>3. TenancyTyped'
  BY <1>2 DEF TenancyInv, TenancyTyped
<1>4. CallsAreTrue'
  BY <1>1, <1>2 DEF CallsAreTrue, CallTrue
<1>5. CacheIsTrue'
  BY <1>2 DEF CacheIsTrue
<1>6. Grown
  BY <1>2 DEF Grown
<1>7. CursorIsTrue'
  BY <1>2, <1>6, GrownKeeps
<1>8. EachVersionTold' /\ OnlyVersionsTold'
  BY <1>2 DEF TenancyInv, EachVersionTold, OnlyVersionsTold, Tenant!Succeeded
<1> QED BY <1>3, <1>4, <1>5, <1>7, <1>8 DEF TenancyInv

\* The other entries of the cache are among its entries.
LEMMA OtherIs ==
    ASSUME projects \in Seq(Entry), NEW k
    PROVE  /\ Tenant!Other(k) \in Seq(Entry)
           /\ \A i \in 1 .. Len(Tenant!Other(k)) : \E j \in 1 .. Len(projects) : Tenant!Other(k)[i] = projects[j]
<1>1. CASE Tenant!Hit(k) = {}
  BY <1>1 DEF Tenant!Other
<1>2. CASE Tenant!Hit(k) # {}
  <2> DEFINE h == CHOOSE i \in Tenant!Hit(k) : TRUE
             front == SubSeq(projects, 1, h - 1)  back == SubSeq(projects, h + 1, Len(projects))
  <2>1. h \in 1 .. Len(projects) /\ Tenant!Other(k) = front \o back
    BY <1>2 DEF Tenant!Hit, Tenant!Other
  <2> HIDE DEF h
  <2>2. front \in Seq(Entry) /\ Len(front) = h - 1 /\ \A i \in 1 .. h - 1 : front[i] = projects[i]
    BY <2>1, SubSeqProperties
  <2>3. back \in Seq(Entry) /\ Len(back) = Len(projects) - h /\ \A i \in 1 .. Len(projects) - h : back[i] = projects[h + i]
    <3>1. CASE h = Len(projects)
      BY <2>1, <3>1, SubSeqProperties
    <3>2. CASE h < Len(projects)
      BY <2>1, <3>2, SubSeqProperties
    <3> QED BY <2>1, <3>1, <3>2
  <2> HIDE DEF front, back
  <2>4. /\ front \o back \in Seq(Entry) /\ Len(front \o back) = Len(front) + Len(back)
        /\ \A i \in 1 .. Len(front) + Len(back) : (front \o back)[i] = IF i <= Len(front) THEN front[i] ELSE back[i - Len(front)]
    BY <2>2, <2>3, ConcatProperties
  <2>5. ASSUME NEW i \in 1 .. Len(front \o back)
        PROVE  \E j \in 1 .. Len(projects) : (front \o back)[i] = projects[j]
    <3>1. CASE i <= Len(front)
      BY <2>1, <2>2, <2>4, <3>1
    <3>2. CASE i > Len(front)
      <4>1. i - Len(front) \in 1 .. Len(projects) - h /\ h + (i - Len(front)) \in 1 .. Len(projects)
        BY <2>1, <2>2, <2>3, <2>4, <3>2
      <4>2. (front \o back)[i] = projects[h + (i - Len(front))]
        BY <2>2, <2>3, <2>4, <3>2, <4>1
      <4> QED BY <4>1, <4>2
    <3> QED BY <2>2, <2>3, <2>4, <3>1, <3>2
  <2> QED BY <2>1, <2>4, <2>5
<1> QED BY <1>1, <1>2

\* A true entry in front of the others.
LEMMA FrontIs ==
    ASSUME TenancyInv, NEW e \in Entry, WrittenAs(e.key.target, e.key.version, e.value), NEW k, UNCHANGED audit
    PROVE  /\ <<e>> \o Tenant!Other(k) \in Seq(Entry)
           /\ \A i \in 1 .. Len(<<e>> \o Tenant!Other(k)) :
                  LET f == (<<e>> \o Tenant!Other(k))[i] IN WrittenAs(f.key.target, f.key.version, f.value)
<1>1. /\ Tenant!Other(k) \in Seq(Entry)
      /\ \A i \in 1 .. Len(Tenant!Other(k)) : \E j \in 1 .. Len(projects) : Tenant!Other(k)[i] = projects[j]
  BY OtherIs DEF TenancyInv, TenancyTyped
<1> DEFINE o == Tenant!Other(k)  s == <<e>> \o o
<1> HIDE DEF o
<1>2. <<e>> \in Seq(Entry) /\ Len(<<e>>) = 1 /\ <<e>>[1] = e
  OBVIOUS
<1>3. s \in Seq(Entry) /\ Len(s) = 1 + Len(o) /\ s[1] = e /\ \A i \in 2 .. Len(o) + 1 : s[i] = o[i - 1]
  BY <1>1, <1>2, ConcatProperties DEF o
<1>4. ASSUME NEW i \in 1 .. Len(s) PROVE WrittenAs(s[i].key.target, s[i].key.version, s[i].value)
  <2>1. CASE i = 1
    BY <1>3, <2>1
  <2>2. CASE i # 1
    <3>1. i \in 2 .. Len(o) + 1 /\ i - 1 \in 1 .. Len(o)
      BY <1>1, <1>3, <2>2 DEF o
    <3>2. PICK j \in 1 .. Len(projects) : s[i] = projects[j]
      BY <1>1, <1>3, <3>1 DEF o
    <3> QED BY <3>2 DEF TenancyInv, CacheIsTrue
  <2> QED BY <2>1, <2>2
<1> QED BY <1>3, <1>4 DEF o

\* Get answers with an entry that was true, and moves it to the front.
LEMMA GetKeeps ==
    ASSUME TenancyInv, Tenant!Bounds, NEW c \in Clients, Tenant!Get(c)
    PROVE  TenancyInv'
<1>0. calls[c] \in Call /\ calls[c].phase = "lookup" /\ calls \in [Clients -> Call \cup {Tenant!Idle}] /\ projects \in Seq(Entry)
      /\ CallTrue(calls[c])
  BY CallsTyped DEF Tenant!Get, TenancyInv, TenancyTyped
<1>1. PICK i \in 1 .. Len(projects) : /\ projects' = <<projects[i]>> \o Tenant!Other(Tenant!CacheKey(c))
                                      /\ calls' = [calls EXCEPT ![c].phase = "answered", ![c].cause = "ok", ![c].value = projects[i].value]
  BY DEF Tenant!Get, Tenant!Hit
<1>2. projects[i] \in Entry /\ WrittenAs(projects[i].key.target, projects[i].key.version, projects[i].value)
  BY <1>0 DEF TenancyInv, CacheIsTrue
<1>3. UNCHANGED <<clock, tokens, page, rows, audit, member, ordinal>>
  BY DEF Tenant!Get, Tenant!database
<1>4. projects' \in Seq(Entry) /\ CacheIsTrue'
  <2>1. PICK e \in Entry : e = projects[i]
    BY <1>2
  <2> DEFINE full == <<e>> \o Tenant!Other(Tenant!CacheKey(c))
  <2>2. /\ full \in Seq(Entry)
        /\ \A j \in 1 .. Len(full) : WrittenAs(full[j].key.target, full[j].key.version, full[j].value)
    BY <1>2, <1>3, <2>1, FrontIs
  <2>3. projects' = full
    BY <1>1, <2>1
  <2>4. \A j \in 1 .. Len(projects') : WrittenAs(projects'[j].key.target, projects'[j].key.version, projects'[j].value)
    BY <2>2, <2>3
  <2> HIDE DEF full
  <2> QED BY <1>3, <2>2, <2>3, <2>4 DEF CacheIsTrue, WrittenAs, Tenant!Succeeded
<1>5. projects[i].value \in Tenant!Values
  BY <1>2 DEF Entry
<1>6. PICK x \in Call : x = [calls[c] EXCEPT !.phase = "answered", !.cause = "ok", !.value = projects[i].value]
  BY <1>0, <1>5 DEF Call, Phases, Causes
<1>7. CallTrue(x) /\ calls' = [calls EXCEPT ![c] = x]
  BY <1>0, <1>1, <1>6 DEF CallTrue, Call
<1> QED BY <1>3, <1>4, <1>7, QuietStep DEF TenancyInv, TenancyTyped

\* Put caches what its request read, in front of the others, and drops the last.
LEMMA PutKeeps ==
    ASSUME TenancyInv, Tenant!Bounds, NEW c \in Clients, Tenant!Put(c)
    PROVE  TenancyInv'
<1>0. /\ calls[c] \in Call /\ calls[c].phase = "put" /\ calls \in [Clients -> Call \cup {Tenant!Idle}]
      /\ CallTrue(calls[c]) /\ calls[c].ask \in Tenant!Requests
  BY CallsTyped DEF Tenant!Put, TenancyInv, TenancyTyped
<1>1. PICK e \in Entry : e = [key |-> Tenant!CacheKey(c), value |-> calls[c].value]
  <2>1. Tenant!CacheKey(c) \in [target : Tenant!Targets, subject : Accounts, version : Nat, member : Nat]
    BY <1>0 DEF Tenant!CacheKey, Call, Tenant!Requests
  <2> QED BY <1>0, <2>1 DEF CallTrue, Entry
<1>2. WrittenAs(e.key.target, e.key.version, e.value)
  BY <1>0, <1>1 DEF CallTrue, Tenant!CacheKey
<1>3. UNCHANGED <<clock, tokens, page, rows, audit, member, ordinal>>
  BY DEF Tenant!Put, Tenant!database
<1>4. projects' \in Seq(Entry) /\ CacheIsTrue'
  <2> DEFINE full == <<e>> \o Tenant!Other(Tenant!CacheKey(c))
             n == IF Len(full) > MaxCache THEN MaxCache ELSE Len(full)
  <2>1. /\ full \in Seq(Entry)
        /\ \A i \in 1 .. Len(full) : WrittenAs(full[i].key.target, full[i].key.version, full[i].value)
    BY <1>2, <1>3, FrontIs
  <2>2. projects' = SubSeq(full, 1, n)
    BY <1>1 DEF Tenant!Put
  <2> HIDE DEF full
  <2>3. n \in 0 .. Len(full)
    BY <2>1 DEF Tenant!Bounds
  <2> HIDE DEF n
  <2>4. projects' \in Seq(Entry) /\ Len(projects') = n /\ \A i \in 1 .. n : projects'[i] = full[i]
    BY <2>1, <2>2, <2>3, SubSeqProperties
  <2>5. \A i \in 1 .. Len(projects') : WrittenAs(projects'[i].key.target, projects'[i].key.version, projects'[i].value)
    BY <2>1, <2>3, <2>4
  <2> QED BY <1>3, <2>4, <2>5 DEF CacheIsTrue, WrittenAs, Tenant!Succeeded
<1>6. PICK x \in Call : x = [calls[c] EXCEPT !.phase = "answered", !.cause = "ok"]
  BY <1>0 DEF Call, Phases, Causes
<1>7. CallTrue(x) /\ calls' = [calls EXCEPT ![c] = x]
  BY <1>0, <1>6 DEF CallTrue, Call, Tenant!Put, Tenant!Answers
<1> QED BY <1>3, <1>4, <1>7, QuietStep DEF TenancyInv, TenancyTyped

\* Project reads a row: its value is told by the event of its version.
LEMMA ProjectKeeps ==
    ASSUME TenancyInv, Tenant!Bounds, NEW c \in Clients, Tenant!Project(c)
    PROVE  TenancyInv'
<1>0. /\ calls[c] \in Call /\ calls[c].phase = "lookup" /\ calls \in [Clients -> Call \cup {Tenant!Idle}]
      /\ CallTrue(calls[c]) /\ calls[c].ask \in Tenant!Requests /\ calls[c].ask.target \in Tenant!Targets
  BY CallsTyped DEF Tenant!Project
<1> DEFINE a == calls[c].ask  row == rows[a.target]
<1>1. UNCHANGED <<clock, tokens, page, rows, audit, member, projects, ordinal>>
  BY DEF Tenant!Project, Tenant!database
<1>2. \E x \in Call \cup {Tenant!Idle} : calls' = [calls EXCEPT ![c] = x] /\ CallTrue(x)
  <2>1. CASE \E cause \in {"unavailable", "conflict"} : Tenant!Answers(c, cause)
    <3>1. PICK cause \in {"unavailable", "conflict"} : Tenant!Answers(c, cause)
      BY <2>1
    <3>2. [calls[c] EXCEPT !.phase = "answered", !.cause = cause] \in Call
      BY <1>0 DEF Call, Phases, Causes
    <3>3. CallTrue([calls[c] EXCEPT !.phase = "answered", !.cause = cause])
      BY <1>0 DEF CallTrue, Call
    <3>4. calls' = [calls EXCEPT ![c] = [calls[c] EXCEPT !.phase = "answered", !.cause = cause]]
      BY <3>1 DEF Tenant!Answers
    <3> QED BY <3>2, <3>3, <3>4
  <2>2. CASE row # None /\ row.version = a.expected /\ calls' = [calls EXCEPT ![c].phase = "put", ![c].value = row.value]
    <3>1. row \in Tenant!Row /\ row.value \in Tenant!Values /\ row.version \in 1 .. row.version
      BY <1>0, <2>2 DEF TenancyInv, TenancyTyped, Tenant!Row
    <3>2. WrittenAs(a.target, a.expected, row.value)
      BY <1>0, <2>2, <3>1 DEF TenancyInv, EachVersionTold, WrittenAs
    <3> DEFINE x == [calls[c] EXCEPT !.phase = "put", !.value = row.value]
    <3>3. x \in Call
      BY <1>0, <3>1 DEF Call, Phases
    <3>4. x.phase = "put" /\ x.value = row.value /\ x.ask = a
      BY <1>0 DEF Call
    <3>5. CallTrue(x)
      BY <1>0, <3>1, <3>2, <3>4 DEF CallTrue
    <3> QED BY <2>2, <3>3, <3>5
  <2> QED BY <2>1, <2>2 DEF Tenant!Project
<1> QED BY <1>1, <1>2, PlainStep DEF TenancyInv, TenancyTyped

\* mutate: the next version of a row and its event.
LEMMA WriteTells ==
    ASSUME TenancyInv, Tenant!Bounds, NEW a \in Tenant!Requests, a.target \in Tenant!Targets,
           NEW row \in Tenant!Row, Tenant!Logged(a, row) # None,
           rows' = [rows EXCEPT ![a.target] = row], audit' = Tenant!Logged(a, row),
           \/ rows[a.target] = None /\ row.version = 1
           \/ /\ rows[a.target] # None /\ row.version = rows[a.target].version + 1
              /\ row.ordinal = rows[a.target].ordinal
    PROVE  /\ rows' \in [Tenant!Targets -> Tenant!Row \cup {None}] /\ audit' \in [Tenant!Keys -> Tenant!Event \cup {None}]
           /\ Grown /\ EachVersionTold' /\ OnlyVersionsTold'
<1> DEFINE t == a.target  k == <<a.id, Tenant!Part(a)>>  e == Tenant!NewAuditEvent(a.actor, a.target, row.version, row.value)
<1>0. /\ audit \in Trails /\ rows \in [Tenant!Targets -> Tenant!Row \cup {None}] /\ t \in Tenant!Targets
      /\ k \in Tenant!Keys /\ e \in Tenant!Event /\ row.version \in Nat \ {0}
      /\ e.target = t /\ e.after = row.version /\ e.value = row.value /\ e.result = "succeeded"
      /\ \A u \in Tenant!Targets : rows[u] # None => rows[u].version \in Nat \ {0}
  <2>1. k \in Tenant!Keys /\ e \in Tenant!Event
    BY EventsAre DEF Causes
  <2>2. e.target = t /\ e.after = row.version /\ e.value = row.value /\ e.result = "succeeded"
    BY DEF Tenant!NewAuditEvent
  <2> QED BY <2>1, <2>2 DEF TenancyInv, TenancyTyped, Trails, Tenant!Row
<1>1. /\ audit' \in Trails /\ audit'[k] = e /\ audit[k] \in {None, e}
      /\ \A j \in Tenant!Keys : audit[j] # None => audit'[j] = audit[j]
      /\ \A j \in Tenant!Keys : j # k => audit'[j] = audit[j] \/ audit'[j].target \notin Tenant!Targets
  BY <1>0, LoggedIs
<1> HIDE DEF k, e, t
<1>2. /\ rows'[t] = row /\ (\A u \in Tenant!Targets : u # t => rows'[u] = rows[u])
      /\ rows' \in [Tenant!Targets -> Tenant!Row \cup {None}]
  BY <1>0 DEF t
<1>3. \/ rows[t] = None /\ row.version = 1
      \/ rows[t] # None /\ row.version = rows[t].version + 1 /\ row.ordinal = rows[t].ordinal
  BY DEF t
<1>4. e # None /\ row # None
  BY <1>0 DEF Tenant!Bounds
<1>5. audit[k] = None
  <2> SUFFICES ASSUME audit[k] = e PROVE FALSE
    BY <1>1
  <2>1. rows[t] # None /\ e.after <= rows[t].version
    BY <1>0, <1>4 DEF TenancyInv, OnlyVersionsTold
  <2> QED BY <1>0, <1>3, <2>1
<1>6. ASSUME NEW u \in Tenant!Targets, NEW v, u # t \/ v # row.version
      PROVE  Tenant!Succeeded(u, v)' = Tenant!Succeeded(u, v)
  BY <1>0, <1>1, <1>5, <1>6 DEF Tenant!Succeeded
<1>7. Tenant!Succeeded(t, row.version)' = {k}
  <2>1. k \in Tenant!Succeeded(t, row.version)'
    BY <1>0, <1>1, <1>2, <1>4 DEF Tenant!Succeeded
  <2>2. ASSUME NEW j \in Tenant!Succeeded(t, row.version)' PROVE j = k
    <3> SUFFICES ASSUME j # k PROVE FALSE
      OBVIOUS
    <3>1. j \in Tenant!Keys /\ audit'[j] # None /\ audit'[j].result = "succeeded" /\ audit'[j].target = t /\ audit'[j].after = row.version
      BY <2>2 DEF Tenant!Succeeded
    <3>2. audit'[j] = audit[j]
      BY <1>0, <1>1, <3>1
    <3>3. rows[t] # None /\ row.version <= rows[t].version
      BY <1>0, <3>1, <3>2 DEF TenancyInv, OnlyVersionsTold
    <3> QED BY <1>0, <1>3, <3>3
  <2> QED BY <2>1, <2>2
<1>8. EachVersionTold'
  <2> SUFFICES ASSUME NEW u \in Tenant!Targets, rows'[u] # None
               PROVE  /\ \A v \in 1 .. rows'[u].version : \E j \in Tenant!Keys : Tenant!Succeeded(u, v)' = {j}
                      /\ \A j \in Tenant!Succeeded(u, rows[u].version)' : audit'[j].value = rows'[u].value
    BY DEF EachVersionTold
  <2>1. CASE u # t
    <3>1. rows'[u] = rows[u] /\ rows[u] # None
      BY <1>2, <2>1
    <3>2. \A v : Tenant!Succeeded(u, v)' = Tenant!Succeeded(u, v)
      BY <1>6, <2>1
    <3>3. \A v \in 1 .. rows[u].version : \E j \in Tenant!Keys : Tenant!Succeeded(u, v) = {j}
      BY <3>1 DEF TenancyInv, EachVersionTold
    <3>4. ASSUME NEW j \in Tenant!Succeeded(u, rows[u].version)' PROVE audit'[j].value = rows'[u].value
      <4>1. /\ j \in Tenant!Keys /\ audit'[j] # None /\ audit'[j].result = "succeeded" /\ audit'[j].target = u
            /\ audit'[j].after = rows[u].version
        BY <3>1, <3>4 DEF Tenant!Succeeded
      <4>2. j \in Tenant!Succeeded(u, rows[u].version)
        BY <1>0, <1>1, <1>5, <2>1, <4>1 DEF Tenant!Succeeded
      <4>3. audit'[j] = audit[j]
        BY <1>1, <4>2 DEF Tenant!Succeeded
      <4> QED BY <3>1, <4>2, <4>3 DEF TenancyInv, EachVersionTold
    <3> QED BY <3>1, <3>2, <3>3, <3>4
  <2>2. CASE u = t
    <3>1. ASSUME NEW v \in 1 .. row.version PROVE \E j \in Tenant!Keys : Tenant!Succeeded(t, v)' = {j}
      <4>1. CASE v = row.version
        <5>1. Tenant!Succeeded(t, v)' = {k}
          BY <1>7, <4>1
        <5> QED BY <1>0, <5>1
      <4>2. CASE v # row.version
        <5>1. rows[t] # None /\ v \in 1 .. rows[t].version
          BY <1>0, <1>3, <4>2
        <5>2. Tenant!Succeeded(t, v)' = Tenant!Succeeded(t, v)
          BY <1>0, <1>6, <4>2
        <5> QED BY <1>0, <5>1, <5>2 DEF TenancyInv, EachVersionTold
      <4> QED BY <4>1, <4>2
    <3>2. ASSUME NEW j \in Tenant!Succeeded(u, rows[u].version)' PROVE audit'[j].value = rows'[u].value
      <4>1. j = k
        BY <1>2, <1>7, <2>2, <3>2 DEF Tenant!Succeeded
      <4> QED BY <1>0, <1>1, <1>2, <2>2, <4>1
    <3> QED BY <1>2, <2>2, <3>1, <3>2
  <2> QED BY <2>1, <2>2
<1>9. OnlyVersionsTold'
  <2> SUFFICES ASSUME NEW j \in Tenant!Keys, audit'[j] # None, audit'[j].result = "succeeded", audit'[j].target \in Tenant!Targets
               PROVE  rows'[audit'[j].target] # None /\ audit'[j].after <= rows'[audit'[j].target].version
    BY DEF OnlyVersionsTold
  <2>1. CASE j = k
    BY <1>0, <1>1, <1>2, <1>4, <2>1
  <2>2. CASE j # k
    <3>1. audit'[j] = audit[j] /\ audit[j] \in Tenant!Event
      BY <1>0, <1>1, <2>2 DEF Trails
    <3>2. rows[audit[j].target] # None /\ audit[j].after <= rows[audit[j].target].version /\ audit[j].after \in Nat
      BY <3>1 DEF TenancyInv, OnlyVersionsTold, Tenant!Event
    <3>3. CASE audit[j].target = t
      BY <1>0, <1>2, <1>3, <1>4, <3>1, <3>2, <3>3
    <3>4. CASE audit[j].target # t
      BY <1>2, <3>1, <3>2, <3>4
    <3> QED BY <3>3, <3>4
  <2> QED BY <2>1, <2>2
<1>10. Grown
  BY <1>0, <1>1, <1>2, <1>3, <1>4 DEF Grown
<1> QED BY <1>1, <1>2, <1>8, <1>9, <1>10 DEF Trails

\* mutate stores the row and its events, or nothing.
LEMMA mutateKeeps ==
    ASSUME TenancyInv, Tenant!Bounds, NEW c \in Clients, Tenant!mutate(c)
    PROVE  TenancyInv'
<1> DEFINE a == calls[c].ask
           r == IF a.kind = "create" THEN Tenant!Create(a, calls[c].ordinal) ELSE Tenant!Changed(a)
<1>0. /\ calls[c] \in Call /\ calls[c].phase \in {"write", "inserted"} /\ calls \in [Clients -> Call \cup {Tenant!Idle}]
      /\ CallTrue(calls[c]) /\ a \in Tenant!Requests /\ a.target \in Tenant!Targets
  BY CallsTyped DEF Tenant!mutate
<1>1. UNCHANGED <<clock, tokens, page, projects, ordinal>>
  BY DEF Tenant!mutate
<1>2. CASE UNCHANGED <<rows, member, audit>> /\ \E cause \in Causes : Tenant!Fails(c, cause)
  <2>1. PICK cause \in Causes : Tenant!Fails(c, cause)
    BY <1>2
  <2>2. [calls[c] EXCEPT !.phase = "failed", !.cause = cause] \in Call
    BY <1>0 DEF Call, Phases
  <2>3. CallTrue([calls[c] EXCEPT !.phase = "failed", !.cause = cause])
    BY <1>0 DEF CallTrue, Call
  <2>4. calls' = [calls EXCEPT ![c] = [calls[c] EXCEPT !.phase = "failed", !.cause = cause]]
    BY <2>1 DEF Tenant!Fails
  <2>5. PICK x \in Call : x = [calls[c] EXCEPT !.phase = "failed", !.cause = cause]
    BY <2>2
  <2> QED BY <1>1, <1>2, <2>3, <2>4, <2>5, PlainStep DEF TenancyInv, TenancyTyped
<1>3. CASE /\ r.code = "ok" /\ Tenant!Logged(a, r.row) # None
           /\ rows' = [rows EXCEPT ![a.target] = r.row] /\ audit' = Tenant!Logged(a, r.row)
           /\ member' = IF a.kind = "accept" THEN [member EXCEPT ![a.actor] = [version |-> 1, roles |-> {"developer"}, active |-> TRUE, expires |-> 0]]
                        ELSE member
           /\ IF a.target \in Projects /\ Tenant!Routed(a) THEN Tenant!Step(c, "invalidate") ELSE Tenant!Answers(c, "ok")
  <2>1. /\ r.row \in Tenant!Row
        /\ \/ rows[a.target] = None /\ r.row.version = 1
           \/ rows[a.target] # None /\ r.row.version = rows[a.target].version + 1 /\ r.row.ordinal = rows[a.target].ordinal
    <3>1. CASE a.kind = "create"
      <4>1. calls[c].phase = "inserted"
        BY <1>0, <3>1 DEF Tenant!mutate
      <4>2. calls[c].ordinal \in 1 .. MaxOrdinal
        BY <1>0, <4>1 DEF CallTrue
      <4>3. Tenant!Create(a, calls[c].ordinal).code = "ok"
        BY <1>3, <3>1
      <4> HIDE DEF a
      <4> QED BY <1>0, <3>1, <4>2, <4>3, CreateIs DEF TenancyInv
    <3>2. CASE a.kind # "create"
      <4>1. Tenant!Changed(a).code = "ok"
        BY <1>3, <3>2
      <4> HIDE DEF a
      <4> QED BY <1>0, <3>2, <4>1, ChangedIs DEF TenancyInv
    <3> QED BY <3>1, <3>2
  <2>2. PICK b \in Tenant!Requests, row \in Tenant!Row : b = a /\ row = r.row
    BY <1>0, <2>1
  <2> HIDE DEF r
  <2>3. /\ rows' \in [Tenant!Targets -> Tenant!Row \cup {None}] /\ audit' \in [Tenant!Keys -> Tenant!Event \cup {None}]
        /\ Grown /\ EachVersionTold' /\ OnlyVersionsTold'
    BY <1>0, <1>3, <2>1, <2>2, WriteTells
  <2>4. member' \in [Accounts -> Member \cup {None}]
    <3>1. [version |-> 1, roles |-> {"developer"}, active |-> TRUE, expires |-> 0] \in Member
      BY DEF Member
    <3> QED BY <1>3, <3>1 DEF TenancyInv, TenancyTyped
  <2>5. CacheIsTrue'
    BY <1>1, <2>3, CacheKept
  <2>6. \E x \in Call \cup {Tenant!Idle} : calls' = [calls EXCEPT ![c] = x] /\ CallTrue(x)'
    <3>1. CASE Tenant!Step(c, "invalidate")
      <4>1. [calls[c] EXCEPT !.phase = "invalidate"] \in Call
        BY <1>0 DEF Call, Phases
      <4>2. PICK x \in Call : x = [calls[c] EXCEPT !.phase = "invalidate"]
        BY <4>1
      <4>3. CallTrue(x)'
        BY <1>0, <4>2 DEF CallTrue, Call
      <4> QED BY <3>1, <4>2, <4>3 DEF Tenant!Step
    <3>2. CASE Tenant!Answers(c, "ok")
      <4>1. [calls[c] EXCEPT !.phase = "answered", !.cause = "ok"] \in Call
        BY <1>0 DEF Call, Phases, Causes
      <4>2. PICK x \in Call : x = [calls[c] EXCEPT !.phase = "answered", !.cause = "ok"]
        BY <4>1
      <4>3. CallTrue(x)'
        BY <1>0, <4>2 DEF CallTrue, Call
      <4> QED BY <3>2, <4>2, <4>3 DEF Tenant!Answers
    <3> QED BY <1>3, <3>1, <3>2
  <2> QED BY <1>1, <2>3, <2>4, <2>5, <2>6, CallStep DEF TenancyInv, TenancyTyped
<1>4. r.code # "ok" => r.code \in Causes
  <2>1. \A o : Tenant!Create(a, o).code \in {"ok", "conflict", "persistence"}
    <3> TAKE o
    <3>1. \/ Tenant!Create(a, o) = Tenant!CreateProject(a, o) \/ Tenant!Create(a, o) = Tenant!CreateEnvironment(a, o)
          \/ Tenant!Create(a, o) = Tenant!IssueInvitation(a, o) \/ Tenant!Create(a, o) = Tenant!createAssignment(a, o)
      BY DEF Tenant!Create
    <3> QED BY <3>1 DEF Tenant!CreateProject, Tenant!CreateEnvironment, Tenant!IssueInvitation,
               Tenant!createAssignment, Tenant!New, Tenant!Refuse, Tenant!Store
  <2>2. Tenant!Changed(a).code \in {"ok", "conflict", "not_found"}
    <3>1. \/ Tenant!Changed(a) = Tenant!AcceptInvitation(a) \/ Tenant!Changed(a) = Tenant!UpdateProject(a) \/ Tenant!Changed(a) = Tenant!UpdateEnvironment(a)
          \/ Tenant!Changed(a) = Tenant!Reassigned(a) \/ Tenant!Changed(a) = Tenant!TransitionInvitation(a)
      BY DEF Tenant!Changed, Tenant!updateProjectAssignment, Tenant!updateEnvironmentAssignment
    <3> QED BY <3>1 DEF Tenant!AcceptInvitation, Tenant!UpdateProject, Tenant!UpdateEnvironment, Tenant!Reassigned,
               Tenant!TransitionInvitation, Tenant!Refuse, Tenant!Store
  <2> QED BY <2>1, <2>2 DEF Causes
<1>5. "persistence" \in Causes
  BY DEF Causes
<1> HIDE DEF r
<1> QED BY <1>2, <1>3, <1>4, <1>5 DEF Tenant!mutate, r

\* recordFailure leaves its evidence, or finds what is recorded already.
LEMMA recordFailureKeeps ==
    ASSUME TenancyInv, Tenant!Bounds, NEW c \in Clients, Tenant!recordFailure(c)
    PROVE  TenancyInv'
<1> DEFINE a == calls[c].ask
           e == Tenant!NewAuditAttempt(a, Tenant!failureEvidence(calls[c].cause))
           k == <<a.id, "">>
           log == Tenant!appendAudit(audit, k, e)
<1>0. /\ calls[c] \in Call /\ calls[c].phase = "failed" /\ calls \in [Clients -> Call \cup {Tenant!Idle}]
      /\ CallTrue(calls[c]) /\ a \in Tenant!Requests /\ a.target \in Tenant!Targets /\ calls[c].cause \in Causes
  <2>1. calls[c].phase = "failed" /\ calls[c].phase # "idle"
    BY DEF Tenant!recordFailure
  <2> QED BY <2>1, CallsTyped DEF Call
<1>1. UNCHANGED <<clock, rows, member, tokens, page, projects, ordinal>>
  BY DEF Tenant!recordFailure
<1>2. \A cause : Tenant!normalize(cause) \in {"unavailable", "conflict", "dependency"}
  BY DEF Tenant!normalize
<1>3. CASE UNCHANGED audit /\ \E w \in {"unavailable", "conflict", "dependency"} : Tenant!Answers(c, w) /\ (w # "dependency" => ~ Tenant!Routed(a))
  <2>1. PICK w \in {"unavailable", "conflict", "dependency"} : Tenant!Answers(c, w) /\ (w # "dependency" => ~ Tenant!Routed(a))
    BY <1>3
  <2>2. PICK x \in Call : x = [calls[c] EXCEPT !.phase = "answered", !.cause = w]
    BY <1>0 DEF Call, Phases, Causes
  <2>3. CallTrue(x) /\ calls' = [calls EXCEPT ![c] = x]
    BY <1>0, <2>1, <2>2 DEF CallTrue, Call, Tenant!Answers
  <2> QED BY <1>1, <1>3, <2>3, PlainStep DEF TenancyInv, TenancyTyped
<1>4. CASE log # None /\ audit' = log /\ Tenant!Answers(c, Tenant!normalize(calls[c].cause))
  <2>0. audit \in Trails /\ k \in Tenant!Keys /\ e \in Tenant!Event /\ e.result # "succeeded" /\ e # None
    <3>1. PICK row \in Tenant!Row \cup {None} : TRUE
      OBVIOUS
    <3>2. a.actor \in Accounts /\ a.target \in Tenant!Targets /\ a.expected + 1 \in Nat /\ a.id \in {b.id : b \in Asks}
      BY <1>0 DEF Tenant!Requests
    <3>3. [name |-> a.name, state |-> a.state] \in Tenant!Values
      BY <1>0 DEF Tenant!Requests, Tenant!Values
    <3>4. Tenant!failureEvidence(calls[c].cause) \in {"refused", "conflict", "failed"}
      BY DEF Tenant!failureEvidence
    <3>5. e \in Tenant!Event /\ e.result # "succeeded"
      BY <3>2, <3>3, <3>4 DEF Tenant!NewAuditAttempt, Tenant!Event
    <3> QED BY <3>2, <3>5 DEF Tenant!Keys, TenancyInv, TenancyTyped, Trails, Tenant!Bounds
  <2>1. /\ audit' \in Trails /\ audit'[k] = e /\ audit[k] \in {None, e}
        /\ \A j \in Tenant!Keys : j # k => audit'[j] = audit[j]
    <3> HIDE DEF k, e
    <3> QED BY <1>4, <2>0, AppendIs
  <2> HIDE DEF k, e, log
  <2>2. Grown
    BY <1>1, <2>0, <2>1 DEF Grown
  <2>3. \A t, v : Tenant!Succeeded(t, v)' = Tenant!Succeeded(t, v)
    BY <2>0, <2>1 DEF Tenant!Succeeded
  <2>4. \A t, v : \A j \in Tenant!Succeeded(t, v) : audit'[j] = audit[j]
    BY <2>0, <2>1 DEF Tenant!Succeeded
  <2>5. EachVersionTold'
    <3> SUFFICES ASSUME NEW u \in Tenant!Targets, rows[u] # None
                 PROVE  /\ \A v \in 1 .. rows[u].version : \E j \in Tenant!Keys : Tenant!Succeeded(u, v)' = {j}
                        /\ \A j \in Tenant!Succeeded(u, rows[u].version) : audit'[j].value = rows[u].value
      BY <1>1, <2>3 DEF EachVersionTold, Tenant!Succeeded
    <3>1. /\ \A v \in 1 .. rows[u].version : \E j \in Tenant!Keys : Tenant!Succeeded(u, v) = {j}
          /\ \A j \in Tenant!Succeeded(u, rows[u].version) : audit[j].value = rows[u].value
      BY DEF TenancyInv, EachVersionTold
    <3> QED BY <2>3, <2>4, <3>1
  <2>6. OnlyVersionsTold'
    BY <1>1, <2>0, <2>1 DEF TenancyInv, OnlyVersionsTold
  <2>7. CacheIsTrue'
    BY <1>1, <2>2, CacheKept
  <2>8. PICK x \in Call : x = [calls[c] EXCEPT !.phase = "answered", !.cause = Tenant!normalize(calls[c].cause)]
    BY <1>0, <1>2 DEF Call, Phases, Causes
  <2>9. x.ask = a /\ x.phase = "answered" /\ calls' = [calls EXCEPT ![c] = x]
    BY <1>0, <1>4, <2>8 DEF Call, Tenant!Answers
  <2>10. CallTrue(x)'
    BY <2>0, <2>1, <2>9 DEF CallTrue, k
  <2> QED BY <1>1, <2>1, <2>2, <2>5, <2>6, <2>7, <2>9, <2>10, CallStep DEF TenancyInv, TenancyTyped, Trails
<1> HIDE DEF log
<1> QED BY <1>2, <1>3, <1>4 DEF Tenant!recordFailure, log

-----------------------------------------------------------------------------
(* Lists.                                                                  *)

\* The instance counts as this module does.
LEMMA CountedAs == \A S : Tenant!Cardinality(S) = Cardinality(S) /\ Tenant!IsFiniteSet(S) = IsFiniteSet(S)
<1> TAKE S
<1>1. Tenant!Cardinality(S) = Cardinality(S)
  BY DEF Tenant!Cardinality, Cardinality
<1>2. Tenant!IsFiniteSet(S) = IsFiniteSet(S)
  BY DEF Tenant!IsFiniteSet, IsFiniteSet
<1> QED BY <1>1, <1>2

\* The rows of a list are finite in number and have ordinals.
LEMMA VisibleIs ==
    ASSUME TenancyInv, Tenant!Bounds, NEW of
    PROVE  /\ Tenant!Visible(of) \in SUBSET Tenant!Targets /\ IsFiniteSet(Tenant!Visible(of))
           /\ \A t \in Tenant!Visible(of) : rows[t] # None /\ rows[t].ordinal \in 1 .. MaxOrdinal
<1>1. Tenant!Visible(of) \subseteq Projects \/ Tenant!Visible(of) \subseteq Environments
  BY DEF Tenant!Visible
<1>2. IsFiniteSet(Tenant!Visible(of))
  BY <1>1, FS_Subset, CountedAs DEF Tenant!Bounds
<1>3. \A t \in Tenant!Visible(of) : rows[t] # None
  BY DEF Tenant!Visible
<1>4. Tenant!Visible(of) \in SUBSET Tenant!Targets
  BY <1>1 DEF Tenant!Targets
<1> QED BY <1>2, <1>3, <1>4 DEF TenancyInv, TenancyTyped, Tenant!Row

\* A page takes the first rows of the rest, and some unless nothing is left.
LEMMA ItemsAre ==
    ASSUME TenancyInv, Tenant!Bounds, NEW of, NEW snapshot \in 0 .. MaxOrdinal, NEW after \in 0 .. MaxOrdinal
    PROVE  /\ Tenant!Items(of, snapshot, after) \subseteq Tenant!Rest(of, snapshot, after)
           /\ Tenant!Rest(of, snapshot, after) \subseteq Tenant!Visible(of)
           /\ \A t \in Tenant!Items(of, snapshot, after), u \in Tenant!Rest(of, snapshot, after) :
                  rows[u].ordinal <= rows[t].ordinal => u \in Tenant!Items(of, snapshot, after)
           /\ Tenant!Rest(of, snapshot, after) # {} => Tenant!Items(of, snapshot, after) # {}
<1> DEFINE rest == Tenant!Rest(of, snapshot, after)  items == Tenant!Items(of, snapshot, after)
           below(t) == {w \in rest : rows[w].ordinal < rows[t].ordinal}
<1>1. rest \subseteq Tenant!Visible(of) /\ items = {t \in rest : Cardinality(below(t)) < Limit}
  BY CountedAs DEF Tenant!Rest, Tenant!Items
<1>2. IsFiniteSet(rest) /\ \A t \in rest : rows[t].ordinal \in 1 .. MaxOrdinal
  <2>1. IsFiniteSet(Tenant!Visible(of)) /\ \A t \in Tenant!Visible(of) : rows[t].ordinal \in 1 .. MaxOrdinal
    BY VisibleIs
  <2> QED BY <1>1, <2>1, FS_Subset
<1>3. MaxOrdinal \in Nat /\ Limit \in Nat \ {0}
  BY DEF Tenant!Bounds
<1> HIDE DEF rest, items
<1>4. ASSUME NEW t \in items, NEW u \in rest, rows[u].ordinal <= rows[t].ordinal
      PROVE  u \in items
  <2>1. below(u) \subseteq below(t) /\ below(t) \subseteq rest
    BY <1>1, <1>2, <1>3, <1>4
  <2> HIDE DEF below
  <2>2. IsFiniteSet(below(t))
    BY <1>2, <2>1, FS_Subset
  <2>3. Cardinality(below(u)) \in Nat /\ Cardinality(below(t)) \in Nat /\ Cardinality(below(u)) <= Cardinality(below(t))
    BY <2>1, <2>2, FS_Subset, FS_CardinalityType
  <2>4. Cardinality(below(t)) < Limit
    BY <1>1, <1>4
  <2> QED BY <1>1, <1>3, <1>4, <2>3, <2>4
<1>5. ASSUME rest # {} PROVE items # {}
  <2> DEFINE S == {rows[t].ordinal : t \in rest}
  <2>1. S \in SUBSET Nat /\ S # {}
    BY <1>2, <1>3, <1>5
  <2>2. PICK x \in S : \A y \in S : x <= y
    <3> HIDE DEF S
    <3> QED BY <2>1, Least
  <2>3. PICK t \in rest : x = rows[t].ordinal
    BY <2>2
  <2>4. below(t) = {}
    <3>1. \A w \in rest : rows[w].ordinal \in S
      OBVIOUS
    <3>2. \A w \in rest : x <= rows[w].ordinal
      <4> HIDE DEF S
      <4> QED BY <2>2, <3>1
    <3> QED BY <1>2, <1>3, <2>3, <3>2
  <2>5. Cardinality(below(t)) = 0
    <3> HIDE DEF below
    <3> QED BY <2>4, FS_EmptySet
  <2> QED BY <1>1, <1>3, <2>3, <2>5
<1> QED BY <1>1, <1>4, <1>5 DEF rest, items

\* ListPage adds to what was listed up to the cursor what is listed up to the next.
LEMMA ListPageTiles ==
    ASSUME TenancyInv, Tenant!Bounds, NEW of \in Lists, NEW snapshot \in 0 .. MaxOrdinal, NEW after \in 0 .. MaxOrdinal,
           NEW seen, NEW start \in SUBSET Tenant!Visible(of), Tenant!ListPage(of, snapshot, after, seen, start), rows' = rows,
           \A t \in Tenant!Visible(of) : LET n == IF t \in DOMAIN seen THEN seen[t] ELSE 0 IN
               n \in 0 .. 1 /\ (n = 1 => rows[t].ordinal <= after),
           \A t \in start : /\ rows[t].ordinal <= snapshot
                            /\ rows[t].ordinal <= after => t \in DOMAIN seen /\ seen[t] = 1
    PROVE  page' \in Listed /\ CursorIsTrue'
<1> DEFINE rest == Tenant!Rest(of, snapshot, after)  items == Tenant!Items(of, snapshot, after)
           next == Tenant!NextAfter(of, snapshot, after)
           old(t) == IF t \in DOMAIN seen THEN seen[t] ELSE 0
           new(t) == old(t) + IF t \in items THEN 1 ELSE 0
           S == {rows[t].ordinal : t \in items}
<1>1. /\ items \subseteq rest /\ rest \subseteq Tenant!Visible(of)
      /\ \A t \in items, u \in rest : rows[u].ordinal <= rows[t].ordinal => u \in items
      /\ rest # {} => items # {}
  BY ItemsAre
<1>2. /\ Tenant!Visible(of) \in SUBSET Tenant!Targets
      /\ \A t \in Tenant!Visible(of) : rows[t] # None /\ rows[t].ordinal \in 1 .. MaxOrdinal
  BY VisibleIs
<1>3. MaxOrdinal \in Nat
  BY DEF Tenant!Bounds
<1>4. page' = [of |-> of, snapshot |-> snapshot, after |-> next, start |-> start, seen |-> [t \in Tenant!Visible(of) |-> new(t)]]
  BY DEF Tenant!ListPage
<1>5. \A t \in Tenant!Visible(of) : t \in rest <=> rows[t].ordinal <= snapshot /\ rows[t].ordinal > after
  BY DEF Tenant!Rest
<1>6. next = IF rest = items THEN 0 ELSE Tenant!MaxOf(S)
  BY DEF Tenant!NextAfter
<1>7. Tenant!Visible(of)' = Tenant!Visible(of)
  BY DEF Tenant!Visible
<1>8. \A t \in Tenant!Visible(of) : old(t) \in 0 .. 1 /\ (old(t) = 1 => rows[t].ordinal <= after)
  OBVIOUS
<1>9. \A t \in start : rows[t].ordinal <= snapshot /\ (rows[t].ordinal <= after => old(t) = 1)
  OBVIOUS
<1> HIDE DEF rest, items, next, old
<1>10. rest # items => Tenant!MaxOf(S) \in S /\ \A y \in S : y <= Tenant!MaxOf(S)
  <2> SUFFICES ASSUME rest # items PROVE Tenant!MaxOf(S) \in S /\ \A y \in S : y <= Tenant!MaxOf(S)
    OBVIOUS
  <2>1. items # {}
    BY <1>1
  <2>2. S \in SUBSET (0 .. MaxOrdinal) /\ S # {}
    BY <1>1, <1>2, <1>3, <2>1
  <2> HIDE DEF S
  <2> QED BY <1>3, <2>2, MaxIs
<1>11. next \in 0 .. MaxOrdinal /\ (next = 0 <=> rest = items)
  BY <1>1, <1>2, <1>3, <1>6, <1>10
<1>12. \A t \in Tenant!Visible(of) : new(t) \in 0 .. 1
  BY <1>1, <1>2, <1>3, <1>5, <1>8
<1>13. ASSUME NEW t \in Tenant!Visible(of), new(t) = 1
       PROVE  next = 0 \/ rows[t].ordinal <= next
  <2> SUFFICES ASSUME rest # items PROVE rows[t].ordinal <= next
    BY <1>11
  <2>1. CASE t \in items
    BY <1>6, <1>10, <2>1
  <2>2. CASE t \notin items
    <3>1. rows[t].ordinal <= after
      BY <1>8, <1>13, <2>2
    <3>2. PICK u \in items : rows[u].ordinal = next
      BY <1>6, <1>10
    <3>3. rows[u].ordinal > after /\ rows[u].ordinal \in 1 .. MaxOrdinal /\ rows[t].ordinal \in 1 .. MaxOrdinal
      BY <1>1, <1>2, <1>5
    <3> QED BY <1>3, <3>1, <3>2, <3>3
  <2> QED BY <2>1, <2>2
<1>14. ASSUME NEW t \in start, next = 0 \/ rows[t].ordinal <= next
       PROVE  new(t) = 1
  <2>1. CASE rows[t].ordinal <= after
    <3>1. t \notin items
      BY <1>1, <1>2, <1>3, <1>5, <2>1
    <3> QED BY <1>9, <2>1, <3>1
  <2>2. CASE ~ (rows[t].ordinal <= after)
    <3>1. t \in Tenant!Visible(of) /\ rows[t].ordinal > after /\ rows[t].ordinal <= snapshot
      BY <1>2, <1>3, <1>9, <2>2
    <3>2. t \in rest
      BY <1>5, <3>1
    <3>3. t \in items
      <4>1. CASE rest = items
        BY <3>2, <4>1
      <4>2. CASE rest # items
        <5>1. PICK u \in items : rows[u].ordinal = next
          BY <1>6, <1>10, <4>2
        <5> QED BY <1>1, <1>11, <1>14, <3>2, <4>2, <5>1
      <4> QED BY <4>1, <4>2
    <3>4. old(t) = 0
      BY <1>8, <2>2, <3>1
    <3> QED BY <3>3, <3>4
  <2> QED BY <2>1, <2>2
<1>15. page' \in Listed
  <2>1. [t \in Tenant!Visible(of) |-> new(t)] \in [Tenant!Visible(of) -> 0 .. 1]
    BY <1>12
  <2>2. [t \in Tenant!Visible(of) |-> new(t)] \in UNION {[T -> 0 .. 1] : T \in SUBSET Tenant!Targets}
    BY <1>2, <2>1
  <2>3. start \in SUBSET Tenant!Targets
    BY <1>2
  <2> HIDE DEF new
  <2> QED BY <1>4, <1>11, <2>2, <2>3 DEF Listed
<1> HIDE DEF new
<1>16. /\ DOMAIN page'.seen = Tenant!Visible(of) /\ page'.of = of /\ page'.after = next /\ page'.start = start
       /\ page'.snapshot = snapshot /\ \A t \in Tenant!Visible(of) : page'.seen[t] = new(t)
  BY <1>4
<1> QED BY <1>7, <1>9, <1>13, <1>14, <1>15, <1>16 DEF CursorIsTrue

\* What is said of the trail, the requests and the cache looks at nothing else.
LEMMA SameKeeps ==
    ASSUME TenancyInv, UNCHANGED <<rows, audit, projects, calls>>
    PROVE  EachVersionTold' /\ OnlyVersionsTold' /\ CacheIsTrue' /\ CallsAreTrue'
<1>1. EachVersionTold'
  BY DEF TenancyInv, EachVersionTold, Tenant!Succeeded
<1>2. OnlyVersionsTold'
  BY DEF TenancyInv, OnlyVersionsTold
<1>3. CacheIsTrue'
  BY DEF TenancyInv, CacheIsTrue, WrittenAs, Tenant!Succeeded
<1>4. CallsAreTrue'
  BY DEF TenancyInv, CallsAreTrue, CallTrue, WrittenAs, Tenant!Succeeded
<1> QED BY <1>1, <1>2, <1>3, <1>4

\* The steps of a traversal; a first page starts with nothing listed.
LEMMA PagesKeep ==
    ASSUME TenancyInv, Tenant!Bounds,
           \/ \E of \in Lists, m \in Accounts : Tenant!FirstPage(of, m)
           \/ \E m \in Accounts : Tenant!FollowCursor(m)
           \/ Tenant!StopListing
    PROVE  TenancyInv'
<1>1. UNCHANGED <<clock, rows, member, audit, ordinal, tokens, projects, calls>>
  BY DEF Tenant!FirstPage, Tenant!FollowCursor, Tenant!StopListing, Tenant!database
<1>2. page' \in Listed \cup {None} /\ CursorIsTrue'
  <2>1. ASSUME NEW of \in Lists, NEW m \in Accounts, Tenant!FirstPage(of, m)
        PROVE  page' \in Listed /\ CursorIsTrue'
    <3>1. Tenant!ListPage(of, Tenant!pageSnapshot(of), 0, <<>>, Tenant!Visible(of))
      BY <2>1 DEF Tenant!FirstPage
    <3>2. /\ Tenant!Visible(of) \in SUBSET Tenant!Targets
          /\ \A t \in Tenant!Visible(of) : rows[t].ordinal \in 1 .. MaxOrdinal
      BY VisibleIs
    <3>3. MaxOrdinal \in Nat
      BY DEF Tenant!Bounds
    <3>4. Tenant!pageSnapshot(of) \in 0 .. MaxOrdinal /\ \A t \in Tenant!Visible(of) : rows[t].ordinal <= Tenant!pageSnapshot(of)
      <4> DEFINE S == {rows[t].ordinal : t \in Tenant!Visible(of)}
      <4>1. S \in SUBSET (0 .. MaxOrdinal)
        BY <3>2, <3>3
      <4>2. Tenant!pageSnapshot(of) = Tenant!MaxOf(S)
        BY DEF Tenant!pageSnapshot
      <4>3. CASE S = {}
        BY <3>3, <4>2, <4>3 DEF Tenant!MaxOf
      <4>4. CASE S # {}
        <5>1. Tenant!MaxOf(S) \in S /\ \A y \in S : y <= Tenant!MaxOf(S)
          <6> HIDE DEF S
          <6> QED BY <3>3, <4>1, <4>4, MaxIs
        <5> QED BY <4>1, <4>2, <5>1
      <4> QED BY <4>3, <4>4
    <3>5. DOMAIN <<>> = {}
      OBVIOUS
    <3>6. PICK snapshot \in 0 .. MaxOrdinal : snapshot = Tenant!pageSnapshot(of)
      BY <3>4
    <3>7. 0 \in 0 .. MaxOrdinal
      BY <3>3
    <3>8. \A t \in Tenant!Visible(of) : ~ (rows[t].ordinal <= 0)
      BY <3>2, <3>3
    <3>9. \A t \in Tenant!Visible(of) : LET n == IF t \in DOMAIN <<>> THEN <<>>[t] ELSE 0 IN n \in 0 .. 1 /\ (n = 1 => rows[t].ordinal <= 0)
      BY <3>5
    <3>10. \A t \in Tenant!Visible(of) : /\ rows[t].ordinal <= snapshot
                                         /\ rows[t].ordinal <= 0 => t \in DOMAIN <<>> /\ <<>>[t] = 1
      BY <3>4, <3>6, <3>8
    <3>11. Tenant!ListPage(of, snapshot, 0, <<>>, Tenant!Visible(of))
      BY <3>1, <3>6
    <3>12. PICK start, seen : start \in SUBSET Tenant!Visible(of) /\ start = Tenant!Visible(of) /\ seen = <<>>
      OBVIOUS
    <3>13. Tenant!ListPage(of, snapshot, 0, seen, start)
      BY <3>11, <3>12
    <3>14. /\ \A t \in Tenant!Visible(of) : LET n == IF t \in DOMAIN seen THEN seen[t] ELSE 0 IN n \in 0 .. 1 /\ (n = 1 => rows[t].ordinal <= 0)
           /\ \A t \in start : /\ rows[t].ordinal <= snapshot
                               /\ rows[t].ordinal <= 0 => t \in DOMAIN seen /\ seen[t] = 1
      BY <3>9, <3>10, <3>12
    <3> QED BY <1>1, <3>7, <3>12, <3>13, <3>14, ListPageTiles
  <2>2. ASSUME NEW m \in Accounts, Tenant!FollowCursor(m)
        PROVE  page' \in Listed /\ CursorIsTrue'
    <3>1. page # None /\ page.after # 0 /\ Tenant!ListPage(page.of, page.snapshot, page.after, page.seen, page.start)
      BY <2>2 DEF Tenant!FollowCursor
    <3>2. page \in Listed
      BY <3>1 DEF TenancyInv, TenancyTyped
    <3>3. PICK of, snapshot, after, seen, start :
              /\ of \in Lists /\ snapshot \in 0 .. MaxOrdinal /\ after \in 0 .. MaxOrdinal
              /\ of = page.of /\ snapshot = page.snapshot /\ after = page.after /\ seen = page.seen /\ start = page.start
      BY <3>2 DEF Listed
    <3>4. PICK T \in SUBSET Tenant!Targets : seen \in [T -> 0 .. 1]
      <4>1. page.seen \in UNION {[T -> 0 .. 1] : T \in SUBSET Tenant!Targets}
        BY <3>2 DEF Listed
      <4> QED BY <3>3, <4>1
    <3>5. /\ DOMAIN seen = T /\ DOMAIN seen \subseteq Tenant!Visible(of) /\ start \subseteq DOMAIN seen
          /\ \A t \in DOMAIN seen : seen[t] = 1 => rows[t].ordinal <= after
          /\ \A t \in start : rows[t].ordinal <= snapshot /\ (rows[t].ordinal <= after => seen[t] = 1)
      BY <3>1, <3>3, <3>4 DEF TenancyInv, CursorIsTrue
    <3>6. start \in SUBSET Tenant!Visible(of) /\ Tenant!ListPage(of, snapshot, after, seen, start)
      BY <3>1, <3>3, <3>5
    <3>7. \A t \in Tenant!Visible(of) : LET n == IF t \in DOMAIN seen THEN seen[t] ELSE 0 IN n \in 0 .. 1 /\ (n = 1 => rows[t].ordinal <= after)
      BY <3>4, <3>5
    <3>8. \A t \in start : /\ rows[t].ordinal <= snapshot
                           /\ rows[t].ordinal <= after => t \in DOMAIN seen /\ seen[t] = 1
      BY <3>5
    <3> QED BY <1>1, <3>3, <3>6, <3>7, <3>8, ListPageTiles
  <2>3. ASSUME Tenant!StopListing PROVE page' = None /\ CursorIsTrue'
    BY <2>3 DEF Tenant!StopListing, CursorIsTrue
  <2> QED BY <2>1, <2>2, <2>3
<1>3. EachVersionTold' /\ OnlyVersionsTold' /\ CacheIsTrue' /\ CallsAreTrue'
  BY <1>1, SameKeeps
<1>4. TenancyTyped'
  BY <1>1, <1>2 DEF TenancyInv, TenancyTyped
<1> QED BY <1>2, <1>3, <1>4 DEF TenancyInv

-----------------------------------------------------------------------------
(* Memberships and time.                                                   *)

\* Members change, sign in and time passes.
LEMMA MembersKeep ==
    ASSUME TenancyInv, Tenant!Bounds,
           \/ \E m \in Accounts : Tenant!Sign(m)
           \/ \E m \in Accounts, r \in RoleSets, active \in BOOLEAN, x \in {0, clock + 1} : Tenant!UpdateMembership(m, r, active, x)
           \/ Tenant!Tick
           \/ UNCHANGED Tenant!vars
    PROVE  TenancyInv'
<1>1. UNCHANGED <<rows, audit, ordinal, projects, calls, page>>
  BY DEF Tenant!Sign, Tenant!UpdateMembership, Tenant!Tick, Tenant!vars, Tenant!database
<1>2. EachVersionTold' /\ OnlyVersionsTold' /\ CacheIsTrue' /\ CallsAreTrue' /\ CursorIsTrue'
  <2>1. CursorIsTrue'
    BY <1>1 DEF TenancyInv, CursorIsTrue, Tenant!Visible
  <2> QED BY <1>1, <2>1, SameKeeps
<1>3. clock' \in Nat /\ member' \in [Accounts -> Member \cup {None}] /\ tokens' \in [Accounts -> Nat]
  <2>0. clock \in Nat /\ member \in [Accounts -> Member \cup {None}] /\ tokens \in [Accounts -> Nat]
    BY DEF TenancyInv, TenancyTyped
  <2>1. ASSUME NEW m \in Accounts, Tenant!Sign(m) PROVE <1>3!:
    <3>1. member[m].version \in Nat
      BY <2>0, <2>1 DEF Tenant!Sign, Member
    <3> QED BY <2>0, <2>1, <3>1 DEF Tenant!Sign, Tenant!database
  <2>2. ASSUME NEW m \in Accounts, NEW r \in RoleSets, NEW active \in BOOLEAN, NEW x \in {0, clock + 1}, Tenant!UpdateMembership(m, r, active, x)
        PROVE  <1>3!:
    <3>1. [version |-> member[m].version + 1, roles |-> r, active |-> active, expires |-> x] \in Member
      BY <2>0, <2>2 DEF Tenant!UpdateMembership, Member
    <3>2. member' = [member EXCEPT ![m] = [version |-> member[m].version + 1, roles |-> r, active |-> active, expires |-> x]]
      BY <2>0, <2>2 DEF Tenant!UpdateMembership
    <3> QED BY <2>0, <2>2, <3>1, <3>2 DEF Tenant!UpdateMembership
  <2>3. ASSUME Tenant!Tick \/ UNCHANGED Tenant!vars PROVE <1>3!:
    BY <2>0, <2>3 DEF Tenant!Tick, Tenant!vars, Tenant!database
  <2> QED BY <2>1, <2>2, <2>3
<1> QED BY <1>1, <1>2, <1>3 DEF TenancyInv, TenancyTyped

-----------------------------------------------------------------------------
\* Nothing is stored, told or asked at first.
LEMMA InitHolds == ASSUME Tenant!Init, Tenant!Bounds PROVE TenancyInv
<1>1. TenancyTyped
  <2>1. [version |-> 1, roles |-> {"owner"}, active |-> TRUE, expires |-> 0] \in Member
    BY DEF Member
  <2>2. member \in [Accounts -> Member \cup {None}]
    BY <2>1 DEF Tenant!Init
  <2>3. projects \in Seq(Entry) /\ ordinal \in 0 .. MaxOrdinal /\ tokens \in [Accounts -> Nat]
    BY DEF Tenant!Init, Tenant!Bounds
  <2> QED BY <2>2, <2>3 DEF Tenant!Init, TenancyTyped
<1>2. CallsAreTrue
  BY DEF Tenant!Init, CallsAreTrue, CallTrue, Tenant!Idle
<1>3. CacheIsTrue /\ CursorIsTrue /\ EachVersionTold /\ OnlyVersionsTold
  BY DEF Tenant!Init, CacheIsTrue, CursorIsTrue, EachVersionTold, OnlyVersionsTold
<1> QED BY <1>1, <1>2, <1>3 DEF TenancyInv

\* The invariant is what TenancyHolds says of a state, and more.
LEMMA Promised == ASSUME TenancyInv, Tenant!Bounds PROVE TenancyHolds
<1>1. ASSUME NEW t \in Tenant!Targets, rows[t] # None
      PROVE  /\ \A v \in 1 .. rows[t].version : Cardinality(Tenant!Succeeded(t, v)) = 1
             /\ \A k \in Tenant!Succeeded(t, rows[t].version) : audit[k].value = rows[t].value
  <2>1. \A v \in 1 .. rows[t].version : \E k \in Tenant!Keys : Tenant!Succeeded(t, v) = {k}
    BY <1>1 DEF TenancyInv, EachVersionTold
  <2>2. \A k : Cardinality({k}) = 1
    BY FS_Singleton
  <2>3. \A v \in 1 .. rows[t].version : Cardinality(Tenant!Succeeded(t, v)) = 1
    BY <2>1, <2>2
  <2> QED BY <1>1, <2>3 DEF TenancyInv, EachVersionTold
<1>2. Tenant!AuditTellsAll
  <2>1. \A k \in Tenant!Keys : audit[k] # None /\ audit[k].result = "succeeded" /\ audit[k].target \in Tenant!Targets =>
            rows[audit[k].target] # None /\ audit[k].after <= rows[audit[k].target].version
    BY DEF TenancyInv, OnlyVersionsTold
  <2>2. \A c \in Clients : calls[c].phase = "answered" /\ calls[c].cause \in {"unavailable", "conflict"} /\ Tenant!Routed(calls[c].ask) =>
            audit[<<calls[c].ask.id, "">>] # None /\ audit[<<calls[c].ask.id, "">>].result # "succeeded"
    BY DEF TenancyInv, CallsAreTrue, CallTrue
  <2>3. \A i \in 1 .. Len(projects) : \E k \in Tenant!Succeeded(projects[i].key.target, projects[i].key.version) : audit[k].value = projects[i].value
    BY DEF TenancyInv, CacheIsTrue, WrittenAs
  <2> QED BY <1>1, <2>1, <2>2, <2>3, CountedAs DEF Tenant!AuditTellsAll
<1>3. Tenant!PagesTile
  <2> SUFFICES ASSUME page # None
               PROVE  /\ \A t \in DOMAIN page.seen : page.seen[t] <= 1
                      /\ page.after = 0 => \A t \in page.start : t \in DOMAIN page.seen /\ page.seen[t] = 1
    BY DEF Tenant!PagesTile
  <2>1. PICK T \in SUBSET Tenant!Targets : page.seen \in [T -> 0 .. 1]
    <3>1. page.seen \in UNION {[T -> 0 .. 1] : T \in SUBSET Tenant!Targets}
      BY DEF TenancyInv, TenancyTyped, Listed
    <3> QED BY <3>1
  <2>2. \A t \in DOMAIN page.seen : page.seen[t] <= 1
    BY <2>1
  <2> QED BY <2>2 DEF TenancyInv, CursorIsTrue
<1> QED BY <1>2, <1>3 DEF TenancyHolds

\* The control plane: however requests, retries, refusals, roles, restarts and
\* traversals interleave, every version of a row has one audit event with its
\* value, a refused write has its evidence, what is cached was written as that
\* version, and a traversal lists each row of its snapshot exactly once.
THEOREM AuditIsComplete == Tenant!Spec => []TenancyHolds
<1> USE TenancyBounds
<1>1. Tenant!Init => TenancyInv
  BY InitHolds
<1>2. TenancyInv /\ [Tenant!Next]_(Tenant!vars) => TenancyInv'
  <2> SUFFICES ASSUME TenancyInv, [Tenant!Next]_(Tenant!vars) PROVE TenancyInv'
    OBVIOUS
  <2>1. ASSUME NEW c \in Clients,
               \/ \E a \in Asks : Tenant!Receive(c, a)
               \/ Tenant!authorize(c) \/ Tenant!Archive(c) \/ Tenant!Insert(c) \/ Tenant!mutate(c) \/ Tenant!InvalidateTenant(c) \/ Tenant!recordFailure(c)
               \/ Tenant!Finish(c) \/ Tenant!Cancel(c) \/ Tenant!Get(c) \/ Tenant!Project(c) \/ Tenant!Put(c)
        PROVE  TenancyInv'
    BY <2>1, ReceiveKeeps, authorizeKeeps, ArchiveKeeps, InsertKeeps, mutateKeeps, InvalidateKeeps, recordFailureKeeps,
       FinishKeeps, GetKeeps, ProjectKeeps, PutKeeps
  <2>2. CASE Tenant!Restart
    BY <2>2, RestartKeeps
  <2>3. CASE \/ \E of \in Lists, m \in Accounts : Tenant!FirstPage(of, m)
             \/ \E m \in Accounts : Tenant!FollowCursor(m)
             \/ Tenant!StopListing
    BY <2>3, PagesKeep
  <2>4. CASE \/ \E m \in Accounts : Tenant!Sign(m)
             \/ \E m \in Accounts, r \in RoleSets, active \in BOOLEAN, x \in {0, clock + 1} : Tenant!UpdateMembership(m, r, active, x)
             \/ Tenant!Tick
             \/ UNCHANGED Tenant!vars
    BY <2>4, MembersKeep
  <2> QED BY <2>1, <2>2, <2>3, <2>4 DEF Tenant!Next
<1>3. TenancyInv => TenancyHolds
  BY Promised
<1> QED BY <1>1, <1>2, <1>3, PTL DEF Tenant!Spec

-----------------------------------------------------------------------------
(* The roles, for any releases, grants, teams and bounds: what is signed,  *)
(* what the catalog and the checkout hold of it, and what an import has    *)
(* still to store.                                                         *)

\* What is signed, and what the catalog holds of it.
Statements == [rel : Releases, state : {"active", "revoked"}, prev : Nat, issued : Nat, key : Registry!Keys, generation : Nat \ {0}]
Entries    == [rel : Releases, state : Registry!States, status : Nat]
PublisherInv == day \in Nat /\ signed \in Seq(Statements)

\* The catalog: every release it stores has an entry, every entry is about a
\* release it stores, and a revocation is the last entry of its release.
StoredHasEntry == /\ \A r \in releases : \E i \in 1 .. Len(lifecycle) : lifecycle[i].rel = r
                  /\ \A i \in 1 .. Len(lifecycle) : lifecycle[i].rel \in releases
RevokedIsLast  == \A i, j \in 1 .. Len(lifecycle) : i < j /\ Registry!Exact(lifecycle[i].rel, lifecycle[j].rel) => lifecycle[i].state # "revoked"
HostedInv == /\ releases \subseteq Releases /\ lifecycle \in Seq(Entries)
             /\ StoredHasEntry /\ RevokedIsLast /\ Registry!HistoryIsExportable
             /\ export # None => export.releases \subseteq Releases /\ export.lifecycle \in Seq(Entries)

\* The local history: the i-th statement is of generation i, and none makes
\* active what an earlier one revoked.
HistoryInv == /\ cache \subseteq Releases /\ history \in Seq(Nat)
              /\ \A i \in 1 .. Len(history) : Registry!VerifyIssued(history[i], keyring) /\ signed[history[i]].generation = i
              /\ \A i, j \in 1 .. Len(history) :
                     i < j /\ signed[history[i]].state = "revoked" /\ signed[history[j]].state = "active"
                         => signed[history[i]].rel.digest # signed[history[j]].rel.digest

\* What is left of an import.  Of a catalog's, the statements are consecutive;
\* those the history has are the ones it has, the others will extend it.
Predecessor(m) == IF m > 1 THEN task.statuses[m - 1] ELSE IF history = <<>> THEN 0 ELSE Registry!Last(history)
Extends(m) ==
    LET s == signed[task.statuses[m]] IN
    /\ Registry!Follows(task.statuses[m], Predecessor(m))
    /\ s.state = "active" => /\ ~ Registry!Revoked(history, s.rel.digest)
                             /\ ~ Registry!RevokedBefore(task.statuses, m, s.rel.digest)
    /\ s.rel \in task.releases \/ Registry!ReadRelease(s.rel)
StatusesLeft ==
    /\ task.statuses \in Seq(Nat) /\ task.statuses # <<>>
    /\ \A m \in 1 .. Len(task.statuses) : Registry!VerifyIssued(task.statuses[m], keyring)
    /\ \A m \in 1 .. Len(task.statuses) : signed[task.statuses[m]].generation = signed[task.statuses[1]].generation + m - 1
    /\ signed[task.statuses[1]].generation <= Len(history) + 1
    /\ \A m \in 1 .. Len(task.statuses) :
           IF signed[task.statuses[m]].generation <= Len(history) THEN history[signed[task.statuses[m]].generation] = task.statuses[m]
           ELSE Extends(m)
ReleasesLeft ==
    /\ task.releases \subseteq Releases
    /\ \A r \in task.releases : Registry!VerifyRelease(r, keyring)
    /\ \A r \in task.releases : \A x \in cache \cup task.releases : x.version = r.version => x = r
TaskInv ==
    /\ task # None /\ task.kind = "release" => \E s \in Nat : Registry!VerifyIssued(s, keyring) /\ task.statuses = <<s>>
    /\ task # None /\ task.kind = "catalog" => ~ torn /\ StatusesLeft /\ ReleasesLeft

RegistryInv == PublisherInv /\ HostedInv /\ HistoryInv /\ TaskInv

\* The set theory of the instance is that of the library.
LEMMA SizedAs == \A S : Registry!Cardinality(S) = Cardinality(S)
BY DEF Registry!Cardinality, Cardinality, Registry!IsFiniteSet, IsFiniteSet

\* An appended sequence has what it had, and what is appended.
LEMMA AppendExtends ==
    ASSUME NEW S, NEW s \in Seq(S), NEW x \in S
    PROVE  /\ Append(s, x) \in Seq(S) /\ Len(Append(s, x)) = Len(s) + 1
           /\ \A i \in 1 .. Len(s) : Append(s, x)[i] = s[i]
           /\ Append(s, x)[Len(s) + 1] = x
OBVIOUS

\* The greatest of some positions.
LEMMA LastIs ==
    ASSUME NEW n \in Nat, NEW I \in SUBSET (1 .. n)
    PROVE  /\ I = {} => Registry!LastOf(I) = 0
           /\ I # {} => Registry!LastOf(I) \in I /\ \A j \in I : j <= Registry!LastOf(I)
           /\ Registry!LastOf(I) # 0 => I # {}
<1>1. I = {} => Registry!LastOf(I) = 0
  BY DEF Registry!LastOf
<1>2. ASSUME I # {} PROVE Registry!LastOf(I) \in I /\ \A j \in I : j <= Registry!LastOf(I)
  <2>1. I \in SUBSET (0 .. n)
    OBVIOUS
  <2>2. \E i \in I : \A j \in I : j <= i
    BY <1>2, <2>1, Greatest
  <2> QED BY <1>2, <2>2 DEF Registry!LastOf
<1>3. Registry!LastOf(I) # 0 => I # {}
  BY <1>1
<1> QED BY <1>1, <1>2, <1>3

\* What was said last depends on nothing later.
LEMMA LastOfPrefix ==
    ASSUME NEW s \in Seq(Entries), NEW t \in Seq(Entries), Len(s) <= Len(t), \A i \in 1 .. Len(s) : t[i] = s[i],
           NEW i \in 1 .. Len(s) + 1, NEW r
    PROVE  Registry!LastEntryBefore(t, i, r) = Registry!LastEntryBefore(s, i, r) /\ Registry!LastStatusBefore(t, i) = Registry!LastStatusBefore(s, i)
<1>1. \A j \in 1 .. i - 1 : j \in 1 .. Len(s) /\ t[j] = s[j]
  OBVIOUS
<1>2. {j \in 1 .. i - 1 : Registry!Exact(t[j].rel, r)} = {j \in 1 .. i - 1 : Registry!Exact(s[j].rel, r)}
  BY <1>1
<1>3. {k \in 1 .. i - 1 : t[k].status # 0} = {k \in 1 .. i - 1 : s[k].status # 0}
  BY <1>1
<1> DEFINE K == {k \in 1 .. i - 1 : s[k].status # 0}
<1>4. Registry!LastOf(K) # 0 => Registry!LastOf(K) \in 1 .. i - 1
  <2>1. i - 1 \in Nat /\ K \in SUBSET (1 .. i - 1)
    OBVIOUS
  <2>2. Registry!LastOf(K) # 0 => Registry!LastOf(K) \in K
    <3> HIDE DEF K
    <3> QED BY <2>1, LastIs
  <2> QED BY <2>2
<1>5. Registry!LastEntryBefore(t, i, r) = Registry!LastEntryBefore(s, i, r)
  BY <1>2 DEF Registry!LastEntryBefore
<1>6. Registry!LastStatusBefore(t, i) = Registry!LastStatusBefore(s, i)
  <2>1. Registry!LastStatusBefore(s, i) = IF Registry!LastOf(K) = 0 THEN 0 ELSE s[Registry!LastOf(K)].status
    BY DEF Registry!LastStatusBefore
  <2>2. Registry!LastStatusBefore(t, i) = IF Registry!LastOf(K) = 0 THEN 0 ELSE t[Registry!LastOf(K)].status
    BY <1>3 DEF Registry!LastStatusBefore
  <2> HIDE DEF K
  <2> QED BY <1>1, <1>4, <2>1, <2>2
<1> QED BY <1>5, <1>6

\* What is said last of a release is about it.
LEMMA LastEntryIs ==
    ASSUME NEW s \in Seq(Entries), NEW i \in 1 .. Len(s) + 1, NEW r
    PROVE  /\ Registry!LastEntryBefore(s, i, r) = 0 => \A j \in 1 .. i - 1 : ~ Registry!Exact(s[j].rel, r)
           /\ Registry!LastEntryBefore(s, i, r) # 0 =>
                  /\ Registry!LastEntryBefore(s, i, r) \in 1 .. i - 1 /\ Registry!Exact(s[Registry!LastEntryBefore(s, i, r)].rel, r)
                  /\ \A j \in 1 .. i - 1 : Registry!Exact(s[j].rel, r) => j <= Registry!LastEntryBefore(s, i, r)
<1> DEFINE J == {j \in 1 .. i - 1 : Registry!Exact(s[j].rel, r)}
<1>1. i - 1 \in Nat /\ J \in SUBSET (1 .. i - 1)
  OBVIOUS
<1>2. Registry!LastEntryBefore(s, i, r) = Registry!LastOf(J)
  BY DEF Registry!LastEntryBefore
<1>3. /\ J = {} => Registry!LastOf(J) = 0
      /\ J # {} => Registry!LastOf(J) \in J /\ \A j \in J : j <= Registry!LastOf(J)
      /\ Registry!LastOf(J) # 0 => J # {}
  <2> HIDE DEF J
  <2> QED BY <1>1, LastIs
<1>4. J # {} => Registry!LastOf(J) # 0
  BY <1>3
<1> QED BY <1>2, <1>3, <1>4

\* The last statement is one of an entry, or none.
LEMMA LastStatusIs ==
    ASSUME NEW s \in Seq(Entries), NEW i \in 1 .. Len(s) + 1
    PROVE  Registry!LastStatusBefore(s, i) = 0 \/ \E k \in 1 .. i - 1 : s[k].status # 0 /\ Registry!LastStatusBefore(s, i) = s[k].status
<1> DEFINE K == {k \in 1 .. i - 1 : s[k].status # 0}
<1>1. i - 1 \in Nat /\ K \in SUBSET (1 .. i - 1)
  OBVIOUS
<1>2. Registry!LastOf(K) # 0 => Registry!LastOf(K) \in K
  <2> HIDE DEF K
  <2> QED BY <1>1, LastIs
<1>3. Registry!LastStatusBefore(s, i) = IF Registry!LastOf(K) = 0 THEN 0 ELSE s[Registry!LastOf(K)].status
  BY DEF Registry!LastStatusBefore
<1>4. CASE Registry!LastOf(K) = 0
  <2> HIDE DEF K
  <2> QED BY <1>3, <1>4
<1>5. CASE Registry!LastOf(K) # 0
  <2>1. Registry!LastOf(K) \in 1 .. i - 1 /\ s[Registry!LastOf(K)].status # 0
    BY <1>2, <1>5
  <2> HIDE DEF K
  <2> QED BY <1>3, <1>5, <2>1
<1> QED BY <1>4, <1>5

\* A statement that verifies now verifies at its own time.
LEMMA VerifiedIs ==
    ASSUME PublisherInv, Registry!Bounds, NEW s, NEW keys, NEW t, Registry!VerifyStatus(s, keys, t)
    PROVE  Registry!VerifyIssued(s, keys) /\ s \in Nat
<1>1. s \in 1 .. Len(signed) /\ signed[s].key \in keys
  BY DEF Registry!VerifyStatus
<1>2. signed[s] \in Statements /\ s \in Nat
  BY <1>1 DEF PublisherInv
<1>3. signed[s].issued \in Nat
  BY <1>2 DEF Statements
<1> QED BY <1>1, <1>2, <1>3 DEF Registry!VerifyIssued, Registry!VerifyStatus, Registry!Bounds

\* Signed statements stay, and keys stay enrolled.
Kept == /\ signed' \in Seq(Statements) /\ Len(signed) <= Len(signed') /\ \A s \in 1 .. Len(signed) : signed'[s] = signed[s]
        /\ enrolled \subseteq enrolled' /\ keyring \subseteq keyring'

\* The part of the check of a history that is about its i-th entry.
ValidEntry(entries, i, keys) ==
    LET e == entries[i]  p == Registry!LastEntryBefore(entries, i, e.rel) IN
    /\ IF p = 0 THEN e.state = "draft" ELSE Registry!validHostedLifecycleTransition(entries[p].state, e.state)
    /\ e.status # 0 => /\ Registry!VerifyIssued(e.status, keys) /\ Registry!Exact(signed[e.status].rel, e.rel)
                       /\ Registry!Follows(e.status, Registry!LastStatusBefore(entries, i))
    /\ e.state # "draft" => /\ e.status # 0
                            /\ signed[e.status].state = IF e.state = "revoked" THEN "revoked" ELSE "active"

LEMMA ValidIs ==
    \A entries, keys :
        Registry!validateExportLifecycleHistory(entries, keys) <=> \A i \in 1 .. Len(entries) : ValidEntry(entries, i, keys)
BY DEF Registry!validateExportLifecycleHistory, ValidEntry

\* An entry stays valid when statements, keys and entries are added.
LEMMA EntryKept ==
    ASSUME PublisherInv, HostedInv, Kept, lifecycle' \in Seq(Entries), Len(lifecycle) <= Len(lifecycle'),
           \A i \in 1 .. Len(lifecycle) : lifecycle'[i] = lifecycle[i], NEW i \in 1 .. Len(lifecycle)
    PROVE  ValidEntry(lifecycle, i, enrolled)'
<1> DEFINE e == lifecycle[i]
           p == Registry!LastEntryBefore(lifecycle, i, e.rel)
           before == Registry!LastStatusBefore(lifecycle, i)
<1>1. ValidEntry(lifecycle, i, enrolled)
  BY ValidIs DEF HostedInv, Registry!HistoryIsExportable
<1>2. lifecycle \in Seq(Entries) /\ i \in 1 .. Len(lifecycle) + 1 /\ lifecycle'[i] = e
  BY DEF HostedInv
<1>3. Registry!LastEntryBefore(lifecycle', i, e.rel) = p /\ Registry!LastStatusBefore(lifecycle', i) = before
  BY <1>2, LastOfPrefix
<1>4. p # 0 => p \in 1 .. Len(lifecycle)
  BY <1>2, LastEntryIs
<1>5. \A j \in 1 .. Len(lifecycle) : lifecycle[j].status # 0 =>
          /\ lifecycle[j].status \in 1 .. Len(signed) /\ lifecycle[j].status \in 1 .. Len(signed')
          /\ signed'[lifecycle[j].status] = signed[lifecycle[j].status]
  <2> SUFFICES ASSUME NEW j \in 1 .. Len(lifecycle), lifecycle[j].status # 0
               PROVE  lifecycle[j].status \in 1 .. Len(signed)
    BY DEF Kept, PublisherInv
  <2> QED BY ValidIs DEF HostedInv, Registry!HistoryIsExportable, ValidEntry, Registry!VerifyIssued, Registry!VerifyStatus
<1>6. before = 0 \/ (before \in 1 .. Len(signed) /\ signed'[before] = signed[before])
  <2>1. before = 0 \/ \E k \in 1 .. i - 1 : lifecycle[k].status # 0 /\ before = lifecycle[k].status
    BY <1>2, LastStatusIs
  <2> QED BY <1>5, <2>1
<1>7. IF p = 0 THEN e.state = "draft" ELSE Registry!validHostedLifecycleTransition(lifecycle'[p].state, e.state)
  BY <1>1, <1>4 DEF ValidEntry
<1>8. ASSUME e.status # 0
      PROVE  /\ Registry!VerifyIssued(e.status, enrolled)' /\ Registry!Exact(signed'[e.status].rel, e.rel)
             /\ signed'[e.status].generation = (IF before = 0 THEN 1 ELSE signed'[before].generation + 1)
             /\ signed'[e.status].prev = before
  <2>1. Registry!VerifyIssued(e.status, enrolled) /\ Registry!Exact(signed[e.status].rel, e.rel) /\ Registry!Follows(e.status, before)
    BY <1>1, <1>8 DEF ValidEntry
  <2>2. e.status \in 1 .. Len(signed') /\ signed'[e.status] = signed[e.status] /\ enrolled \subseteq enrolled'
    BY <1>5, <1>8 DEF Kept
  <2>3. Registry!VerifyStatus(e.status, enrolled, signed[e.status].issued)'
    BY <1>2, <2>1, <2>2 DEF Registry!VerifyIssued, Registry!VerifyStatus
  <2>4. Registry!VerifyIssued(e.status, enrolled)'
    BY <2>3 DEF Registry!VerifyIssued
  <2>5. signed'[e.status].generation = (IF before = 0 THEN 1 ELSE signed'[before].generation + 1) /\ signed'[e.status].prev = before
    BY <1>6, <2>1, <2>2 DEF Registry!Follows
  <2> QED BY <2>1, <2>2, <2>4, <2>5
<1>9. e.state # "draft" => e.status # 0 /\ signed'[e.status].state = (IF e.state = "revoked" THEN "revoked" ELSE "active")
  BY <1>1, <1>5 DEF ValidEntry
<1> QED BY <1>2, <1>3, <1>7, <1>8, <1>9 DEF ValidEntry, Registry!VerifyIssued, Registry!VerifyStatus, Registry!Follows

\* A step that adds no entry.
LEMMA HostedKept ==
    ASSUME PublisherInv, HostedInv, Kept, releases' = releases, lifecycle' = lifecycle,
           export' # None => export'.releases \subseteq Releases /\ export'.lifecycle \in Seq(Entries)
    PROVE  HostedInv'
<1>1. \A i \in 1 .. Len(lifecycle) : ValidEntry(lifecycle, i, enrolled)'
  BY EntryKept DEF HostedInv
<1>2. Registry!HistoryIsExportable'
  BY <1>1 DEF Registry!HistoryIsExportable, Registry!validateExportLifecycleHistory, ValidEntry
<1> QED BY <1>2 DEF HostedInv, StoredHasEntry, RevokedIsLast, Registry!Exact

\* The last entry of a release, as the appended one sees it.
LEMMA AppendedIs ==
    ASSUME HostedInv, NEW x \in Entries, lifecycle' = Append(lifecycle, x)
    PROVE  /\ lifecycle \in Seq(Entries) /\ lifecycle' \in Seq(Entries) /\ Len(lifecycle') = Len(lifecycle) + 1
           /\ \A i \in 1 .. Len(lifecycle) : lifecycle'[i] = lifecycle[i]
           /\ lifecycle'[Len(lifecycle) + 1] = x
           /\ Registry!LastEntryBefore(lifecycle', Len(lifecycle) + 1, x.rel) = Registry!LastEntryBefore(lifecycle, Len(lifecycle) + 1, x.rel)
           /\ Registry!LastStatusBefore(lifecycle', Len(lifecycle) + 1) = Registry!latestRoleStatus
<1>1. lifecycle \in Seq(Entries)
  BY DEF HostedInv
<1>2. /\ lifecycle' \in Seq(Entries) /\ Len(lifecycle') = Len(lifecycle) + 1
      /\ \A i \in 1 .. Len(lifecycle) : lifecycle'[i] = lifecycle[i]
      /\ lifecycle'[Len(lifecycle) + 1] = x
  BY <1>1, AppendExtends
<1>3. Len(lifecycle) + 1 \in 1 .. Len(lifecycle) + 1 /\ Len(lifecycle) <= Len(lifecycle')
  BY <1>1, <1>2
<1>4. /\ Registry!LastEntryBefore(lifecycle', Len(lifecycle) + 1, x.rel) = Registry!LastEntryBefore(lifecycle, Len(lifecycle) + 1, x.rel)
      /\ Registry!LastStatusBefore(lifecycle', Len(lifecycle) + 1) = Registry!LastStatusBefore(lifecycle, Len(lifecycle) + 1)
  BY <1>1, <1>2, <1>3, LastOfPrefix
<1> QED BY <1>1, <1>2, <1>4 DEF Registry!latestRoleStatus

\* An appended entry that is valid, and follows no revocation of its release.
LEMMA AppendKeeps ==
    ASSUME PublisherInv, HostedInv, Kept, signed' = signed, export' = export,
           NEW x \in Entries, lifecycle' = Append(lifecycle, x),
           x.rel \in releases', releases \subseteq releases', releases' \subseteq releases \cup {x.rel},
           NEW n, n = Len(lifecycle), ValidEntry(lifecycle, n + 1, enrolled)',
           \A i \in 1 .. Len(lifecycle) : Registry!Exact(lifecycle[i].rel, x.rel) => lifecycle[i].state # "revoked"
    PROVE  HostedInv'
<1>1. /\ lifecycle \in Seq(Entries) /\ lifecycle' \in Seq(Entries) /\ Len(lifecycle') = n + 1 /\ n \in Nat
      /\ \A i \in 1 .. n : lifecycle'[i] = lifecycle[i]
      /\ lifecycle'[n + 1] = x
  BY AppendedIs
<1>2. \A i \in 1 .. n : ValidEntry(lifecycle, i, enrolled)'
  BY <1>1, EntryKept
<1>3. Registry!HistoryIsExportable'
  <2>1. \A i \in 1 .. n + 1 : i \in 1 .. n \/ i = n + 1
    BY <1>1
  <2>2. \A i \in 1 .. Len(lifecycle') : ValidEntry(lifecycle, i, enrolled)'
    BY <1>1, <1>2, <2>1
  <2> QED BY <2>2 DEF Registry!HistoryIsExportable, Registry!validateExportLifecycleHistory, ValidEntry
<1>4. StoredHasEntry'
  <2>1. ASSUME NEW r \in releases' PROVE \E i \in 1 .. n + 1 : lifecycle'[i].rel = r
    <3>1. CASE r = x.rel
      BY <1>1, <3>1
    <3>2. CASE r \in releases
      <4>1. PICK i \in 1 .. n : lifecycle[i].rel = r
        BY <3>2 DEF HostedInv, StoredHasEntry
      <4> QED BY <1>1, <4>1
    <3> QED BY <3>1, <3>2
  <2>2. ASSUME NEW i \in 1 .. n + 1 PROVE lifecycle'[i].rel \in releases'
    <3>1. CASE i = n + 1
      BY <1>1, <3>1
    <3>2. CASE i \in 1 .. n
      BY <1>1, <3>2 DEF HostedInv, StoredHasEntry
    <3> QED BY <1>1, <3>1, <3>2
  <2> QED BY <1>1, <2>1, <2>2 DEF StoredHasEntry
<1>5. RevokedIsLast'
  <2>1. ASSUME NEW i \in 1 .. n + 1, NEW j \in 1 .. n + 1, i < j, Registry!Exact(lifecycle'[i].rel, lifecycle'[j].rel)
        PROVE  lifecycle'[i].state # "revoked"
    <3>1. i \in 1 .. n
      BY <1>1, <2>1
    <3>2. CASE j = n + 1
      BY <1>1, <2>1, <3>1, <3>2
    <3>3. CASE j \in 1 .. n
      BY <1>1, <2>1, <3>1, <3>3 DEF HostedInv, RevokedIsLast
    <3> QED BY <1>1, <3>2, <3>3
  <2> QED BY <1>1, <2>1 DEF RevokedIsLast, Registry!Exact
<1>6. releases' \subseteq Releases
  BY DEF HostedInv, Entries
<1> QED BY <1>1, <1>3, <1>4, <1>5, <1>6 DEF HostedInv

\* A release that is imported has no entry yet.
LEMMA ImportKeeps ==
    ASSUME PublisherInv, HostedInv, Registry!Bounds, NEW r \in Releases, Registry!ImportRoleRelease(r)
    PROVE  HostedInv'
<1> DEFINE x == Registry!Entry(r, "draft", 0)
<1> PICK n : n = Len(lifecycle)
  OBVIOUS
<1>1. x \in Entries /\ x = [rel |-> r, state |-> "draft", status |-> 0]
  BY DEF Entries, Registry!Entry, Registry!States
<1>2. Kept /\ signed' = signed /\ export' = export /\ lifecycle' = Append(lifecycle, x) /\ releases' = releases \cup {r}
  BY DEF Registry!ImportRoleRelease, Kept, PublisherInv, Registry!locals
<1>3. /\ lifecycle \in Seq(Entries) /\ n \in Nat /\ lifecycle'[n + 1] = x
      /\ Registry!LastEntryBefore(lifecycle', n + 1, r) = Registry!LastEntryBefore(lifecycle, n + 1, r)
  BY <1>1, <1>2, AppendedIs
<1>4. \A i \in 1 .. n : ~ Registry!Exact(lifecycle[i].rel, r)
  BY DEF HostedInv, StoredHasEntry, Registry!ImportRoleRelease, Registry!Exact
<1>5. Registry!LastEntryBefore(lifecycle, n + 1, r) = 0
  <2>1. n + 1 \in 1 .. Len(lifecycle) + 1 /\ n + 1 - 1 = n
    BY <1>3
  <2> QED BY <1>3, <1>4, <2>1, LastEntryIs
<1>6. ValidEntry(lifecycle, n + 1, enrolled)'
  BY <1>1, <1>3, <1>5 DEF ValidEntry
<1> QED BY <1>1, <1>2, <1>4, <1>6, AppendKeeps

\* Nothing follows a revocation.
LEMMA LifecycleKeeps ==
    ASSUME PublisherInv, HostedInv, Registry!Bounds, NEW r \in releases, NEW state \in Registry!States, NEW s \in 0 .. Len(signed),
           Registry!lifecycleOf(r, state, s)
    PROVE  HostedInv'
<1> PICK n : n = Len(lifecycle)
  OBVIOUS
<1> DEFINE x == Registry!Entry(r, state, s)
           p == Registry!LastEntryBefore(lifecycle, n + 1, r)
<1>1. x \in Entries /\ x = [rel |-> r, state |-> state, status |-> s] /\ s \in Nat
  BY DEF Entries, Registry!Entry, HostedInv
<1>2. /\ Kept /\ signed' = signed /\ export' = export /\ lifecycle' = Append(lifecycle, x) /\ releases' = releases /\ enrolled' = enrolled
      /\ Registry!ValidateHostedLifecycleEntry(r, state, s, Registry!latestLifecycleForRelease(r), Registry!latestRoleStatus)
  BY DEF Registry!lifecycleOf, Registry!AppendRoleLifecycle, Kept, PublisherInv, Registry!locals
<1>3. /\ lifecycle \in Seq(Entries) /\ lifecycle' \in Seq(Entries) /\ n \in Nat /\ n + 1 \in 1 .. Len(lifecycle) + 1 /\ n + 1 - 1 = n
      /\ lifecycle'[n + 1] = x /\ \A i \in 1 .. n : lifecycle'[i] = lifecycle[i]
      /\ Registry!LastEntryBefore(lifecycle', n + 1, r) = p /\ Registry!LastStatusBefore(lifecycle', n + 1) = Registry!latestRoleStatus
  BY <1>1, <1>2, AppendedIs
<1>4. PICK i \in 1 .. n : lifecycle[i].rel = r
  BY DEF HostedInv, StoredHasEntry
<1>5. p \in 1 .. n /\ Registry!Exact(lifecycle[p].rel, r) /\ \A j \in 1 .. n : Registry!Exact(lifecycle[j].rel, r) => j <= p
  <2>1. /\ p = 0 => \A j \in 1 .. n : ~ Registry!Exact(lifecycle[j].rel, r)
        /\ p # 0 => p \in 1 .. n /\ Registry!Exact(lifecycle[p].rel, r) /\ \A j \in 1 .. n : Registry!Exact(lifecycle[j].rel, r) => j <= p
    <3>1. PICK k \in 1 .. Len(lifecycle) + 1 : k = n + 1 /\ k - 1 = n
      BY <1>3
    <3>2. Registry!LastEntryBefore(lifecycle, k, r) = p
      BY <3>1
    <3>3. /\ Registry!LastEntryBefore(lifecycle, k, r) = 0 => \A j \in 1 .. k - 1 : ~ Registry!Exact(lifecycle[j].rel, r)
          /\ Registry!LastEntryBefore(lifecycle, k, r) # 0 =>
                  /\ Registry!LastEntryBefore(lifecycle, k, r) \in 1 .. k - 1 /\ Registry!Exact(lifecycle[Registry!LastEntryBefore(lifecycle, k, r)].rel, r)
                  /\ \A j \in 1 .. k - 1 : Registry!Exact(lifecycle[j].rel, r) => j <= Registry!LastEntryBefore(lifecycle, k, r)
      BY <1>3, LastEntryIs
    <3> HIDE DEF p
    <3> QED BY <3>1, <3>2, <3>3
  <2>2. Registry!Exact(lifecycle[i].rel, r)
    BY <1>4 DEF Registry!Exact
  <2> HIDE DEF p
  <2> QED BY <1>3, <2>1, <2>2
<1>6. Registry!latestLifecycleForRelease(r) = lifecycle[p] /\ lifecycle[p] # None
  <2>1. lifecycle[p] \in Entries
    BY <1>3, <1>5
  <2> QED BY <1>3, <1>5, <2>1 DEF Registry!latestLifecycleForRelease, Registry!Bounds, Entries
<1>7. lifecycle[p].state # "revoked"
  BY <1>2, <1>6 DEF Registry!ValidateHostedLifecycleEntry
<1>8. ASSUME NEW j \in 1 .. n, Registry!Exact(lifecycle[j].rel, r) PROVE lifecycle[j].state # "revoked"
  <2>1. j = p \/ j < p
    BY <1>3, <1>5, <1>8
  <2>2. Registry!Exact(lifecycle[j].rel, lifecycle[p].rel)
    BY <1>5, <1>8 DEF Registry!Exact
  <2> QED BY <1>5, <1>7, <2>1, <2>2 DEF HostedInv, RevokedIsLast
<1>9. Registry!validHostedLifecycleTransition(lifecycle[p].state, state)
  BY <1>2, <1>6 DEF Registry!ValidateHostedLifecycleEntry, Registry!validHostedLifecycleTransition
<1>10. ASSUME s # 0
       PROVE  /\ Registry!VerifyIssued(s, enrolled) /\ Registry!Exact(signed[s].rel, r) /\ Registry!Follows(s, Registry!latestRoleStatus)
              /\ state # "draft" /\ signed[s].state = IF state = "revoked" THEN "revoked" ELSE "active"
  BY <1>2, <1>10, VerifiedIs DEF Registry!ValidateHostedLifecycleEntry
<1>11. state # "draft" => s # 0
  BY <1>2 DEF Registry!ValidateHostedLifecycleEntry
<1>12. ValidEntry(lifecycle, n + 1, enrolled)'
  <2>1. Registry!validHostedLifecycleTransition(lifecycle'[p].state, state) /\ p # 0
    BY <1>3, <1>5, <1>9
  <2>2. s # 0 => Registry!VerifyIssued(s, enrolled)' /\ Registry!Exact(signed'[s].rel, r)
    BY <1>2, <1>10 DEF Registry!VerifyIssued, Registry!VerifyStatus
  <2>3. s # 0 => Registry!Follows(s, Registry!latestRoleStatus)
    BY <1>10
  <2>4. s # 0 => /\ signed'[s].generation = (IF Registry!latestRoleStatus = 0 THEN 1 ELSE signed'[Registry!latestRoleStatus].generation + 1)
                 /\ signed'[s].prev = Registry!latestRoleStatus
    BY <1>2, <2>3 DEF Registry!Follows
  <2>5. state # "draft" => s # 0 /\ signed'[s].state = (IF state = "revoked" THEN "revoked" ELSE "active")
    BY <1>2, <1>10, <1>11
  <2> QED BY <1>1, <1>3, <2>1, <2>2, <2>4, <2>5 DEF ValidEntry, Registry!VerifyIssued, Registry!VerifyStatus, Registry!Follows
<1> QED BY <1>1, <1>2, <1>8, <1>12, AppendKeeps

\* A statement that is signed is of a generation.
LEMMA SignKeeps ==
    ASSUME PublisherInv, NEW r \in Releases, NEW state \in {"active", "revoked"}, NEW prev \in 0 .. Len(signed), Registry!SignStatus(r, state, prev)
    PROVE  PublisherInv' /\ Kept
<1> DEFINE s == [rel |-> r, state |-> state, prev |-> prev, issued |-> day, key |-> r.key,
                 generation |-> IF prev = 0 THEN 1 ELSE signed[prev].generation + 1]
<1>1. signed \in Seq(Statements) /\ day \in Nat
  BY DEF PublisherInv
<1>2. ASSUME prev # 0 PROVE signed[prev].generation \in Nat
  <2>1. prev \in 1 .. Len(signed)
    BY <1>1, <1>2
  <2>2. signed[prev] \in Statements
    BY <1>1, <2>1
  <2> QED BY <2>2 DEF Statements
<1>3. s \in Statements
  BY <1>1, <1>2 DEF Statements, Registry!Keys
<1>4. signed' = Append(signed, s) /\ day' = day /\ enrolled' = enrolled /\ keyring' = keyring
  BY DEF Registry!SignStatus, Registry!hosted, Registry!locals
<1>5. /\ signed' \in Seq(Statements) /\ Len(signed') = Len(signed) + 1
      /\ \A i \in 1 .. Len(signed) : signed'[i] = signed[i]
  <2> HIDE DEF s
  <2> QED BY <1>1, <1>3, <1>4, AppendExtends
<1> QED BY <1>1, <1>4, <1>5 DEF PublisherInv, Kept

\* Every step keeps the statements and the keys.
LEMMA StepKept ==
    ASSUME PublisherInv, [Registry!Next]_(Registry!vars)
    PROVE  PublisherInv' /\ Kept
<1>1. ASSUME UNCHANGED <<day, signed>>, enrolled \subseteq enrolled', keyring \subseteq keyring' PROVE PublisherInv' /\ Kept
  BY <1>1 DEF PublisherInv, Kept
<1>2. CASE Registry!HostedNext
  <2>1. CASE Registry!Manage
    BY <1>1, <2>1 DEF Registry!Manage, Registry!catalogs, Registry!publisher, Registry!catalogReleases, Registry!lifecycleOf,
                      Registry!CreateRoleCatalog, Registry!EnrollRolePublisher, Registry!ImportRoleRelease,
                      Registry!AppendRoleLifecycle, Registry!locals
  <2>2. CASE Registry!Export
    BY <1>1, <2>2 DEF Registry!Export, Registry!release, Registry!ExportRole, Registry!hosted, Registry!locals
  <2>3. CASE Registry!Pin
    BY <1>1, <2>3 DEF Registry!Pin, Registry!pin, Registry!SetRolePin, Registry!locals
  <2>4. CASE Registry!Reread
    BY <1>1, <2>4 DEF Registry!Reread, Registry!locals
  <2> QED BY <1>2, <2>1, <2>2, <2>3, <2>4 DEF Registry!HostedNext, Registry!handle
<1>3. CASE Registry!MemberNext
  BY <1>1, <1>3 DEF Registry!MemberNext, Registry!UpdateMembership, Registry!Suspend, Registry!Reverify, Registry!hosted,
                    Registry!locals
<1>4. CASE Registry!PublisherNext
  BY <1>4, SignKeeps DEF Registry!PublisherNext
<1>5. CASE Registry!LocalNext
  BY <1>1, <1>5 DEF Registry!LocalNext, Registry!EnrollLocal, Registry!ImportRelease, Registry!ImportCatalog,
                    Registry!StoreNextStatus, Registry!Die, Registry!StoreNextRelease, Registry!hosted
<1>6. CASE Registry!SelectNext
  BY <1>1, <1>6 DEF Registry!SelectNext, Registry!EditRole, Registry!CompareAndSelect, Registry!ReadDocument,
                    Registry!WriteDocument, Registry!LoadProject, Registry!SaveProject, Registry!hosted
<1>7. CASE Registry!Tick
  BY <1>7 DEF Registry!Tick, PublisherInv, Kept, Registry!hosted, Registry!locals
<1>8. CASE UNCHANGED Registry!vars
  BY <1>1, <1>8 DEF Registry!vars, Registry!hosted, Registry!locals
<1> QED BY <1>2, <1>3, <1>4, <1>5, <1>6, <1>7, <1>8 DEF Registry!Next

\* The catalog, step by step.
LEMMA HostedStep ==
    ASSUME PublisherInv, HostedInv, Registry!Bounds, [Registry!Next]_(Registry!vars)
    PROVE  HostedInv'
<1>1. Kept
  BY StepKept
<1>2. ASSUME UNCHANGED <<releases, lifecycle, export>> PROVE HostedInv'
  BY <1>1, <1>2, HostedKept DEF HostedInv
<1>3. CASE Registry!HostedNext
  <2>1. ASSUME NEW t \in Teams, Registry!catalogs(t) PROVE HostedInv'
    BY <1>2, <2>1 DEF Registry!catalogs, Registry!CreateRoleCatalog
  <2>2. ASSUME NEW k \in Registry!Keys, Registry!publisher(k) PROVE HostedInv'
    BY <1>2, <2>2 DEF Registry!publisher, Registry!EnrollRolePublisher
  <2>3. ASSUME NEW r \in Releases, Registry!catalogReleases(r) PROVE HostedInv'
    BY <2>3, ImportKeeps DEF Registry!catalogReleases
  <2>4. ASSUME NEW r \in releases, NEW state \in Registry!States, NEW s \in 0 .. Len(signed), Registry!lifecycleOf(r, state, s) PROVE HostedInv'
    BY <2>4, LifecycleKeeps
  <2>5. CASE Registry!Export
    <3>1. PICK r \in Releases : Registry!ExportRole(r)
      BY <2>5 DEF Registry!Export, Registry!release
    <3>2. /\ export' = [selected |-> r, releases |-> releases, lifecycle |-> lifecycle]
          /\ releases' = releases /\ lifecycle' = lifecycle
      BY <3>1 DEF Registry!ExportRole, Registry!hosted
    <3>3. export'.releases \subseteq Releases /\ export'.lifecycle \in Seq(Entries)
      BY <3>2 DEF HostedInv
    <3> QED BY <1>1, <3>2, <3>3, HostedKept
  <2>6. CASE Registry!Pin
    BY <1>2, <2>6 DEF Registry!Pin, Registry!pin, Registry!SetRolePin
  <2>7. CASE Registry!Reread
    BY <1>2, <2>7 DEF Registry!Reread
  <2> QED BY <1>3, <2>1, <2>2, <2>3, <2>4, <2>5, <2>6, <2>7 DEF Registry!HostedNext, Registry!handle, Registry!Manage
<1>4. CASE Registry!MemberNext
  BY <1>2, <1>4 DEF Registry!MemberNext, Registry!UpdateMembership, Registry!Suspend, Registry!Reverify, Registry!hosted
<1>5. CASE Registry!PublisherNext
  BY <1>2, <1>5 DEF Registry!PublisherNext, Registry!SignStatus, Registry!hosted
<1>6. CASE Registry!LocalNext
  BY <1>2, <1>6 DEF Registry!LocalNext, Registry!EnrollLocal, Registry!ImportRelease, Registry!ImportCatalog,
                    Registry!StoreNextStatus, Registry!Die, Registry!StoreNextRelease, Registry!hosted
<1>7. CASE Registry!SelectNext
  BY <1>2, <1>7 DEF Registry!SelectNext, Registry!EditRole, Registry!CompareAndSelect, Registry!ReadDocument,
                    Registry!WriteDocument, Registry!LoadProject, Registry!SaveProject, Registry!hosted
<1>8. CASE Registry!Tick
  BY <1>2, <1>8 DEF Registry!Tick, Registry!hosted
<1>9. CASE UNCHANGED Registry!vars
  BY <1>2, <1>9 DEF Registry!vars, Registry!hosted
<1> QED BY <1>3, <1>4, <1>5, <1>6, <1>7, <1>8, <1>9 DEF Registry!Next

\* What is verified stays verified.
LEMMA VerifiedKept ==
    ASSUME PublisherInv, Kept, NEW s, Registry!VerifyIssued(s, keyring)
    PROVE  s \in 1 .. Len(signed) /\ s \in Nat /\ signed[s] \in Statements /\ signed'[s] = signed[s] /\ Registry!VerifyIssued(s, keyring)'
<1>1. s \in 1 .. Len(signed)
  BY DEF Registry!VerifyIssued, Registry!VerifyStatus
<1>2. signed[s] \in Statements /\ signed'[s] = signed[s] /\ s \in 1 .. Len(signed') /\ s \in Nat
  BY <1>1 DEF PublisherInv, Kept
<1>3. Registry!VerifyStatus(s, keyring, signed[s].issued)'
  BY <1>2 DEF Registry!VerifyIssued, Registry!VerifyStatus, Kept
<1> QED BY <1>1, <1>2, <1>3 DEF Registry!VerifyIssued

\* The history, when nothing is written.
LEMMA HistoryKept ==
    ASSUME PublisherInv, HistoryInv, Kept, history' = history, cache' \subseteq Releases
    PROVE  HistoryInv'
<1>1. \A i \in 1 .. Len(history) :
          LET s == history[i] IN signed'[s] = signed[s] /\ Registry!VerifyIssued(s, keyring)' /\ signed[s].generation = i
  BY VerifiedKept DEF HistoryInv
<1>2. \A i \in 1 .. Len(history) : Registry!VerifyIssued(history[i], keyring)'
  BY <1>1 DEF Registry!VerifyIssued, Registry!VerifyStatus
<1>3. \A i \in 1 .. Len(history') : (Registry!VerifyIssued(history[i], keyring) /\ signed[history[i]].generation = i)'
  BY <1>1, <1>2
<1>4. \A i \in 1 .. Len(history) : signed'[history'[i]] = signed[history[i]]
  BY <1>1
<1>5. ASSUME NEW i \in 1 .. Len(history), NEW j \in 1 .. Len(history), i < j,
             signed'[history'[i]].state = "revoked", signed'[history'[j]].state = "active"
      PROVE  signed'[history'[i]].rel.digest # signed'[history'[j]].rel.digest
  BY <1>4, <1>5 DEF HistoryInv
<1>6. \A i, j \in 1 .. Len(history') :
          i < j /\ signed'[history'[i]].state = "revoked" /\ signed'[history'[j]].state = "active"
              => signed'[history'[i]].rel.digest # signed'[history'[j]].rel.digest
  BY <1>5, Zenon
<1>7. cache' \subseteq Releases /\ history' \in Seq(Nat)
  BY DEF HistoryInv
<1> QED BY <1>3, <1>6, <1>7, Zenon DEF HistoryInv

\* The statements that are left, when only the publisher or the owner of the
\* keys acts.
LEMMA TaskKept ==
    ASSUME PublisherInv, HistoryInv, TaskInv, Kept, UNCHANGED <<cache, history, torn, task>>
    PROVE  TaskInv'
<1>1. ASSUME task # None, task.kind = "release" PROVE \E s \in Nat : Registry!VerifyIssued(s, keyring)' /\ task.statuses = <<s>>
  <2>1. PICK s \in Nat : Registry!VerifyIssued(s, keyring) /\ task.statuses = <<s>>
    BY <1>1 DEF TaskInv
  <2> QED BY <2>1, VerifiedKept
<1>2. ASSUME task # None, task.kind = "catalog" PROVE StatusesLeft'
  <2> DEFINE st == task.statuses
  <2>1. StatusesLeft
    BY <1>2 DEF TaskInv
  <2>2. st \in Seq(Nat) /\ st # <<>> /\ Len(st) \in Nat /\ 1 \in 1 .. Len(st) /\ Len(history) \in Nat /\ history \in Seq(Nat)
    BY <2>1 DEF StatusesLeft, HistoryInv
  <2>3. \A m \in 1 .. Len(st) : LET s == st[m] IN s \in 1 .. Len(signed) /\ signed[s] \in Statements /\ signed'[s] = signed[s] /\ Registry!VerifyIssued(s, keyring)'
    BY <2>1, VerifiedKept DEF StatusesLeft
  <2>4. \A i \in 1 .. Len(history) : LET s == history[i] IN s \in 1 .. Len(signed) /\ signed[s] \in Statements /\ signed'[s] = signed[s]
    BY VerifiedKept DEF HistoryInv
  <2>5. ASSUME NEW m \in 1 .. Len(st), Extends(m) PROVE Extends(m)'
    <3>1. Predecessor(m)' = Predecessor(m)
      BY DEF Predecessor
    <3>2. Predecessor(m) = 0 \/ signed'[Predecessor(m)] = signed[Predecessor(m)]
      <4>1. CASE m > 1
        <5>1. m - 1 \in 1 .. Len(st)
          BY <2>2, <4>1
        <5> QED BY <2>3, <4>1, <5>1 DEF Predecessor
      <4>2. CASE ~(m > 1) /\ history # <<>>
        <5>1. Len(history) \in 1 .. Len(history)
          BY <2>2, <4>2
        <5> QED BY <2>4, <4>2, <5>1 DEF Predecessor, Registry!Last
      <4> QED BY <4>1, <4>2 DEF Predecessor
    <3>3. Registry!Follows(st[m], Predecessor(m))'
      BY <2>3, <2>5, <3>1, <3>2 DEF Extends, Registry!Follows
    <3>4. \A d : Registry!Revoked(history, d)' => Registry!Revoked(history, d)
      <4>1. \A j \in 1 .. Len(history) + 1 - 1 : j \in 1 .. Len(history)
        BY <2>2
      <4> QED BY <2>4, <4>1 DEF Registry!Revoked, Registry!RevokedBefore
    <3>5. \A d : Registry!RevokedBefore(st, m, d)' => Registry!RevokedBefore(st, m, d)
      <4>1. \A j \in 1 .. m - 1 : j \in 1 .. Len(st)
        BY <2>2
      <4> QED BY <2>3, <4>1 DEF Registry!RevokedBefore
    <3>6. signed'[st[m]] = signed[st[m]]
      BY <2>3
    <3>7. signed[st[m]].rel \in task.releases \/ (signed[st[m]].rel \in cache /\ signed[st[m]].rel.key \in keyring')
      BY <2>5 DEF Extends, Registry!ReadRelease, Registry!VerifyRelease, Kept
    <3>8. PICK d : d = signed[st[m]].rel.digest
      OBVIOUS
    <3>9. signed[st[m]].state = "active" => ~ Registry!Revoked(history, d)' /\ ~ Registry!RevokedBefore(st, m, d)'
      BY <2>5, <3>4, <3>5, <3>8 DEF Extends
    <3> QED BY <3>3, <3>6, <3>7, <3>8, <3>9 DEF Extends, Registry!Revoked, Registry!RevokedBefore, Registry!ReadRelease,
                                                Registry!VerifyRelease
  <2>6. \A m \in 1 .. Len(st) : Registry!VerifyIssued(st[m], keyring)'
    BY <2>3 DEF Registry!VerifyIssued, Registry!VerifyStatus
  <2>7. \A m \in 1 .. Len(st) : signed'[st[m]] = signed[st[m]]
    BY <2>3
  <2>8. \A m \in 1 .. Len(st) : signed'[st[m]].generation = signed'[st[1]].generation + m - 1
    BY <2>1, <2>2, <2>7 DEF StatusesLeft
  <2>9. signed'[st[1]].generation <= Len(history) + 1
    BY <2>1, <2>2, <2>7 DEF StatusesLeft
  <2>10. \A m \in 1 .. Len(st) : IF signed'[st[m]].generation <= Len(history) THEN history[signed'[st[m]].generation] = st[m] ELSE Extends(m)'
    BY <2>1, <2>5, <2>7 DEF StatusesLeft
  <2> QED BY <2>2, <2>6, <2>8, <2>9, <2>10 DEF StatusesLeft
<1>3. ASSUME task # None, task.kind = "catalog" PROVE ~ torn' /\ ReleasesLeft'
  BY <1>3 DEF TaskInv, ReleasesLeft, Registry!VerifyRelease, Kept
<1> QED BY <1>1, <1>2, <1>3 DEF TaskInv, Registry!VerifyIssued, Registry!VerifyStatus

\* The statements of an export are those of its entries, as many as there are.
LEMMA StatusesAre ==
    ASSUME NEW entries \in Seq(Entries)
    PROVE  /\ Len(Registry!Statuses(entries)) \in Nat
           /\ DOMAIN Registry!Statuses(entries) = 1 .. Len(Registry!Statuses(entries))
           /\ \E S : Registry!Statuses(entries) \in Seq(S)
<1> DEFINE I == {i \in 1 .. Len(entries) : entries[i].status # 0}
           n == Registry!Cardinality(I)
           At(k) == CHOOSE i \in I : Registry!Cardinality({j \in I : j <= i}) = k
<1>1. n \in Nat
  <2>1. Len(entries) \in Nat
    OBVIOUS
  <2>2. IsFiniteSet(1 .. Len(entries))
    BY <2>1, FS_Interval
  <2>3. IsFiniteSet(I)
    BY <2>2, FS_Subset
  <2> QED BY <2>3, FS_CardinalityType, SizedAs
<1>2. Registry!Statuses(entries) = [k \in 1 .. n |-> entries[At(k)].status]
  BY DEF Registry!Statuses
<1> HIDE DEF n, At
<1>3. PICK S : S = {entries[At(k)].status : k \in 1 .. n}
  OBVIOUS
<1>4. Registry!Statuses(entries) \in Seq(S)
  BY <1>1, <1>2, <1>3
<1>5. Len(Registry!Statuses(entries)) \in Nat /\ DOMAIN Registry!Statuses(entries) = 1 .. Len(Registry!Statuses(entries))
  BY <1>4
<1> QED BY <1>4, <1>5

\* The i-th statement of a chain is of generation i.
LEMMA ChainCounts ==
    ASSUME PublisherInv, NEW n \in Nat, NEW all,
           \A i \in 1 .. n : Registry!VerifyIssued(all[i], keyring) /\ Registry!Follows(all[i], IF i = 1 THEN 0 ELSE all[i - 1])
    PROVE  \A i \in 1 .. n : signed[all[i]].generation = i
<1> DEFINE Wrong == {i \in 1 .. n : signed[all[i]].generation # i}
<1> SUFFICES ASSUME Wrong # {} PROVE FALSE
  OBVIOUS
<1>1. PICK i \in Wrong : \A j \in Wrong : i <= j
  <2>1. Wrong \in SUBSET Nat
    OBVIOUS
  <2> HIDE DEF Wrong
  <2> QED BY <2>1, Least
<1>2. CASE i = 1
  BY <1>1, <1>2 DEF Registry!Follows
<1>3. CASE i # 1
  <2>1. i - 1 \in 1 .. n /\ i - 1 \notin Wrong
    BY <1>1, <1>3
  <2>2. signed[all[i - 1]].generation = i - 1
    BY <2>1
  <2>3. all[i - 1] # 0
    BY <2>1 DEF Registry!VerifyIssued, Registry!VerifyStatus
  <2> QED BY <1>1, <1>3, <2>2, <2>3 DEF Registry!Follows
<1> QED BY <1>2, <1>3

\* An import of a catalog that passed its preflight.
LEMMA CatalogKeeps ==
    ASSUME RegistryInv, Registry!Bounds, Registry!ImportCatalog
    PROVE  HistoryInv' /\ TaskInv'
<1> DEFINE e == export
           st == Registry!Statuses(export.lifecycle)
           n == IF Len(st) > Len(history) THEN Len(st) ELSE Len(history)
           all == [i \in 1 .. n |-> IF i <= Len(history) THEN history[i] ELSE st[i]]
<1>1. /\ Kept /\ UNCHANGED <<signed, keyring, cache, history, torn>>
      /\ export # None /\ Registry!ValidExport(export) /\ Registry!preflightRoleCatalogImportLocked(export)
      /\ task' = [kind |-> "catalog", releases |-> export.releases, statuses |-> st]
  BY DEF Registry!ImportCatalog, Kept, Registry!hosted, RegistryInv, PublisherInv
<1>2. export.releases \subseteq Releases /\ export.lifecycle \in Seq(Entries)
  BY <1>1 DEF RegistryInv, HostedInv
<1>3. history \in Seq(Nat) /\ Len(history) \in Nat /\ cache \subseteq Releases
  BY DEF RegistryInv, HistoryInv
<1>4. HistoryInv'
  BY <1>1, <1>3, HistoryKept DEF RegistryInv
<1>5. Len(st) \in Nat /\ DOMAIN st = 1 .. Len(st) /\ \E S : st \in Seq(S)
  BY <1>2, StatusesAre
<1>6. /\ ~ torn
      /\ \A r \in e.releases, x \in cache : x.version = r.version => x = r
      /\ \A i \in 1 .. Len(st) : i <= Len(history) => history[i] = st[i]
      /\ \A i \in 1 .. Len(all) :
             /\ Registry!VerifyIssued(all[i], keyring) /\ Registry!Follows(all[i], IF i = 1 THEN 0 ELSE all[i - 1])
             /\ signed[all[i]].rel \in e.releases \/ Registry!ReadRelease(signed[all[i]].rel)
             /\ signed[all[i]].state = "active" => ~ Registry!RevokedBefore(all, i, signed[all[i]].rel.digest)
  BY <1>1 DEF Registry!preflightRoleCatalogImportLocked
<1>7. st # <<>>
  <2>1. Registry!LastOf({i \in 1 .. Len(st) : Registry!Exact(signed[st[i]].rel, e.selected)}) # 0
    BY <1>1 DEF Registry!ValidExport
  <2>2. {i \in 1 .. Len(st) : Registry!Exact(signed[st[i]].rel, e.selected)} # {}
    BY <2>1 DEF Registry!LastOf
  <2> HIDE DEF st
  <2> QED BY <1>5, <2>2
<1> HIDE DEF st
<1>8. n \in Nat /\ Len(all) = n /\ Len(st) <= n /\ Len(history) <= n
  BY <1>3, <1>5
<1>9. \A i \in 1 .. Len(st) : all[i] = st[i]
  BY <1>3, <1>5, <1>6, <1>8
<1>10. \A i \in 1 .. Len(history) : all[i] = history[i]
  BY <1>3, <1>8
<1> DEFINE rest == 1 .. Len(st)
<1> HIDE DEF n, all
<1>11. \A i \in 1 .. n : signed[all[i]].generation = i
  BY <1>6, <1>8, ChainCounts DEF RegistryInv
<1>12. \A m \in 1 .. Len(st) : Registry!VerifyIssued(st[m], keyring) /\ st[m] \in Nat /\ signed[st[m]].generation = m
  BY <1>5, <1>6, <1>8, <1>9, <1>11, VerifiedKept, <1>1 DEF RegistryInv
<1>13. ASSUME NEW m \in 1 .. Len(st), m > Len(history) PROVE Extends(m)'
  <2>1. m \in 1 .. n /\ all[m] = st[m] /\ st = task'.statuses /\ m \in Nat
    BY <1>1, <1>5, <1>8, <1>9
  <2>2. Registry!Follows(st[m], IF m = 1 THEN 0 ELSE all[m - 1])
    BY <1>6, <1>8, <2>1
  <2>3. Predecessor(m)' = IF m = 1 THEN 0 ELSE all[m - 1]
    <3>1. CASE m = 1
      <4>1. history = <<>> /\ ~(m > 1)
        BY <1>3, <1>13, <3>1
      <4> QED BY <1>1, <3>1, <4>1 DEF Predecessor
    <3>2. CASE m # 1
      <4>1. m > 1 /\ m - 1 \in 1 .. Len(st)
        BY <1>5, <3>2
      <4> QED BY <1>9, <2>1, <3>2, <4>1 DEF Predecessor
    <3> QED BY <3>1, <3>2
  <2>4. \A d : Registry!RevokedBefore(all, m, d) \/ ~ Registry!Revoked(history, d)
    <3>1. \A j \in 1 .. Len(history) + 1 - 1 : j \in 1 .. m - 1 /\ all[j] = history[j]
      BY <1>3, <1>10, <1>13, <2>1
    <3> QED BY <3>1 DEF Registry!Revoked, Registry!RevokedBefore
  <2>5. \A d : Registry!RevokedBefore(all, m, d) \/ ~ Registry!RevokedBefore(st, m, d)
    <3>1. \A j \in 1 .. m - 1 : all[j] = st[j]
      BY <1>5, <1>9
    <3> QED BY <3>1 DEF Registry!RevokedBefore
  <2>6. signed[st[m]].rel \in e.releases \/ Registry!ReadRelease(signed[st[m]].rel)
    BY <1>6, <1>8, <2>1
  <2>7. signed[st[m]].state = "active" => ~ Registry!RevokedBefore(all, m, signed[st[m]].rel.digest)
    BY <1>6, <1>8, <2>1
  <2>8. signed[st[m]].state = "active" => /\ ~ Registry!Revoked(history, signed[st[m]].rel.digest)
                                          /\ ~ Registry!RevokedBefore(st, m, signed[st[m]].rel.digest)
    BY <2>4, <2>5, <2>7
  <2>9. /\ signed'[st[m]].generation = (IF Predecessor(m)' = 0 THEN 1 ELSE signed'[Predecessor(m)'].generation + 1)
        /\ signed'[st[m]].prev = Predecessor(m)'
    BY <1>1, <2>2, <2>3 DEF Registry!Follows
  <2> QED BY <1>1, <2>1, <2>6, <2>8, <2>9 DEF Extends, Registry!Follows, Registry!Revoked, Registry!RevokedBefore,
                                              Registry!ReadRelease, Registry!VerifyRelease
<1>14. StatusesLeft'
  <2>1. task'.statuses = st /\ 1 \in 1 .. Len(st)
    BY <1>1, <1>5, <1>7
  <2>2. st \in Seq(Nat)
    BY <1>5, <1>12
  <2>3. \A m \in 1 .. Len(st) : Registry!VerifyIssued(task.statuses[m], keyring)'
    BY <1>1, <1>12, <2>1 DEF Registry!VerifyIssued, Registry!VerifyStatus
  <2>4. \A m \in 1 .. Len(st) : signed'[st[m]].generation = signed'[st[1]].generation + m - 1
    BY <1>1, <1>5, <1>12, <2>1
  <2>5. signed'[st[1]].generation <= Len(history) + 1
    BY <1>1, <1>3, <1>12, <2>1
  <2>6. ASSUME NEW m \in 1 .. Len(st)
        PROVE IF signed'[st[m]].generation <= Len(history') THEN history'[signed'[st[m]].generation] = st[m] ELSE Extends(m)'
    <3>1. signed'[st[m]].generation = m /\ history' = history /\ m \in Nat
      BY <1>1, <1>12
    <3> QED BY <1>3, <1>6, <1>13, <3>1
  <2> QED BY <1>1, <1>7, <2>1, <2>2, <2>3, <2>4, <2>5, <2>6 DEF StatusesLeft, Registry!VerifyIssued, Registry!VerifyStatus
<1>15. ReleasesLeft'
  <2>1. /\ \A x, y \in e.releases : x.version = y.version => x = y
        /\ \A r \in e.releases : Registry!VerifyRelease(r, keyring)
    BY <1>1 DEF Registry!ValidExport
  <2> QED BY <1>1, <1>2, <1>6, <2>1 DEF ReleasesLeft, Registry!VerifyRelease
<1> QED BY <1>1, <1>4, <1>6, <1>14, <1>15 DEF TaskInv

\* One release of the catalog is stored: the others still agree with the cache.
LEMMA StoreReleaseKeeps ==
    ASSUME RegistryInv, NEW r \in Releases, Registry!StoreNextRelease(r)
    PROVE  HistoryInv' /\ TaskInv'
<1>1. /\ Kept /\ UNCHANGED <<signed, keyring, history, torn>> /\ cache' = cache \cup {r}
      /\ task # None /\ task.kind = "catalog" /\ r \in task.releases /\ Registry!storeReleaseLocked(r)
      /\ task' = [task EXCEPT !.releases = @ \ {r}]
  BY DEF Registry!StoreNextRelease, Registry!Free, Kept, Registry!hosted, RegistryInv, PublisherInv
<1>2. HistoryInv'
  BY <1>1, HistoryKept DEF RegistryInv, HistoryInv
<1>3. ~ torn /\ StatusesLeft /\ ReleasesLeft
  BY <1>1 DEF RegistryInv, TaskInv
<1>4. task'.kind = "catalog" /\ task'.statuses = task.statuses /\ task'.releases = task.releases \ {r}
  BY <1>1
<1>5. StatusesLeft'
  <2>1. ASSUME NEW m \in 1 .. Len(task.statuses), Extends(m) PROVE Extends(m)'
    <3>1. Predecessor(m)' = Predecessor(m)
      BY <1>1, <1>4 DEF Predecessor
    <3>2. \/ signed[task.statuses[m]].rel \in task'.releases
          \/ signed[task.statuses[m]].rel \in cache' /\ signed[task.statuses[m]].rel.key \in keyring'
      BY <1>1, <1>4, <2>1 DEF Extends, Registry!ReadRelease, Registry!VerifyRelease, Registry!storeReleaseLocked
    <3>3. signed[task.statuses[m]].state = "active" => /\ ~ Registry!Revoked(history, signed[task.statuses[m]].rel.digest)
                                                      /\ ~ Registry!RevokedBefore(task.statuses, m, signed[task.statuses[m]].rel.digest)
      BY <2>1 DEF Extends
    <3>4. Registry!Follows(task.statuses[m], Predecessor(m))
      BY <2>1 DEF Extends
    <3> QED BY <1>1, <1>4, <3>1, <3>2, <3>3, <3>4 DEF Extends, Registry!Follows, Registry!Revoked, Registry!RevokedBefore,
                                                      Registry!ReadRelease, Registry!VerifyRelease
  <2> QED BY <1>1, <1>3, <1>4, <2>1 DEF StatusesLeft, Registry!VerifyIssued, Registry!VerifyStatus
<1>6. ReleasesLeft'
  BY <1>1, <1>3, <1>4 DEF ReleasesLeft, Registry!VerifyRelease
<1> QED BY <1>1, <1>2, <1>3, <1>4, <1>5, <1>6 DEF TaskInv

\* A statement that extends the history is of the next generation, and makes
\* nothing revoked active.
LEMMA WrittenKeeps ==
    ASSUME RegistryInv, Kept, UNCHANGED <<signed, keyring, cache>>, NEW s, Registry!VerifyIssued(s, keyring),
           Registry!Follows(s, IF history = <<>> THEN 0 ELSE Registry!Last(history)),
           signed[s].state = "active" => ~ Registry!Revoked(history, signed[s].rel.digest), history' = Append(history, s)
    PROVE  HistoryInv' /\ signed[s].generation = Len(history) + 1
<1> DEFINE n == Len(history)
<1>1. history \in Seq(Nat) /\ n \in Nat /\ s \in Nat
  BY VerifiedKept DEF RegistryInv, HistoryInv
<1>2. history' \in Seq(Nat) /\ Len(history') = n + 1 /\ (\A i \in 1 .. n : history'[i] = history[i]) /\ history'[n + 1] = s
  BY <1>1, AppendExtends
<1>3. signed[s].generation = n + 1
  <2>1. CASE history = <<>>
    BY <2>1 DEF Registry!Follows
  <2>2. CASE history # <<>>
    <3>1. n \in 1 .. n /\ Registry!Last(history) = history[n]
      BY <1>1, <2>2 DEF Registry!Last
    <3>2. signed[history[n]].generation = n /\ history[n] # 0
      BY <3>1 DEF RegistryInv, HistoryInv, Registry!VerifyIssued, Registry!VerifyStatus
    <3> QED BY <2>2, <3>1, <3>2 DEF Registry!Follows
  <2> QED BY <2>1, <2>2
<1>4. \A i \in 1 .. n + 1 : Registry!VerifyIssued(history'[i], keyring) /\ signed[history'[i]].generation = i
  BY <1>1, <1>2, <1>3 DEF RegistryInv, HistoryInv
<1>5. ASSUME NEW i \in 1 .. n + 1, NEW j \in 1 .. n + 1, i < j, signed[history'[i]].state = "revoked", signed[history'[j]].state = "active"
      PROVE  signed[history'[i]].rel.digest # signed[history'[j]].rel.digest
  <2>1. i \in 1 .. n /\ history'[i] = history[i]
    BY <1>1, <1>2, <1>5
  <2>2. CASE j \in 1 .. n
    BY <1>2, <1>5, <2>1, <2>2 DEF RegistryInv, HistoryInv
  <2>3. CASE j = n + 1
    <3>1. i \in 1 .. Len(history) + 1 - 1
      BY <1>1, <2>1
    <3> QED BY <1>2, <1>5, <2>1, <2>3, <3>1 DEF Registry!Revoked, Registry!RevokedBefore
  <2> QED BY <1>1, <2>2, <2>3
<1>6. \A i \in 1 .. n + 1 : Registry!VerifyIssued(history[i], keyring)'
  BY <1>4 DEF Registry!VerifyIssued, Registry!VerifyStatus
<1>7. HistoryInv'
  <2>1. \A i \in 1 .. Len(history') : Registry!VerifyIssued(history[i], keyring)' /\ signed'[history'[i]].generation = i
    BY <1>2, <1>4, <1>6
  <2>2. ASSUME NEW i \in 1 .. Len(history'), NEW j \in 1 .. Len(history'), i < j,
               signed'[history'[i]].state = "revoked", signed'[history'[j]].state = "active"
        PROVE  signed'[history'[i]].rel.digest # signed'[history'[j]].rel.digest
    <3>1. i \in 1 .. n + 1 /\ j \in 1 .. n + 1
      BY <1>2
    <3>2. signed[history'[i]].state = "revoked" /\ signed[history'[j]].state = "active"
      BY <2>2
    <3>3. signed[history'[i]].rel.digest # signed[history'[j]].rel.digest
      BY <1>5, <2>2, <3>1, <3>2
    <3> QED BY <3>3
  <2>3. cache' \subseteq Releases
    BY DEF RegistryInv, HistoryInv
  <2>4. \A i \in 1 .. Len(history') : (Registry!VerifyIssued(history[i], keyring) /\ signed[history[i]].generation = i)'
    BY <2>1 DEF Registry!VerifyIssued, Registry!VerifyStatus
  <2>5. \A i, j \in 1 .. Len(history') :
            i < j /\ signed'[history'[i]].state = "revoked" /\ signed'[history'[j]].state = "active"
                => signed'[history'[i]].rel.digest # signed'[history'[j]].rel.digest
    BY <2>2, ZenonT(30)
  <2> QED BY <1>2, <2>3, <2>4, <2>5, Zenon DEF HistoryInv
<1> QED BY <1>3, <1>7

\* The next statement of an import.
LEMMA StoreStatusKeeps ==
    ASSUME RegistryInv, Registry!StoreNextStatus
    PROVE  HistoryInv' /\ TaskInv'
<1> DEFINE st == task.statuses
           s == Head(task.statuses)
<1>1. /\ Kept /\ UNCHANGED <<signed, keyring, cache, torn>>
      /\ task # None /\ task.kind \in {"release", "catalog"} /\ task.releases = {}
  BY DEF Registry!StoreNextStatus, Registry!Free, Kept, Registry!hosted, RegistryInv, PublisherInv
<1>2. history \in Seq(Nat) /\ Len(history) \in Nat /\ cache \subseteq Releases
  BY DEF RegistryInv, HistoryInv
<1>3. Registry!VerifyIssued(s, keyring)
  <2>1. CASE task.kind = "release"
    BY <1>1, <2>1 DEF RegistryInv, TaskInv
  <2>2. CASE task.kind = "catalog"
    BY <1>1, <2>2 DEF RegistryInv, TaskInv, StatusesLeft
  <2> QED BY <1>1, <2>1, <2>2
<1>4. signed[s] \in Statements /\ signed[s].generation \in Nat /\ s \in Nat /\ signed[s].generation >= 1
  <2>1. signed[s] \in Statements /\ s \in Nat
    BY <1>1, <1>3, VerifiedKept DEF RegistryInv
  <2> QED BY <2>1 DEF Statements
<1>5. CASE ~ Registry!storeLifecycleLocked(s)
  <2>1. task' = None /\ history' = history
    BY <1>5 DEF Registry!StoreNextStatus
  <2> QED BY <1>1, <1>2, <2>1, HistoryKept DEF TaskInv, RegistryInv
<1>6. ASSUME Registry!storeLifecycleLocked(s)
      PROVE  /\ HistoryInv' /\ task' = (IF Len(st) = 1 THEN None ELSE [task EXCEPT !.statuses = Tail(@)])
             /\ \/ signed[s].generation <= Len(history) /\ history[signed[s].generation] = s /\ history' = history
                \/ signed[s].generation = Len(history) + 1 /\ history' = Append(history, s)
  <2>1. /\ Registry!WriteStatus(s) /\ task' = (IF Len(st) = 1 THEN None ELSE [task EXCEPT !.statuses = Tail(@)])
    BY <1>6 DEF Registry!StoreNextStatus
  <2>2. CASE signed[s].generation <= Len(history)
    <3>1. history' = history /\ history[signed[s].generation] = s
      BY <1>6, <2>1, <2>2 DEF Registry!WriteStatus, Registry!storeLifecycleLocked
    <3> QED BY <1>1, <1>2, <2>1, <2>2, <3>1, HistoryKept DEF RegistryInv
  <2>3. CASE ~(signed[s].generation <= Len(history))
    <3>1. /\ history' = Append(history, s) /\ Registry!Follows(s, IF history = <<>> THEN 0 ELSE Registry!Last(history))
          /\ signed[s].state = "active" => ~ Registry!Revoked(history, signed[s].rel.digest)
      BY <1>6, <2>1, <2>3 DEF Registry!WriteStatus, Registry!storeLifecycleLocked
    <3>2. HistoryInv' /\ signed[s].generation = Len(history) + 1
      BY <1>1, <1>3, <3>1, WrittenKeeps
    <3> QED BY <2>1, <3>1, <3>2
  <2> QED BY <2>2, <2>3
<1>7. ASSUME Registry!storeLifecycleLocked(s), task' # None PROVE TaskInv'
  <2>1. /\ Len(st) # 1 /\ task' = [task EXCEPT !.statuses = Tail(@)]
    BY <1>6, <1>7
  <2>2. task.kind = "catalog"
    <3>1. CASE task.kind = "release"
      <4>1. PICK one \in Nat : st = <<one>>
        BY <1>1, <3>1 DEF RegistryInv, TaskInv
      <4> QED BY <2>1, <4>1
    <3> QED BY <1>1, <3>1
  <2>3. ~ torn /\ StatusesLeft /\ ReleasesLeft
    BY <1>1, <2>2 DEF RegistryInv, TaskInv
  <2>4. st \in Seq(Nat) /\ st # <<>> /\ Len(st) \in Nat /\ Len(st) > 1 /\ s = st[1]
    <3>1. st \in Seq(Nat) /\ st # <<>>
      BY <2>3 DEF StatusesLeft
    <3>2. \A q \in Seq(Nat) : q # <<>> => Len(q) \in Nat /\ Len(q) # 0 /\ Head(q) = q[1]
      OBVIOUS
    <3>3. Len(st) \in Nat /\ Len(st) # 0 /\ s = st[1]
      BY <3>1, <3>2, Zenon
    <3>4. Len(st) > 1
      <4>1. Len(st) # 1
        BY <2>1, Zenon
      <4>2. \A l \in Nat : l # 0 /\ l # 1 => l > 1
        OBVIOUS
      <4> QED BY <3>3, <4>1, <4>2, Zenon
    <3> QED BY <3>1, <3>3, <3>4
  <2> PICK k : k = Len(st) - 1
    OBVIOUS
  <2>k. k \in Nat /\ k >= 1 /\ Len(st) = k + 1 /\ 1 \in 1 .. k /\ Len(st) - 1 = k
    BY <2>4
  <2>5. /\ task'.kind = "catalog" /\ task'.releases = {} /\ task'.statuses = Tail(st)
        /\ Tail(st) \in Seq(Nat) /\ Len(Tail(st)) = k /\ \A m \in 1 .. k : Tail(st)[m] = st[m + 1]
    BY <1>1, <2>1, <2>2, <2>4, <2>k
  <2> DEFINE n == Len(history)
             g == signed[s].generation
  <2>6. /\ \A m \in 1 .. Len(st) : Registry!VerifyIssued(st[m], keyring)
        /\ \A m \in 1 .. Len(st) : signed[st[m]].generation = g + m - 1
        /\ g <= n + 1
        /\ \A m \in 1 .. Len(st) : IF signed[st[m]].generation <= n THEN history[signed[st[m]].generation] = st[m] ELSE Extends(m)
    BY <2>3, <2>4, <2>k DEF StatusesLeft
  <2>7. \A m \in 1 .. k : m \in Nat /\ m >= 1 /\ m + 1 \in 1 .. Len(st) /\ m \in 1 .. Len(st) /\ m + 1 > 1 /\ m + 1 - 1 = m
    BY <2>k
  <2>8. \/ g <= n /\ history[g] = s /\ history' = history
        \/ g = n + 1 /\ history' = Append(history, s)
    BY <1>6, <1>7
  <2>9. /\ history' \in Seq(Nat) /\ Len(history') \in Nat /\ n <= Len(history') /\ g <= Len(history')
        /\ \A i \in 1 .. n : history'[i] = history[i]
        /\ history'[g] = s
        /\ Len(history') = n \/ (Len(history') = n + 1 /\ g = n + 1)
    <3>1. CASE g <= n /\ history[g] = s /\ history' = history
      BY <1>2, <3>1
    <3>2. CASE g = n + 1 /\ history' = Append(history, s)
      <4>1. /\ history' \in Seq(Nat) /\ Len(history') = n + 1
            /\ \A i \in 1 .. n : history'[i] = history[i]
            /\ history'[n + 1] = s
        BY <1>2, <1>4, <3>2, AppendExtends
      <4> HIDE DEF s, n, g
      <4>2. n \in Nat
        BY <1>2 DEF n
      <4> QED BY <3>2, <4>1, <4>2
    <3> QED BY <2>8, <3>1, <3>2
  <2>10. ASSUME NEW m \in 1 .. k, signed[st[m + 1]].generation > Len(history') PROVE Extends(m)'
    <3>1. Extends(m + 1) /\ signed[st[m + 1]].generation = g + m /\ m \in Nat
      <4>1. m \in Nat /\ m + 1 \in 1 .. Len(st)
        BY <2>7
      <4>2. signed[st[m + 1]].generation = g + m
        <5>1. signed[st[m + 1]].generation = g + (m + 1) - 1
          BY <2>6, <4>1
        <5> QED BY <1>4, <4>1, <5>1
      <4>3. ~(g + m <= n)
        BY <1>2, <1>4, <2>9, <2>10, <4>1, <4>2
      <4> QED BY <2>6, <4>1, <4>2, <4>3
    <3>2. st[m + 1] = task'.statuses[m]
      BY <2>5
    <3>3. Predecessor(m)' = st[m]
      <4>1. CASE m > 1
        <5>1. m - 1 \in 1 .. k /\ m - 1 + 1 = m
          BY <2>4, <2>k, <4>1
        <5> QED BY <2>5, <4>1, <5>1 DEF Predecessor
      <4>2. CASE m = 1
        <5>1. g = Len(history') /\ history' # <<>>
          BY <1>2, <1>4, <2>9, <2>10, <3>1, <4>2
        <5>2. Registry!Last(history') = s
          BY <2>9, <5>1 DEF Registry!Last
        <5> QED BY <2>4, <2>k, <4>2, <5>1, <5>2 DEF Predecessor
      <4> QED BY <3>1, <4>1, <4>2
    <3>4. Predecessor(m + 1) = st[m]
      BY <2>7 DEF Predecessor
    <3>5. Registry!Follows(st[m + 1], st[m])
      BY <3>1, <3>4 DEF Extends
    <3>6. \A d : Registry!RevokedBefore(history', Len(history') + 1, d) => Registry!Revoked(history, d) \/ Registry!RevokedBefore(st, m + 1, d)
      <4> SUFFICES ASSUME NEW d, NEW j \in 1 .. Len(history') + 1 - 1, signed[history'[j]].state = "revoked", signed[history'[j]].rel.digest = d
                   PROVE  Registry!Revoked(history, d) \/ Registry!RevokedBefore(st, m + 1, d)
        BY DEF Registry!RevokedBefore
      <4>1. CASE j \in 1 .. n
        <5>1. j \in 1 .. Len(history) + 1 - 1 /\ history'[j] = history[j]
          BY <1>2, <2>9, <4>1
        <5> QED BY <5>1 DEF Registry!Revoked, Registry!RevokedBefore
      <4>2. CASE j \notin 1 .. n
        <5>1. j = n + 1 /\ g = n + 1 /\ history'[j] = st[1]
          BY <1>2, <2>4, <2>k, <2>9, <4>2
        <5>2. 1 \in 1 .. m + 1 - 1
          BY <3>1
        <5> QED BY <5>1, <5>2 DEF Registry!RevokedBefore
      <4> QED BY <4>1, <4>2
    <3>7. \A d : Registry!RevokedBefore(Tail(st), m, d) => Registry!RevokedBefore(st, m + 1, d)
      <4> SUFFICES ASSUME NEW d, NEW j \in 1 .. m - 1, signed[Tail(st)[j]].state = "revoked", signed[Tail(st)[j]].rel.digest = d
                   PROVE  Registry!RevokedBefore(st, m + 1, d)
        BY DEF Registry!RevokedBefore
      <4>1. j + 1 \in 1 .. m + 1 - 1 /\ Tail(st)[j] = st[j + 1]
        BY <2>4, <2>k, <2>5, <3>1
      <4> QED BY <4>1 DEF Registry!RevokedBefore
    <3>8. signed[st[m + 1]].state = "active" =>
              /\ ~ Registry!RevokedBefore(history', Len(history') + 1, signed[st[m + 1]].rel.digest)
              /\ ~ Registry!RevokedBefore(Tail(st), m, signed[st[m + 1]].rel.digest)
      BY <3>1, <3>6, <3>7 DEF Extends
    <3>9. signed[st[m + 1]].rel \in cache /\ signed[st[m + 1]].rel.key \in keyring
      BY <1>1, <3>1 DEF Extends, Registry!ReadRelease, Registry!VerifyRelease
    <3> QED BY <1>1, <2>5, <3>2, <3>3, <3>5, <3>8, <3>9 DEF Extends, Registry!Follows, Registry!Revoked, Registry!RevokedBefore,
                                                            Registry!ReadRelease, Registry!VerifyRelease
  <2>11. StatusesLeft'
    <3>1. \A m \in 1 .. k : Registry!VerifyIssued(task.statuses[m], keyring)'
      BY <1>1, <2>5, <2>6, <2>7 DEF Registry!VerifyIssued, Registry!VerifyStatus
    <3>2. task'.statuses # <<>> /\ Len(task'.statuses) = k /\ 1 \in 1 .. k
      <4>1. Len(task'.statuses) = k /\ task'.statuses \in Seq(Nat)
        BY <2>5
      <4> QED BY <2>k, <4>1
    <3>3. ASSUME NEW m \in 1 .. k PROVE signed'[task'.statuses[m]].generation = g + m
      <4>1. m \in Nat /\ m + 1 \in 1 .. Len(st) /\ task'.statuses[m] = st[m + 1]
        BY <2>5, <2>7
      <4>2. signed[st[m + 1]].generation = g + (m + 1) - 1
        BY <2>6, <4>1
      <4> QED BY <1>1, <1>4, <4>1, <4>2
    <3>4. \A m \in 1 .. k : signed'[task'.statuses[m]].generation = signed'[task'.statuses[1]].generation + m - 1
      <4> SUFFICES ASSUME NEW m \in 1 .. k PROVE g + m = g + 1 + m - 1
        BY <3>2, <3>3
      <4> QED BY <1>4, <2>7
    <3>5. signed'[task'.statuses[1]].generation <= Len(history') + 1
      <4>1. signed'[task'.statuses[1]].generation = g + 1
        BY <3>2, <3>3
      <4> QED BY <1>4, <2>9, <4>1
    <3>6. ASSUME NEW m \in 1 .. k
          PROVE  IF signed'[task'.statuses[m]].generation <= Len(history') THEN history'[signed'[task'.statuses[m]].generation] = task'.statuses[m]
                 ELSE Extends(m)'
      <4>1. task'.statuses[m] = st[m + 1] /\ signed'[st[m + 1]].generation = g + m /\ signed[st[m + 1]].generation = g + m /\ m \in Nat
        BY <1>1, <2>4, <2>k, <2>5, <3>3
      <4>2. CASE g + m <= Len(history')
        <5>1. g + m <= n /\ g + m \in 1 .. n
          <6>1. m >= 1 /\ g \in Nat /\ n \in Nat
            BY <1>2, <1>4, <2>7
          <6>2. CASE Len(history') = n + 1 /\ g = n + 1
            BY <4>1, <4>2, <6>1, <6>2
          <6>3. CASE Len(history') = n
            BY <1>4, <4>1, <4>2, <6>1, <6>3
          <6> QED BY <2>9, <6>2, <6>3
        <5>2. history[g + m] = st[m + 1]
          BY <2>6, <2>7, <4>1, <5>1
        <5> QED BY <2>9, <4>1, <4>2, <5>1, <5>2
      <4>3. CASE ~(g + m <= Len(history'))
        <5>1. signed[st[m + 1]].generation > Len(history')
          BY <1>4, <2>9, <4>1, <4>3
        <5> QED BY <2>10, <4>1, <4>3, <5>1
      <4> QED BY <4>2, <4>3
    <3> QED BY <2>5, <3>1, <3>2, <3>4, <3>5, <3>6 DEF StatusesLeft, Registry!VerifyIssued, Registry!VerifyStatus
  <2>12. ReleasesLeft'
    BY <2>5 DEF ReleasesLeft
  <2> QED BY <1>1, <2>3, <2>5, <2>11, <2>12 DEF TaskInv
<1>8. task' = None => TaskInv'
  BY DEF TaskInv
<1> QED BY <1>5, <1>6, <1>7, <1>8

\* The local registry, step by step.
LEMMA LocalStep ==
    ASSUME RegistryInv, Registry!Bounds, [Registry!Next]_(Registry!vars)
    PROVE  HistoryInv' /\ TaskInv'
<1>1. Kept /\ PublisherInv /\ HistoryInv /\ TaskInv /\ cache \subseteq Releases
  BY StepKept DEF RegistryInv, HistoryInv
<1>2. ASSUME UNCHANGED <<cache, history, torn, task>> PROVE HistoryInv' /\ TaskInv'
  BY <1>1, <1>2, HistoryKept, TaskKept
<1>3. ASSUME UNCHANGED <<cache, history>>, task' = None \/ task'.kind = "select" PROVE HistoryInv' /\ TaskInv'
  <2>1. HistoryInv'
    BY <1>1, <1>3, HistoryKept
  <2> QED BY <1>3, <2>1 DEF TaskInv
<1>4. CASE Registry!HostedNext
  <2>1. CASE Registry!Manage
    BY <1>2, <2>1 DEF Registry!Manage, Registry!catalogs, Registry!publisher, Registry!catalogReleases, Registry!lifecycleOf,
                      Registry!CreateRoleCatalog, Registry!EnrollRolePublisher, Registry!ImportRoleRelease,
                      Registry!AppendRoleLifecycle, Registry!locals
  <2>2. CASE Registry!Export
    BY <1>2, <2>2 DEF Registry!Export, Registry!release, Registry!ExportRole, Registry!locals
  <2>3. CASE Registry!Pin
    BY <1>2, <2>3 DEF Registry!Pin, Registry!pin, Registry!SetRolePin, Registry!locals
  <2>4. CASE Registry!Reread
    BY <1>2, <2>4 DEF Registry!Reread, Registry!locals
  <2> QED BY <1>4, <2>1, <2>2, <2>3, <2>4 DEF Registry!HostedNext, Registry!handle
<1>5. CASE Registry!MemberNext
  BY <1>2, <1>5 DEF Registry!MemberNext, Registry!UpdateMembership, Registry!Suspend, Registry!Reverify, Registry!locals
<1>6. CASE Registry!PublisherNext
  BY <1>2, <1>6 DEF Registry!PublisherNext, Registry!SignStatus, Registry!locals
<1>7. CASE Registry!LocalNext
  <2>1. ASSUME NEW k \in Trusted, Registry!EnrollLocal(k) PROVE HistoryInv' /\ TaskInv'
    BY <1>2, <2>1 DEF Registry!EnrollLocal
  <2>2. ASSUME NEW r \in Releases, NEW s \in 1 .. Len(signed), Registry!ImportRelease(r, s) PROVE HistoryInv' /\ TaskInv'
    <3>1. /\ cache' = cache \cup {r} /\ history' = history /\ keyring' = keyring /\ signed' = signed
          /\ task' = [kind |-> "release", releases |-> {}, statuses |-> <<s>>] /\ Registry!VerifyStatus(s, keyring, day)
      BY <2>2 DEF Registry!ImportRelease
    <3>2. HistoryInv'
      BY <1>1, <3>1, HistoryKept
    <3>3. Registry!VerifyIssued(s, keyring) /\ s \in Nat
      BY <1>1, <3>1, VerifiedIs
    <3>4. Registry!VerifyIssued(s, keyring)'
      BY <3>1, <3>3 DEF Registry!VerifyIssued, Registry!VerifyStatus
    <3>5. task'.kind = "release" /\ task'.statuses = <<s>>
      BY <3>1
    <3>6. TaskInv'
      BY <3>3, <3>4, <3>5 DEF TaskInv
    <3> QED BY <3>2, <3>6
  <2>3. CASE Registry!ImportCatalog
    BY <2>3, CatalogKeeps
  <2>4. CASE Registry!StoreNextStatus
    BY <2>4, StoreStatusKeeps
  <2>5. CASE Registry!Die
    BY <1>3, <2>5 DEF Registry!Die
  <2>6. ASSUME NEW r \in Releases, Registry!StoreNextRelease(r) PROVE HistoryInv' /\ TaskInv'
    BY <2>6, StoreReleaseKeeps
  <2> QED BY <1>7, <2>1, <2>2, <2>3, <2>4, <2>5, <2>6 DEF Registry!LocalNext
<1>8. CASE Registry!SelectNext
  <2>1. ASSUME NEW r \in Releases, NEW a \in {"pin", "upgrade", "rollback"}, Registry!CompareAndSelect(r, a) PROVE HistoryInv' /\ TaskInv'
    BY <1>3, <2>1 DEF Registry!CompareAndSelect
  <2>2. CASE Registry!ReadDocument
    BY <1>3, <2>2 DEF Registry!ReadDocument
  <2>3. CASE Registry!WriteDocument
    BY <1>3, <2>3 DEF Registry!WriteDocument
  <2>4. ASSUME (\E d \in Contents : Registry!EditRole(d)) \/ Registry!LoadProject \/ Registry!SaveProject PROVE HistoryInv' /\ TaskInv'
    BY <1>2, <2>4 DEF Registry!EditRole, Registry!LoadProject, Registry!SaveProject
  <2> QED BY <1>8, <2>1, <2>2, <2>3, <2>4 DEF Registry!SelectNext
<1>9. CASE Registry!Tick
  BY <1>2, <1>9 DEF Registry!Tick, Registry!locals
<1>10. CASE UNCHANGED Registry!vars
  BY <1>2, <1>10 DEF Registry!vars, Registry!locals
<1> QED BY <1>4, <1>5, <1>6, <1>7, <1>8, <1>9, <1>10 DEF Registry!Next

\* Nothing is signed, stored or imported at first.
LEMMA RegistryStarts ==
    ASSUME Registry!Init
    PROVE  RegistryInv
<1>1. PublisherInv /\ HistoryInv /\ TaskInv
  BY DEF Registry!Init, PublisherInv, HistoryInv, TaskInv
<1>2. HostedInv
  BY DEF Registry!Init, HostedInv, StoredHasEntry, RevokedIsLast, Registry!HistoryIsExportable,
         Registry!validateExportLifecycleHistory
<1> QED BY <1>1, <1>2 DEF RegistryInv

\* What the catalog resolves, or the checkout accepts, was never revoked.
LEMMA TerminalIs ==
    ASSUME RegistryInv, Registry!Bounds
    PROVE  Registry!RevokedIsTerminal
<1>1. ASSUME Registry!ResolveRole # None, NEW i \in 1 .. Len(lifecycle), Registry!Exact(lifecycle[i].rel, Registry!ResolveRole)
      PROVE  lifecycle[i].state # "revoked"
  <2>1. PICK r : r = Registry!ResolveRole /\ Registry!Usable(r)
    BY <1>1 DEF Registry!ResolveRole
  <2> DEFINE p == Registry!LastEntryBefore(lifecycle, Len(lifecycle) + 1, r)
  <2>2. lifecycle \in Seq(Entries) /\ Len(lifecycle) \in Nat
    BY DEF RegistryInv, HostedInv
  <2>3. p # 0 /\ lifecycle[p].state # "revoked"
    BY <2>1 DEF Registry!Usable, Registry!latestLifecycleForRelease
  <2>4. p \in 1 .. Len(lifecycle) /\ Registry!Exact(lifecycle[p].rel, r) /\ \A j \in 1 .. Len(lifecycle) : Registry!Exact(lifecycle[j].rel, r) => j <= p
    <3>1. PICK k \in 1 .. Len(lifecycle) + 1 : k = Len(lifecycle) + 1 /\ k - 1 = Len(lifecycle)
      BY <2>2
    <3>2. Registry!LastEntryBefore(lifecycle, k, r) = p
      BY <3>1
    <3>3. Registry!LastEntryBefore(lifecycle, k, r) # 0 =>
              /\ Registry!LastEntryBefore(lifecycle, k, r) \in 1 .. k - 1 /\ Registry!Exact(lifecycle[Registry!LastEntryBefore(lifecycle, k, r)].rel, r)
              /\ \A j \in 1 .. k - 1 : Registry!Exact(lifecycle[j].rel, r) => j <= Registry!LastEntryBefore(lifecycle, k, r)
      BY <2>2, LastEntryIs
    <3> HIDE DEF p
    <3> QED BY <2>3, <3>1, <3>2, <3>3
  <2>5. i <= p /\ Registry!Exact(lifecycle[i].rel, lifecycle[p].rel)
    BY <1>1, <2>1, <2>4 DEF Registry!Exact
  <2>6. i < p \/ i = p
    BY <2>4, <2>5
  <2> QED BY <2>3, <2>4, <2>5, <2>6 DEF RegistryInv, HostedInv, RevokedIsLast
<1>2. ASSUME NEW r \in cache, Registry!LifecycleForRelease(r) PROVE ~ Registry!Revoked(history, r.digest)
  <2> DEFINE J == {j \in 1 .. Len(history) : Registry!Exact(signed[history[j]].rel, r)}
             i == Registry!LastOf(J)
  <2>1. Len(history) \in Nat /\ J \in SUBSET (1 .. Len(history)) /\ r \in Releases
    BY DEF RegistryInv, HistoryInv
  <2>2. i # 0 /\ signed[history[i]].state = "active"
    BY <1>2 DEF Registry!LifecycleForRelease
  <2>3. i \in J /\ \A j \in J : j <= i
    <3> HIDE DEF J
    <3> QED BY <2>1, <2>2, LastIs
  <2>4. ASSUME NEW j \in 1 .. Len(history) + 1 - 1, signed[history[j]].state = "revoked", signed[history[j]].rel.digest = r.digest
        PROVE  FALSE
    <3>1. j \in 1 .. Len(history)
      BY <2>1
    <3>2. Registry!VerifyIssued(history[j], keyring)
      BY <3>1 DEF RegistryInv, HistoryInv
    <3>3. history[j] \in 1 .. Len(signed)
      BY <3>2 DEF Registry!VerifyIssued, Registry!VerifyStatus
    <3>4. signed[history[j]].rel \in Releases
      <4>1. signed[history[j]] \in Statements
        BY <3>3 DEF RegistryInv, PublisherInv
      <4> QED BY <4>1 DEF Statements
    <3>5. Registry!Exact(signed[history[j]].rel, r)
      BY <2>1, <2>4, <3>4 DEF Registry!Bounds, Registry!Exact
    <3>6. j <= i /\ i \in 1 .. Len(history) /\ signed[history[i]].rel.digest = r.digest
      BY <2>3, <3>1, <3>5 DEF Registry!Exact
    <3>7. j # i /\ j < i
      <4>1. j # i
        BY <2>2, <2>4
      <4> HIDE DEF i
      <4> QED BY <3>1, <3>6, <4>1
    <3> HIDE DEF i
    <3> QED BY <2>2, <2>4, <3>1, <3>6, <3>7 DEF RegistryInv, HistoryInv
  <2> QED BY <2>4 DEF Registry!Revoked, Registry!RevokedBefore
<1>3. \A r \in cache : Registry!validateRoleRegistry(r) => Registry!LifecycleForRelease(r)
  BY DEF Registry!validateRoleRegistry, Registry!Resolve
<1> QED BY <1>1, <1>2, <1>3 DEF Registry!RevokedIsTerminal

\* An import that passed its preflight goes through.
LEMMA RunsThrough ==
    ASSUME RegistryInv
    PROVE  Registry!ImportsRunThrough
<1> SUFFICES ASSUME task # None, task.kind = "catalog"
             PROVE  /\ \A r \in task.releases : Registry!storeReleaseLocked(r)
                    /\ task.releases = {} => Registry!storeLifecycleLocked(Head(task.statuses))
  BY DEF Registry!ImportsRunThrough
<1>1. ~ torn /\ StatusesLeft /\ ReleasesLeft
  BY DEF RegistryInv, TaskInv
<1>2. \A r \in task.releases : Registry!storeReleaseLocked(r)
  BY <1>1 DEF ReleasesLeft, Registry!storeReleaseLocked
<1>3. ASSUME task.releases = {} PROVE Registry!storeLifecycleLocked(Head(task.statuses))
  <2>1. Head(task.statuses) = task.statuses[1] /\ 1 \in 1 .. Len(task.statuses)
    BY <1>1 DEF StatusesLeft
  <2>2. IF signed[task.statuses[1]].generation <= Len(history) THEN history[signed[task.statuses[1]].generation] = task.statuses[1]
        ELSE Extends(1)
    BY <1>1, <2>1 DEF StatusesLeft
  <2>3. Registry!readLifecycleHistory
    BY <1>1 DEF Registry!readLifecycleHistory, RegistryInv, HistoryInv
  <2>4. Predecessor(1) = IF history = <<>> THEN 0 ELSE Registry!Last(history)
    BY DEF Predecessor
  <2> QED BY <1>3, <2>1, <2>2, <2>3, <2>4 DEF Registry!storeLifecycleLocked, Extends
<1> QED BY <1>2, <1>3

\* The catalog's history always passes the check of an export and of a pin,
\* nothing revoked comes back, and an import that passed its preflight is never
\* refused halfway.
THEOREM RevocationIsFinal == Registry!Spec => []RegistryHolds
<1>1. Registry!Init => RegistryInv
  BY RegistryStarts
<1>2. RegistryInv /\ [Registry!Next]_(Registry!vars) => RegistryInv'
  <2> SUFFICES ASSUME RegistryInv, [Registry!Next]_(Registry!vars) PROVE RegistryInv'
    OBVIOUS
  <2>1. PublisherInv'
    BY StepKept DEF RegistryInv
  <2>2. HostedInv'
    BY HostedStep, RegistryBounds DEF RegistryInv
  <2>3. HistoryInv' /\ TaskInv'
    BY LocalStep, RegistryBounds
  <2> QED BY <2>1, <2>2, <2>3 DEF RegistryInv
<1>3. RegistryInv => RegistryHolds
  BY TerminalIs, RunsThrough, RegistryBounds DEF RegistryInv, HostedInv, RegistryHolds
<1> QED BY <1>1, <1>2, <1>3, PTL DEF Registry!Spec

=============================================================================
