---------------------------- MODULE Publication ----------------------------
(***************************************************************************)
(* What may be published about a task (publication.go of the sessions and  *)
(* of the policy package, publication/policy.go): the owner sets a         *)
(* disclosure policy, a worker asks for a decision on an exact action, and *)
(* the owner consumes an allowing decision once.  Between the decision and *)
(* its consumption the policy, the revision, the lease and the checkout    *)
(* may all change, and every request may be sent again.                    *)
(***************************************************************************)
EXTENDS Naturals, Sequences, FiniteSetTheorems, WellFoundedInduction, TLAPS

CONSTANTS
    Keys,                   \* operation keys, of decisions and consumptions alike
    Readers,                \* owner processes, each with its own view of the generation
    Offered, Asked,         \* the policies owners choose from, the actions workers ask for
    None,
    MaxGeneration, MaxRevision

VARIABLES
    history,    \* PublicationPolicies of the task
    seen,       \* of each owner process: the generation it last read
    rev, lease, clean, admitted,
    decisions,  \* PublicationDecisions, by the key that made them
    consumed,   \* PublicationConsumed: of each decision, the key that consumed it
    ops,        \* Operations: what each key was used for
    expired     \* decisions past their ExpiresAt

\* The mirror on GitHub, where what is published goes.
CONSTANTS Numbers, DecisionFiles, FindingFiles, Repositories, Commands, PushModes, FiledTitles, MaxIssues, MaxChanges, MaxStops

VARIABLES link, visible, tasks, notes, issues, lock, mirrors, wrote, changes, stops

M == INSTANCE GithubMirror WITH
    proc <- mirrors, Tasks <- Numbers, Decisions <- DecisionFiles, Findings <- FindingFiles, Repos <- Repositories,
    Procs <- Commands, Modes <- PushModes, Titles <- FiledTitles

ASSUME MirrorBounds == M!Bounds

vars  == <<history, seen, rev, lease, clean, admitted, decisions, consumed, ops, expired>>
world == <<seen, rev, lease, clean, admitted>>

-----------------------------------------------------------------------------
(* The disclosure policy.  Fields stand for their class.                   *)

Visibilities == {"private", "public", "unknown"}
Fields       == {"title", "findings", "verdicts", "issue_closure"}
Internal     == {"findings", "verdicts"}
Disclosures  == [visibility : Visibilities, include : BOOLEAN, recorded : BOOLEAN]
Actions      == [action : {"issue-create", "issue-update"}, fields : (SUBSET Fields) \ {{}}]

\* New, without terminal authority: verdicts always need the request, on a
\* public repository every internal field needs request and record.
Allowed(p) ==
    {"title"} \cup
    CASE p.visibility = "private"                               -> {f \in Internal : f = "verdicts" => p.include}
      [] p.visibility = "public" /\ p.include /\ p.recorded     -> Internal
      [] OTHER                                                  -> {}

\* EvaluatePublication: a refusal of one field outweighs the approval another
\* one lacks; closing an issue is always refused.
Approvable(p, f) == p.visibility = "public" /\ p.include /\ ~ p.recorded /\ f \in Allowed([p EXCEPT !.recorded = TRUE])
Denied(p, f)     == f = "issue_closure" \/ (f \notin Allowed(p) /\ ~ Approvable(p, f))

EvaluatePublicationPolicy(p, a) ==
    CASE a.action # "issue-update" \/ \E f \in a.fields : Denied(p, f) -> "deny"
      [] \E f \in a.fields \ Allowed(p) : Approvable(p, f)             -> "needs-approval"
      [] OTHER                                                         -> "allow"

\* A decision, and what a key was used for.
Verdicts  == {"allow", "deny", "needs-approval"}
Decisions == [action : Asked, generation : 1 .. MaxGeneration, rev : 1 .. MaxRevision, verdict : Verdicts]
Uses      == [op : {"evaluate", "consume"}, decision : Keys]

\* What instances have to provide.
Bounds == /\ MaxGeneration \in Nat \ {0} /\ MaxRevision \in Nat \ {0}
          /\ Offered # {} /\ Offered \subseteq Disclosures /\ Asked # {} /\ Asked \subseteq Actions
          /\ None \notin Keys \cup Uses \cup Decisions

-----------------------------------------------------------------------------
(* The surroundings of a decision.                                         *)

Latest == history[Len(history)]

ReadPolicy(o) == /\ seen[o] # Len(history) /\ seen' = [seen EXCEPT ![o] = Len(history)]
                 /\ UNCHANGED <<history, rev, lease, clean, admitted, decisions, consumed, ops, expired>>

\* Mutants: an owner with an old view replaces what it has not seen, or the
\* last generation has a successor.
ExpectedAny(o)     == Len(history) < MaxGeneration

Expected(o) == seen[o] = Len(history) /\ Len(history) < MaxGeneration

SetPublicationPolicy(o, p) ==
    /\ Expected(o) /\ history' = Append(history, [disclosure |-> p, after |-> seen[o]])
    /\ UNCHANGED <<world, decisions, consumed, ops, expired>>

PublishRevision == /\ lease /\ rev < MaxRevision /\ rev' = rev + 1 /\ clean' = TRUE
                   /\ UNCHANGED <<history, seen, lease, admitted, decisions, consumed, ops, expired>>
LoseLease == /\ lease /\ lease' = FALSE
             /\ UNCHANGED <<history, seen, rev, clean, admitted, decisions, consumed, ops, expired>>
Edit      == /\ clean' = ~ clean
             /\ UNCHANGED <<history, seen, rev, lease, admitted, decisions, consumed, ops, expired>>
Admit     == /\ admitted' = ~ admitted
             /\ UNCHANGED <<history, seen, rev, lease, clean, decisions, consumed, ops, expired>>
Expire(k) == /\ decisions[k] # None /\ k \notin expired /\ expired' = expired \cup {k}
             /\ UNCHANGED <<history, world, decisions, consumed, ops>>

\* publicationCurrent, and the observations made under the same lock.
Current == history # <<>> /\ lease /\ admitted /\ clean

EvaluatePublication(k, a) ==
    /\ ops[k] = None /\ Current
    /\ decisions' = [decisions EXCEPT ![k] =
           [action |-> a, generation |-> Len(history), rev |-> rev,
            verdict |-> EvaluatePublicationPolicy(Latest.disclosure, a)]]
    /\ ops' = [ops EXCEPT ![k] = [op |-> "evaluate", decision |-> k]]
    /\ UNCHANGED <<history, world, consumed, expired>>

ConsumableAgain(d) ==
    /\ decisions[d] # None /\ decisions[d].verdict = "allow"
    /\ Current /\ d \notin expired /\ rev = decisions[d].rev /\ decisions[d].generation = Len(history)

Consumable(d) ==
    /\ decisions[d] # None /\ decisions[d].verdict = "allow" /\ consumed[d] = None
    /\ Current /\ d \notin expired
    /\ rev = decisions[d].rev /\ decisions[d].generation = Len(history)

\* A repeated request finds its own record under its key and changes nothing.
ConsumePublication(k, d) ==
    /\ ops[k] = None /\ Consumable(d)
    /\ consumed' = [consumed EXCEPT ![d] = k] /\ ops' = [ops EXCEPT ![k] = [op |-> "consume", decision |-> d]]
    /\ UNCHANGED <<history, world, decisions, expired>>

Init == /\ history = <<>> /\ seen = [o \in Readers |-> 0] /\ rev = 1 /\ lease = TRUE /\ clean = TRUE /\ admitted = TRUE
        /\ decisions = [k \in Keys |-> None] /\ consumed = [k \in Keys |-> None] /\ ops = [k \in Keys |-> None]
        /\ expired = {}

Next == \/ \E o \in Readers : ReadPolicy(o) \/ \E p \in Offered : SetPublicationPolicy(o, p)
        \/ PublishRevision \/ LoseLease \/ Edit \/ Admit
        \/ \E k \in Keys : \/ Expire(k) \/ \E a \in Asked : EvaluatePublication(k, a)
                           \/ \E d \in Keys : ConsumePublication(k, d)

Spec == Init /\ [][Next]_vars

-----------------------------------------------------------------------------
(* Properties.                                                             *)

TypeOK ==
    /\ history \in Seq([disclosure : Offered, after : 0 .. MaxGeneration]) /\ Len(history) <= MaxGeneration
    /\ seen \in [Readers -> 0 .. MaxGeneration] /\ rev \in 1 .. MaxRevision
    /\ lease \in BOOLEAN /\ clean \in BOOLEAN /\ admitted \in BOOLEAN /\ expired \subseteq Keys
    /\ decisions \in [Keys -> Decisions \cup {None}] /\ consumed \in [Keys -> Keys \cup {None}]
    /\ ops \in [Keys -> Uses \cup {None}]

\* What is consumed may be disclosed by the policy the owner chose last, not
\* by an older one: an internal field leaves only for a private repository,
\* or for one known to be public whose disclosure was requested and recorded;
\* an issue is never closed by it.
Disclosable(a, p) ==
    /\ a.action = "issue-update" /\ "issue_closure" \notin a.fields
    /\ a.fields \cap Internal # {} => p.visibility = "private" \/ (p.visibility = "public" /\ p.include /\ p.recorded)
DisclosesAsChosen == \A d \in Keys : (consumed[d] = None /\ consumed'[d] # None) =>
    Disclosable(decisions[d].action, Latest.disclosure) /\ decisions[d].rev = rev /\ lease /\ clean
DisclosedAsChosen == [][DisclosesAsChosen]_vars

\* A decision is used up by one operation, whose record stays what a repeated
\* request is answered with.
ConsumedOnce ==
    /\ \A d \in Keys : consumed[d] # None => ops[consumed[d]] = [op |-> "consume", decision |-> d]
    /\ \A k \in Keys : ops[k] # None /\ ops[k].op = "consume" => consumed[ops[k].decision] = k

\* Nobody replaces a policy it has not read: every generation was set by an
\* owner that knew the one before it.
NoLostPolicy == \A i \in DOMAIN history : history[i].after = i - 1

\* A task, a decision and a finding has one issue in a repository, and a
\* finding one comment, whatever fails, is repeated or races; and decisions and
\* findings go only where the authority recorded for exactly that repository,
\* or its privacy, allowed it when the push was checked.
PublishedOnce == M!PublishedOnce /\ M!NothingUndisclosed

-----------------------------------------------------------------------------
(* Proofs: for any number of keys, owners, generations and revisions.      *)

\* A decision says what the policy of its generation makes of its action.
DecidedByPolicy == \A d \in Keys : decisions[d] # None =>
    LET n == decisions[d].generation
    IN  n <= Len(history) /\ decisions[d].verdict = EvaluatePublicationPolicy(history[n].disclosure, decisions[d].action)

Inv == TypeOK /\ DecidedByPolicy /\ ConsumedOnce

\* What a policy allows may be disclosed under it.
LEMMA AllowedIsDisclosable ==
  ASSUME NEW p \in Disclosures, NEW a \in Actions, EvaluatePublicationPolicy(p, a) = "allow"
  PROVE  Disclosable(a, p)
<1>1. a.action = "issue-update" /\ \A f \in a.fields : ~Denied(p, f) /\ (f \in Allowed(p) \/ ~Approvable(p, f))
  BY DEF EvaluatePublicationPolicy
<1>2. \A f \in a.fields : f # "issue_closure" /\ f \in Allowed(p)
  BY <1>1 DEF Denied
<1>3. \A f \in Internal : f \in Allowed(p) => p.visibility = "private" \/ (p.visibility = "public" /\ p.include /\ p.recorded)
  BY DEF Allowed, Internal
<1> QED  BY <1>1, <1>2, <1>3 DEF Disclosable

LEMMA EvaluationTyped ==
  ASSUME NEW p, NEW a PROVE EvaluatePublicationPolicy(p, a) \in Verdicts
  BY DEF EvaluatePublicationPolicy, Verdicts

LEMMA LastInSeq == ASSUME NEW S, NEW s \in Seq(S), s # <<>> PROVE s[Len(s)] \in S
  OBVIOUS

LEMMA InitInv == ASSUME Bounds PROVE Init => Inv
  BY DEF Bounds, Init, Inv, TypeOK, DecidedByPolicy, ConsumedOnce

\* The owner's new policy leaves the decisions under older ones as they were.
LEMMA PolicyStep ==
  ASSUME Bounds, Inv, NEW o \in Readers, NEW p \in Offered, SetPublicationPolicy(o, p)
  PROVE  Inv'
<1>1. [disclosure |-> p, after |-> seen[o]] \in [disclosure : Offered, after : 0 .. MaxGeneration]
  BY DEF Inv, TypeOK
<1>2. TypeOK'
  BY <1>1 DEF Bounds, SetPublicationPolicy, Expected, Inv, TypeOK, world
<1>3. \A n \in 1 .. Len(history) : history'[n] = history[n] /\ Len(history') >= Len(history)
  BY <1>1 DEF SetPublicationPolicy, Inv, TypeOK
<1>4. DecidedByPolicy'
  BY <1>3 DEF Bounds, SetPublicationPolicy, Inv, TypeOK, DecidedByPolicy, Decisions
<1> QED  BY <1>2, <1>4 DEF SetPublicationPolicy, Inv, ConsumedOnce

LEMMA EvaluateStep ==
  ASSUME Bounds, Inv, NEW k \in Keys, NEW a \in Asked, EvaluatePublication(k, a)
  PROVE  Inv'
<1> DEFINE d == [action |-> a, generation |-> Len(history), rev |-> rev,
                 verdict |-> EvaluatePublicationPolicy(Latest.disclosure, a)]
<1>1. Len(history) \in 1 .. MaxGeneration
  BY DEF Bounds, EvaluatePublication, Current, Inv, TypeOK
<1>2. d \in Decisions
  BY <1>1, EvaluationTyped DEF Inv, TypeOK, Decisions
<1>3. [op |-> "evaluate", decision |-> k] \in Uses
  BY DEF Uses
<1>4. /\ decisions' = [decisions EXCEPT ![k] = d] /\ ops' = [ops EXCEPT ![k] = [op |-> "evaluate", decision |-> k]]
      /\ ops[k] = None /\ UNCHANGED <<history, world, consumed, expired>>
  BY DEF EvaluatePublication
<1>5. d.generation = Len(history) /\ d.verdict = EvaluatePublicationPolicy(history[d.generation].disclosure, d.action)
  BY DEF Latest
<1> HIDE DEF d
<1>6. TypeOK'
  BY <1>2, <1>3, <1>4 DEF Inv, TypeOK, world
<1>7. DecidedByPolicy'
  BY <1>1, <1>4, <1>5 DEF Inv, TypeOK, DecidedByPolicy
<1>8. ConsumedOnce'
  <2>1. ASSUME NEW e \in Keys, consumed[e] # None PROVE consumed[e] # k
    <3>1. [op |-> "consume", decision |-> e] # None
      BY DEF Bounds, Uses
    <3> QED  BY <2>1, <3>1, <1>4 DEF Inv, ConsumedOnce
  <2> QED  BY <2>1, <1>4 DEF Inv, TypeOK, ConsumedOnce
<1> QED  BY <1>6, <1>7, <1>8 DEF Inv

LEMMA ConsumeStep ==
  ASSUME Bounds, Inv, NEW k \in Keys, NEW d \in Keys, ConsumePublication(k, d)
  PROVE  Inv'
<1>1. [op |-> "consume", decision |-> d] \in Uses
  BY DEF Uses
<1>2. /\ consumed' = [consumed EXCEPT ![d] = k] /\ ops' = [ops EXCEPT ![k] = [op |-> "consume", decision |-> d]]
      /\ ops[k] = None /\ consumed[d] = None /\ UNCHANGED <<history, world, decisions, expired>>
  BY DEF ConsumePublication, Consumable
<1>3. TypeOK' /\ DecidedByPolicy'
  BY <1>1, <1>2 DEF Inv, TypeOK, DecidedByPolicy, world
<1>4. ConsumedOnce'
  BY <1>1, <1>2 DEF Bounds, Inv, TypeOK, ConsumedOnce, Uses
<1> QED  BY <1>3, <1>4 DEF Inv

LEMMA InvStep == ASSUME Bounds PROVE Inv /\ [Next]_vars => Inv'
<1> SUFFICES ASSUME Inv, [Next]_vars PROVE Inv'
  OBVIOUS
<1>1. ASSUME TypeOK', UNCHANGED <<history, decisions, consumed, ops>> PROVE Inv'
  BY <1>1 DEF Inv, DecidedByPolicy, ConsumedOnce
<1>2. CASE UNCHANGED vars
  BY <1>1, <1>2 DEF vars, Inv, TypeOK
<1>3. ASSUME NEW o \in Readers, ReadPolicy(o) PROVE Inv'
  BY <1>1, <1>3 DEF ReadPolicy, Inv, TypeOK
<1>4. CASE PublishRevision \/ LoseLease \/ Edit \/ Admit
  <2>1. rev' \in 1 .. MaxRevision
    BY <1>4 DEF Bounds, PublishRevision, LoseLease, Edit, Admit, Inv, TypeOK
  <2>2. lease' \in BOOLEAN /\ clean' \in BOOLEAN /\ admitted' \in BOOLEAN
    BY <1>4 DEF PublishRevision, LoseLease, Edit, Admit, Inv, TypeOK
  <2>3. UNCHANGED <<history, seen, expired, decisions, consumed, ops>>
    BY <1>4 DEF PublishRevision, LoseLease, Edit, Admit
  <2> QED  BY <1>1, <2>1, <2>2, <2>3 DEF Inv, TypeOK
<1>5. ASSUME NEW k \in Keys, Expire(k) PROVE Inv'
  BY <1>1, <1>5 DEF Expire, world, Inv, TypeOK
<1> QED  BY <1>2, <1>3, <1>4, <1>5, PolicyStep, EvaluateStep, ConsumeStep DEF Next

\* A publication decision is consumed by one operation at most, and that
\* operation's record is what ConsumePublication answers a repeated request with.
THEOREM DecisionsAreUsedOnce == ASSUME Bounds PROVE Spec => []ConsumedOnce
<1>1. Inv => ConsumedOnce
  BY DEF Inv
<1> QED  BY <1>1, InitInv, InvStep, PTL DEF Spec

\* What ConsumePublication lets out is disclosable under the policy that is the
\* owner's latest at that moment, whatever policies and revisions came between.
THEOREM DisclosuresAreChosen == ASSUME Bounds PROVE Spec => DisclosedAsChosen
<1>1. ASSUME Inv, NEW k \in Keys, NEW d \in Keys, ConsumePublication(k, d) PROVE DisclosesAsChosen
  <2>1. \A e \in Keys : consumed[e] = None /\ consumed'[e] # None => e = d
    BY <1>1 DEF ConsumePublication, Inv, TypeOK
  <2>2. /\ decisions[d] # None /\ decisions[d].verdict = "allow" /\ decisions[d].generation = Len(history)
        /\ decisions[d].rev = rev /\ lease /\ clean /\ history # <<>>
    BY <1>1 DEF ConsumePublication, Consumable, Current
  <2>3. decisions[d].action \in Actions
    <3>1. decisions[d] \in Decisions
      BY <1>1, <2>2 DEF Inv, TypeOK
    <3> QED  BY <3>1 DEF Bounds, Decisions
  <2>4. Latest.disclosure \in Disclosures
    <3>1. Latest \in [disclosure : Offered, after : 0 .. MaxGeneration]
      <4>1. history \in Seq([disclosure : Offered, after : 0 .. MaxGeneration])
        BY <1>1 DEF Inv, TypeOK
      <4> QED  BY <2>2, <4>1, LastInSeq DEF Latest
    <3> QED  BY <3>1 DEF Bounds
  <2>5. EvaluatePublicationPolicy(Latest.disclosure, decisions[d].action) = "allow"
    <3>1. decisions[d].verdict = EvaluatePublicationPolicy(history[decisions[d].generation].disclosure, decisions[d].action)
      BY <1>1, <2>2 DEF Inv, DecidedByPolicy
    <3> QED  BY <2>2, <3>1 DEF Latest
  <2> QED  BY <2>1, <2>2, <2>3, <2>4, <2>5, AllowedIsDisclosable DEF DisclosesAsChosen
<1>2. ASSUME UNCHANGED consumed PROVE DisclosesAsChosen
  BY <1>2 DEF DisclosesAsChosen
<1>3. Inv /\ [Next]_vars => [DisclosesAsChosen]_vars
  BY <1>1, <1>2 DEF Next, ReadPolicy, SetPublicationPolicy, PublishRevision, LoseLease, Edit, Admit, Expire, EvaluatePublication
<1> QED  BY <1>3, InitInv, InvStep, PTL DEF Spec, DisclosedAsChosen

-----------------------------------------------------------------------------
(* The mirror on GitHub: for any number of tasks, notes, repositories,     *)
(* commands, changes and crashes.                                          *)

Records   == ({"task"} \X Nat) \cup ({"decision"} \X DecisionFiles) \cup ({"finding"} \X FindingFiles)
AllTitles == FiledTitles \cup {<<"note", 0>>} \cup ({"canonical"} \X Nat)
IssueRows == [marker : Records \cup {None}, title : AllTitles, open : BOOLEAN, comments : Seq(FindingFiles)]

\* Where a push has the list of its records, where it has taken one of them
\* up, where it holds the lock, and where it is at all.
Recording == {"file", "map", "label", "read", "post", "close", "drop"}
Listed    == {"next"} \cup Recording
Holding   == {"index", "list"} \cup Listed
Pushing   == {"wait"} \cup Holding

PushFields == {"pc", "mode", "repo", "allowed", "cleared", "idx", "snap", "todo", "num", "post"}

MirrorTyped ==
    /\ link.repo \in Repositories \cup {None}
    /\ issues \in [Repositories -> Seq(IssueRows)]
    /\ DOMAIN lock = Repositories
    /\ DOMAIN mirrors = Commands
    /\ \A p \in Commands : "pc" \in DOMAIN mirrors[p]

\* A push holds the lock of its repository; what it may disclose was cleared
\* when it was checked, and its list names each record once.
Disclosing(r) == /\ r.allowed => r.cleared
                 /\ r.mode = "findings" => r.allowed
                 /\ r.pc \in {"read", "post"} => r.allowed
                 /\ \A k \in DOMAIN r.todo : r.todo[k][1] # "task" => r.allowed
PushTyped(r) == /\ DOMAIN r = PushFields
                /\ r.repo \in Repositories /\ r.idx \in Nat
                /\ r.todo \in Seq(Records) /\ r.post \in SUBSET FindingFiles
                /\ \A j, k \in DOMAIN r.todo : r.todo[j] = r.todo[k] => j = k
                /\ r.pc \in Recording => r.todo # <<>>

\* What the repository has beyond the snapshot of the push carries no marker of
\* a record that is still to come.
Beyond(r, rows) == r.mode # "closure" /\ r.pc \in {"list"} \cup Listed =>
    \A i \in DOMAIN rows : i > r.idx /\ rows[i].marker # None =>
        /\ r.pc # "list"
        /\ \A k \in DOMAIN r.todo : rows[i].marker = r.todo[k] => k = 1 /\ r.pc # "next"

\* What it is going to post the issue does not have.
Unposted(r, rows) == r.pc = "post" =>
    /\ r.num \in DOMAIN rows
    /\ \A c \in DOMAIN rows[r.num].comments : rows[r.num].comments[c] \notin r.post

\* What a push p with the row r knows of its repository, whose issues are rows
\* and whose lock is held by l.
Holds(p, r, rows, l) == r.pc \in Pushing =>
    PushTyped(r) /\ Disclosing(r) /\ (r.pc \in Holding => l = p) /\ Beyond(r, rows) /\ Unposted(r, rows)

PushHolds == \A p \in Commands : Holds(p, mirrors[p], issues[mirrors[p].repo], lock[mirrors[p].repo])

MirrorInv == MirrorTyped /\ M!PublishedOnce /\ PushHolds

-----------------------------------------------------------------------------
(* The operators.                                                          *)

\* The lowest of some numbers is one of them.
LEMMA LowestIs ==
    ASSUME NEW S \in SUBSET Nat, S # {}
    PROVE  M!Lowest(S) \in S
<1>1. IsWellFoundedOn({rs \in Nat \X Nat : rs[1] < rs[2]}, Nat)
  BY NatLessThanWellFounded DEF OpToRel
<1>2. PICK x \in S : \A y \in S : ~(<<y, x>> \in {rs \in Nat \X Nat : rs[1] < rs[2]})
  BY <1>1, WFMin
<1>3. ASSUME NEW y \in S PROVE x <= y
  <2>1. <<y, x>> \in Nat \X Nat /\ <<y, x>>[1] = y /\ <<y, x>>[2] = x
    OBVIOUS
  <2> QED BY <1>2, <2>1
<1> QED BY <1>3 DEF M!Lowest

\* The instance counts as this module does.
LEMMA CountedAs == \A S : M!Cardinality(S) = Cardinality(S) /\ M!IsFiniteSet(S) = IsFiniteSet(S)
<1> TAKE S
<1>1. M!Cardinality(S) = Cardinality(S)
  BY DEF M!Cardinality, Cardinality
<1>2. M!IsFiniteSet(S) = IsFiniteSet(S)
  BY DEF M!IsFiniteSet, IsFiniteSet
<1> QED BY <1>1, <1>2

\* A finite set as a sequence names each element once.
LEMMA SetToSeqIs ==
    ASSUME NEW S, IsFiniteSet(S)
    PROVE  /\ Cardinality(S) \in Nat
           /\ M!SetToSeq(S) \in [1 .. Cardinality(S) -> S]
           /\ \A j, k \in 1 .. Cardinality(S) : M!SetToSeq(S)[j] = M!SetToSeq(S)[k] => j = k
<1>1. Cardinality(S) \in Nat /\ ExistsBijection(1 .. Cardinality(S), S)
  BY FS_CardinalityType
<1>2. PICK f \in Bijection(1 .. Cardinality(S), S) : TRUE
  BY <1>1 DEF ExistsBijection
<1>3. f \in [1 .. Cardinality(S) -> S] /\ \A j, k \in DOMAIN f : f[j] = f[k] => j = k
  BY <1>2 DEF Bijection, Injection, IsInjective, M!IsInjective
<1>4. M!SetToSeq(S) \in [1 .. Cardinality(S) -> S] /\ M!IsInjective(M!SetToSeq(S))
  BY <1>3, CountedAs DEF M!SetToSeq, M!IsInjective
<1> QED BY <1>1, <1>4 DEF M!IsInjective

\* The notes of one kind, as the records of a push.
Noted(kind, S) == [i \in 1 .. Cardinality(S) |-> <<kind, M!SetToSeq(S)[i]>>]

LEMMA NotesAre ==
    ASSUME NEW S, IsFiniteSet(S), NEW kind, NEW s, s = Noted(kind, S),
           \A x \in S : <<kind, x>> \in Records
    PROVE  /\ s \in Seq(Records)
           /\ \A j, k \in DOMAIN s : s[j] = s[k] => j = k
           /\ \A k \in DOMAIN s : s[k][1] = kind
<1> USE DEF Noted
<1>1. Cardinality(S) \in Nat
  BY SetToSeqIs
<1>2. ASSUME NEW i \in 1 .. Cardinality(S)
      PROVE  s[i] = <<kind, M!SetToSeq(S)[i]>> /\ M!SetToSeq(S)[i] \in S /\ s[i] \in Records
  <2>1. M!SetToSeq(S)[i] \in S
    BY SetToSeqIs
  <2> QED BY <2>1
<1>3. s \in [1 .. Cardinality(S) -> Records]
  BY <1>2
<1>4. s \in Seq(Records) /\ DOMAIN s = 1 .. Cardinality(S)
  <2> DEFINE n == Cardinality(S)
  <2>1. n \in Nat /\ s \in [1 .. n -> Records]
    BY <1>1, <1>3
  <2> HIDE DEF n
  <2>2. s \in Seq(Records) /\ DOMAIN s = 1 .. n
    BY ONLY <2>1
  <2> QED BY <2>2 DEF n
<1>5. ASSUME NEW j \in DOMAIN s, NEW k \in DOMAIN s, s[j] = s[k] PROVE j = k
  <2>1. M!SetToSeq(S)[j] = M!SetToSeq(S)[k]
    BY <1>2, <1>4, <1>5
  <2> QED BY <1>4, <2>1, SetToSeqIs
<1> QED BY <1>2, <1>4, <1>5

\* Two sequences that share nothing, one after the other.
LEMMA Joined ==
    ASSUME NEW R, NEW a \in Seq(R), NEW b \in Seq(R)
    PROVE  /\ a \o b \in Seq(R)
           /\ \A k \in DOMAIN (a \o b) : \/ \E j \in DOMAIN a : (a \o b)[k] = a[j]
                                         \/ \E j \in DOMAIN b : (a \o b)[k] = b[j]
           /\ (/\ \A j, k \in DOMAIN a : a[j] = a[k] => j = k
               /\ \A j, k \in DOMAIN b : b[j] = b[k] => j = k
               /\ \A j \in DOMAIN a, k \in DOMAIN b : a[j] # b[k])
              => \A j, k \in DOMAIN (a \o b) : (a \o b)[j] = (a \o b)[k] => j = k
<1> DEFINE s == a \o b
<1>1. /\ s \in Seq(R) /\ Len(a) \in Nat /\ Len(b) \in Nat
      /\ DOMAIN s = 1 .. Len(a) + Len(b) /\ DOMAIN a = 1 .. Len(a) /\ DOMAIN b = 1 .. Len(b)
  OBVIOUS
<1>2. ASSUME NEW k \in DOMAIN s
      PROVE  \/ k <= Len(a) /\ k \in DOMAIN a /\ s[k] = a[k]
             \/ k > Len(a) /\ k - Len(a) \in DOMAIN b /\ s[k] = b[k - Len(a)]
  BY <1>1
<1>3. ASSUME NEW j \in DOMAIN s, NEW k \in DOMAIN s, s[j] = s[k],
             \A i, l \in DOMAIN a : a[i] = a[l] => i = l,
             \A i, l \in DOMAIN b : b[i] = b[l] => i = l,
             \A i \in DOMAIN a, l \in DOMAIN b : a[i] # b[l]
      PROVE  j = k
  <2>1. j \in Nat /\ k \in Nat
    BY <1>1
  <2>2. CASE j <= Len(a) /\ j \in DOMAIN a /\ s[j] = a[j]
    BY <1>1, <1>2, <1>3, <2>1, <2>2
  <2>3. CASE j > Len(a) /\ j - Len(a) \in DOMAIN b /\ s[j] = b[j - Len(a)]
    <3>1. k > Len(a) /\ k - Len(a) \in DOMAIN b /\ s[k] = b[k - Len(a)]
      BY <1>2, <1>3, <2>3
    <3>2. j - Len(a) = k - Len(a)
      BY <1>3, <2>3, <3>1
    <3> QED BY <1>1, <2>1, <3>2
  <2> QED BY <1>2, <2>2, <2>3
<1> QED BY <1>1, <1>2, <1>3

\* What is listed names each record once, and notes only where they may go.
LEMMA ListIs ==
    ASSUME NEW p \in Commands, NEW s, s = (IF mirrors[p].mode = "findings" THEN M!FindingIssues ELSE M!Project(p)),
           mirrors[p].mode = "findings" => mirrors[p].allowed
    PROVE  /\ s \in Seq(Records)
           /\ \A j, k \in DOMAIN s : s[j] = s[k] => j = k
           /\ \A k \in DOMAIN s : s[k][1] # "task" => mirrors[p].allowed
<1> USE MirrorBounds, CountedAs DEF M!Bounds
<1>1. CASE mirrors[p].mode = "findings"
  <2>1. \A x \in FindingFiles : <<"finding", x>> \in Records
    BY DEF Records
  <2>2. s = Noted("finding", FindingFiles)
    BY <1>1, CountedAs DEF M!FindingIssues, Noted
  <2> QED BY <1>1, <2>1, <2>2, NotesAre
<1>2. CASE mirrors[p].mode # "findings"
  <2> DEFINE a == [i \in 1 .. M!Existing |-> <<"task", i>>]
             n == [i \in 1 .. Cardinality(DecisionFiles) |-> <<"decision", M!SetToSeq(DecisionFiles)[i]>>]
             b == IF mirrors[p].allowed THEN n ELSE <<>>
  <2>1. M!Existing \in Nat
    BY FS_Subset, FS_CardinalityType, CountedAs DEF M!Existing
  <2>2. /\ a \in Seq(Records) /\ \A j, k \in DOMAIN a : a[j] = a[k] => j = k
        /\ \A k \in DOMAIN a : a[k][1] = "task"
    BY <2>1 DEF Records
  <2>3. /\ n \in Seq(Records) /\ \A j, k \in DOMAIN n : n[j] = n[k] => j = k
        /\ \A k \in DOMAIN n : n[k][1] = "decision"
    <3>1. \A x \in DecisionFiles : <<"decision", x>> \in Records
      BY DEF Records
    <3>2. n = Noted("decision", DecisionFiles)
      BY DEF Noted
    <3> HIDE DEF n
    <3> QED BY <3>1, <3>2, NotesAre
  <2>4. s = a \o b
    BY <1>2, CountedAs DEF M!Project
  <2> HIDE DEF a, n
  <2>5. /\ b \in Seq(Records) /\ \A j, k \in DOMAIN b : b[j] = b[k] => j = k
        /\ \A k \in DOMAIN b : b[k][1] = "decision" /\ mirrors[p].allowed
    BY <2>3
  <2> HIDE DEF b
  <2>6. /\ s \in Seq(Records) /\ \A j, k \in DOMAIN s : s[j] = s[k] => j = k
        /\ \A k \in DOMAIN s : s[k][1] = "task" \/ mirrors[p].allowed
    <3>1. \A j \in DOMAIN a, k \in DOMAIN b : a[j] # b[k]
      BY <2>2, <2>5
    <3>2. /\ a \o b \in Seq(Records)
          /\ \A k \in DOMAIN (a \o b) : \/ \E j \in DOMAIN a : (a \o b)[k] = a[j]
                                        \/ \E j \in DOMAIN b : (a \o b)[k] = b[j]
          /\ \A j, k \in DOMAIN (a \o b) : (a \o b)[j] = (a \o b)[k] => j = k
      BY <2>2, <2>5, <3>1, Joined, Zenon
    <3>3. \A k \in DOMAIN s : (\E j \in DOMAIN a : s[k] = a[j]) \/ (\E j \in DOMAIN b : s[k] = b[j])
      BY <2>4, <3>2, Zenon
    <3>4. s \in Seq(Records) /\ \A j, k \in DOMAIN s : s[j] = s[k] => j = k
      BY <2>4, <3>2, Zenon
    <3> QED BY <2>2, <2>5, <3>3, <3>4
  <2> QED BY <2>6
<1> QED BY <1>1, <1>2

-----------------------------------------------------------------------------
(* What one process does while others push.                                *)

\* Issues that are only added without a marker, opened or closed.
Kept(rows, next) ==
    /\ DOMAIN rows \subseteq DOMAIN next
    /\ \A i \in DOMAIN next : IF i \in DOMAIN rows THEN next[i].marker = rows[i].marker /\ next[i].comments = rows[i].comments
                              ELSE next[i].marker = None /\ next[i].comments = <<>>

\* A step of p: it takes no lock from the others, and changes no issue whose
\* repository one of them has locked, except that way.
Advances(p) == /\ DOMAIN mirrors' = Commands /\ \A q \in Commands \ {p} : mirrors'[q] = mirrors[q]
             /\ "pc" \in DOMAIN mirrors'[p]
Frees(p) == DOMAIN lock' = Repositories /\ \A r \in Repositories, q \in Commands \ {p} : lock[r] = q => lock'[r] = q
Spares(p) == \A r \in Repositories, q \in Commands \ {p} : lock[r] = q => Kept(issues[r], issues'[r])
ThisHolds(p) == Holds(p, mirrors[p], issues[mirrors[p].repo], lock[mirrors[p].repo])

LEMMA KeptHolds ==
    ASSUME NEW r, NEW rows, NEW next, Kept(rows, next), Beyond(r, rows), Unposted(r, rows)
    PROVE  Beyond(r, next) /\ Unposted(r, next)
<1>1. Beyond(r, next)
  BY DEF Kept, Beyond
<1>2. Unposted(r, next)
  BY DEF Kept, Unposted
<1> QED BY <1>1, <1>2

LEMMA StepKeeps ==
    ASSUME MirrorInv, NEW p \in Commands, Advances(p), Frees(p), Spares(p), link'.repo \in Repositories \cup {None},
           issues' \in [Repositories -> Seq(IssueRows)], M!PublishedOnce', ThisHolds(p)'
    PROVE  MirrorInv'
<1>1. MirrorTyped'
  BY DEF MirrorInv, MirrorTyped, Advances, Frees
<1>2. ASSUME NEW q \in Commands \ {p}
      PROVE  Holds(q, mirrors[q], issues'[mirrors[q].repo], lock'[mirrors[q].repo])
  <2>1. Holds(q, mirrors[q], issues[mirrors[q].repo], lock[mirrors[q].repo])
    BY DEF MirrorInv, PushHolds
  <2>2. CASE mirrors[q].pc \in Holding
    <3>1. /\ PushTyped(mirrors[q]) /\ Disclosing(mirrors[q]) /\ lock[mirrors[q].repo] = q
          /\ Beyond(mirrors[q], issues[mirrors[q].repo]) /\ Unposted(mirrors[q], issues[mirrors[q].repo])
      BY <2>1, <2>2 DEF Holds, Pushing
    <3>2. mirrors[q].repo \in Repositories
      BY <3>1 DEF PushTyped
    <3>3. Kept(issues[mirrors[q].repo], issues'[mirrors[q].repo]) /\ lock'[mirrors[q].repo] = q
      BY <3>1, <3>2 DEF Spares, Frees
    <3> QED BY <3>1, <3>3, KeptHolds DEF Holds
  <2>3. CASE mirrors[q].pc = "wait"
    BY <2>1, <2>3 DEF Holds, Beyond, Unposted, Holding, Listed, Recording
  <2>4. CASE mirrors[q].pc \notin Pushing
    BY <2>4 DEF Holds
  <2> QED BY <2>2, <2>3, <2>4 DEF Pushing
<1>3. PushHolds'
  BY <1>2 DEF PushHolds, ThisHolds, Advances
<1> QED BY <1>1, <1>3 DEF MirrorInv

\* Issues that are kept are still published once.
LEMMA KeptOnce ==
    ASSUME MirrorInv, issues' \in [Repositories -> Seq(IssueRows)], \A r \in Repositories : Kept(issues[r], issues'[r])
    PROVE  M!PublishedOnce' /\ \A p : Spares(p)
<1>1. ASSUME NEW r \in Repositories
      PROVE  /\ \A i, j \in DOMAIN issues'[r] : issues'[r][i].marker # None /\ issues'[r][i].marker = issues'[r][j].marker => i = j
             /\ \A i \in DOMAIN issues'[r] : M!IsInjective(issues'[r][i].comments)
  <2>1. /\ \A i, j \in DOMAIN issues[r] : issues[r][i].marker # None /\ issues[r][i].marker = issues[r][j].marker => i = j
        /\ \A i \in DOMAIN issues[r] : M!IsInjective(issues[r][i].comments)
    BY DEF MirrorInv, M!PublishedOnce
  <2>2. M!IsInjective(<<>>)
    BY DEF M!IsInjective
  <2> QED BY <2>1, <2>2 DEF Kept
<1> QED BY <1>1 DEF M!PublishedOnce, Spares

LEMMA SameIssues ==
    ASSUME MirrorInv, issues' = issues
    PROVE  issues' \in [Repositories -> Seq(IssueRows)] /\ M!PublishedOnce' /\ \A p : Spares(p)
<1>1. issues' \in [Repositories -> Seq(IssueRows)]
  BY DEF MirrorInv, MirrorTyped
<1>2. \A r \in Repositories : Kept(issues[r], issues'[r])
  BY DEF Kept
<1> QED BY <1>1, <1>2, KeptOnce

LEMMA FreesOwn ==
    ASSUME MirrorInv, NEW p \in Commands, M!Releases(p) \/ UNCHANGED lock
    PROVE  Frees(p)
<1>1. DOMAIN lock = Repositories
  BY DEF MirrorInv, MirrorTyped
<1>2. CASE UNCHANGED lock
  BY <1>1, <1>2 DEF Frees
<1>3. CASE M!Releases(p)
  BY <1>1, <1>3 DEF M!Releases, Frees
<1> QED BY <1>2, <1>3

\* A process that ends knows nothing any more.
LEMMA EndsKeeps ==
    ASSUME MirrorInv, NEW p \in Commands, M!Ends(p), M!Releases(p) \/ UNCHANGED lock, link' = link,
           issues' \in [Repositories -> Seq(IssueRows)], M!PublishedOnce', Spares(p)
    PROVE  MirrorInv'
<1>1. Advances(p) /\ mirrors'[p] = M!Idle
  BY DEF M!Ends, Advances, M!Idle, MirrorInv, MirrorTyped
<1>2. ThisHolds(p)'
  BY <1>1 DEF ThisHolds, Holds, M!Idle, Pushing, Holding, Listed, Recording
<1>3. link'.repo \in Repositories \cup {None}
  BY DEF MirrorInv, MirrorTyped
<1> QED BY <1>1, <1>2, <1>3, FreesOwn, StepKeeps

\* A process that goes on and changes no issue.
LEMMA QuietKeeps ==
    ASSUME MirrorInv, NEW p \in Commands, Advances(p), Frees(p), UNCHANGED <<link, issues>>, ThisHolds(p)'
    PROVE  MirrorInv'
<1>1. link'.repo \in Repositories \cup {None}
  BY DEF MirrorInv, MirrorTyped
<1> QED BY <1>1, SameIssues, StepKeeps

-----------------------------------------------------------------------------
(* The steps of a push.                                                    *)

LEMMA PushIs ==
    ASSUME MirrorInv, NEW p \in Commands, mirrors[p].pc \in Pushing
    PROVE  /\ PushTyped(mirrors[p]) /\ Disclosing(mirrors[p]) /\ (mirrors[p].pc \in Holding => lock[mirrors[p].repo] = p)
           /\ Beyond(mirrors[p], issues[mirrors[p].repo]) /\ Unposted(mirrors[p], issues[mirrors[p].repo])
BY DEF MirrorInv, PushHolds, Holds

LEMMA PushPoliced ==
    ASSUME MirrorInv, NEW p \in Commands, NEW mode \in PushModes, NEW include \in BOOLEAN, M!cmdPush(p, mode, include)
    PROVE  MirrorInv'
<1>1. /\ Advances(p) /\ DOMAIN mirrors'[p] = PushFields /\ mirrors'[p].pc = "wait" /\ mirrors'[p].mode = mode
      /\ mirrors'[p].repo = link.repo /\ mirrors'[p].allowed = M!publicationPolicy(include)
      /\ mirrors'[p].cleared = (visible[link.repo] = "private" \/ link.internal = link.repo)
      /\ mirrors'[p].idx = 0 /\ mirrors'[p].todo = <<>> /\ mirrors'[p].post = {}
  BY DEF M!cmdPush, Advances, PushFields, MirrorInv, MirrorTyped
<1>2. link.repo \in Repositories
  BY DEF M!cmdPush, MirrorInv, MirrorTyped
<1>3. M!publicationPolicy(include) => visible[link.repo] = "private" \/ link.internal = link.repo
  BY DEF M!publicationPolicy, M!consentCoversRepo
<1>4. mode = "findings" => M!publicationPolicy(include)
  BY DEF M!cmdPush
<1>5. PushTyped(mirrors'[p])
  BY <1>1, <1>2 DEF PushTyped, Recording
<1>6. Disclosing(mirrors'[p])
  <2>1. mirrors'[p].allowed => mirrors'[p].cleared
    BY <1>1, <1>3, Zenon
  <2>2. mirrors'[p].mode = "findings" => mirrors'[p].allowed
    BY <1>1, <1>4, Zenon
  <2>3. mirrors'[p].pc \notin {"read", "post"} /\ DOMAIN mirrors'[p].todo = {}
    BY <1>1
  <2> QED BY <2>1, <2>2, <2>3 DEF Disclosing
<1>7. ThisHolds(p)'
  BY <1>1, <1>5, <1>6 DEF ThisHolds, Holds, Beyond, Unposted, Holding, Listed, Recording
<1>8. UNCHANGED <<link, issues, lock>>
  BY DEF M!cmdPush
<1> QED BY <1>1, <1>7, <1>8, FreesOwn, QuietKeeps

LEMMA TakeLockKeeps ==
    ASSUME MirrorInv, NEW p \in Commands, M!TakeLock(p)
    PROVE  MirrorInv'
<1>1. /\ mirrors[p].pc = "wait" /\ lock[mirrors[p].repo] = None /\ lock' = [lock EXCEPT ![mirrors[p].repo] = p]
      /\ UNCHANGED <<link, issues>>
  BY DEF M!TakeLock
<1>2. PushTyped(mirrors[p]) /\ Disclosing(mirrors[p])
  BY <1>1, PushIs DEF Pushing
<1>3. /\ Advances(p) /\ DOMAIN mirrors'[p] = PushFields
      /\ mirrors'[p].pc = (IF mirrors[p].mode = "closure" THEN "list" ELSE "index")
      /\ mirrors'[p].mode = mirrors[p].mode /\ mirrors'[p].repo = mirrors[p].repo
      /\ mirrors'[p].allowed = mirrors[p].allowed /\ mirrors'[p].cleared = mirrors[p].cleared
      /\ mirrors'[p].idx = mirrors[p].idx /\ mirrors'[p].todo = mirrors[p].todo /\ mirrors'[p].post = mirrors[p].post
  BY <1>2 DEF M!TakeLock, M!To, Advances, PushTyped, PushFields, MirrorInv, MirrorTyped
<1>4. lock'[mirrors[p].repo] = p /\ Frees(p)
  BY <1>1, <1>2, MirrorBounds DEF M!Bounds, Frees, PushTyped, MirrorInv, MirrorTyped
<1>5. PushTyped(mirrors'[p]) /\ Disclosing(mirrors'[p])
  BY <1>2, <1>3 DEF PushTyped, Disclosing, Recording
<1>6. ThisHolds(p)'
  BY <1>3, <1>4, <1>5 DEF ThisHolds, Holds, Beyond, Unposted, Listed, Recording
<1> QED BY <1>1, <1>3, <1>4, <1>6, QuietKeeps

LEMMA markerIndexKeeps ==
    ASSUME MirrorInv, NEW p \in Commands, M!markerIndex(p)
    PROVE  MirrorInv'
<1>1. mirrors[p].pc = "index" /\ UNCHANGED <<link, issues>>
  BY DEF M!markerIndex
<1>2. PushTyped(mirrors[p]) /\ Disclosing(mirrors[p]) /\ lock[mirrors[p].repo] = p
  BY <1>1, PushIs DEF Pushing, Holding
<1>3. CASE M!Ends(p) /\ M!Releases(p)
  BY <1>1, <1>3, SameIssues, EndsKeeps
<1>4. CASE mirrors' = [mirrors EXCEPT ![p].pc = "list", ![p].idx = Len(issues[mirrors[p].repo])] /\ UNCHANGED lock
  <2>1. /\ Advances(p) /\ DOMAIN mirrors'[p] = PushFields /\ mirrors'[p].pc = "list"
        /\ mirrors'[p].idx = Len(issues[mirrors[p].repo])
        /\ mirrors'[p].mode = mirrors[p].mode /\ mirrors'[p].repo = mirrors[p].repo
        /\ mirrors'[p].allowed = mirrors[p].allowed /\ mirrors'[p].cleared = mirrors[p].cleared
        /\ mirrors'[p].todo = mirrors[p].todo /\ mirrors'[p].post = mirrors[p].post
    BY <1>2, <1>4 DEF Advances, PushTyped, PushFields, MirrorInv, MirrorTyped
  <2>2. issues[mirrors[p].repo] \in Seq(IssueRows)
    BY <1>2 DEF PushTyped, MirrorInv, MirrorTyped
  <2>3. PushTyped(mirrors'[p]) /\ Disclosing(mirrors'[p])
    BY <1>2, <2>1, <2>2 DEF PushTyped, Disclosing, Recording
  <2>4. Beyond(mirrors'[p], issues'[mirrors'[p].repo]) /\ Unposted(mirrors'[p], issues'[mirrors'[p].repo])
    BY <1>1, <2>1, <2>2 DEF Beyond, Unposted
  <2>5. ThisHolds(p)'
    BY <1>2, <1>4, <2>1, <2>3, <2>4 DEF ThisHolds, Holds
  <2> QED BY <1>1, <1>4, <2>1, <2>5, FreesOwn, QuietKeeps
<1> QED BY <1>3, <1>4 DEF M!markerIndex, M!preflight

LEMMA pushProjectKeeps ==
    ASSUME MirrorInv, NEW p \in Commands, M!pushProject(p)
    PROVE  MirrorInv'
<1>1. mirrors[p].pc = "list" /\ UNCHANGED <<link, issues>>
  BY DEF M!pushProject
<1>2. /\ PushTyped(mirrors[p]) /\ Disclosing(mirrors[p]) /\ lock[mirrors[p].repo] = p
      /\ Beyond(mirrors[p], issues[mirrors[p].repo])
  BY <1>1, PushIs DEF Pushing, Holding
<1>3. CASE M!Ends(p) /\ M!Releases(p)
  BY <1>1, <1>3, SameIssues, EndsKeeps
<1> DEFINE s == IF mirrors[p].mode = "findings" THEN M!FindingIssues ELSE M!Project(p)
<1>4. CASE mirrors' = [mirrors EXCEPT ![p].pc = "next", ![p].snap = tasks, ![p].todo = s] /\ UNCHANGED lock
  <2>1. /\ s \in Seq(Records)
        /\ \A j, k \in DOMAIN s : s[j] = s[k] => j = k
        /\ \A k \in DOMAIN s : s[k][1] # "task" => mirrors[p].allowed
    BY <1>2, ListIs DEF Disclosing
  <2> HIDE DEF s
  <2>2. /\ Advances(p) /\ DOMAIN mirrors'[p] = PushFields /\ mirrors'[p].pc = "next" /\ mirrors'[p].todo = s
        /\ mirrors'[p].idx = mirrors[p].idx
        /\ mirrors'[p].mode = mirrors[p].mode /\ mirrors'[p].repo = mirrors[p].repo
        /\ mirrors'[p].allowed = mirrors[p].allowed /\ mirrors'[p].cleared = mirrors[p].cleared
        /\ mirrors'[p].post = mirrors[p].post
    BY <1>2, <1>4 DEF Advances, PushTyped, PushFields, MirrorInv, MirrorTyped
  <2>3. PushTyped(mirrors'[p])
    BY <1>2, <2>1, <2>2 DEF PushTyped, Recording
  <2>4. Disclosing(mirrors'[p])
    BY <1>2, <2>1, <2>2 DEF Disclosing
  <2>5. Beyond(mirrors'[p], issues'[mirrors'[p].repo]) /\ Unposted(mirrors'[p], issues'[mirrors'[p].repo])
    BY <1>1, <1>2, <2>2 DEF Beyond, Unposted
  <2>6. ThisHolds(p)'
    BY <1>2, <1>4, <2>2, <2>3, <2>4, <2>5 DEF ThisHolds, Holds
  <2> QED BY <1>1, <1>4, <2>2, <2>6, FreesOwn, QuietKeeps
<1> QED BY <1>3, <1>4 DEF M!pushProject

\* A push that goes on with the record it has taken up, or takes up the next.
Onward(p, pc) ==
    /\ Advances(p) /\ DOMAIN mirrors'[p] = PushFields /\ mirrors'[p].pc = pc
    /\ mirrors'[p].mode = mirrors[p].mode /\ mirrors'[p].repo = mirrors[p].repo
    /\ mirrors'[p].allowed = mirrors[p].allowed /\ mirrors'[p].cleared = mirrors[p].cleared
    /\ mirrors'[p].idx = mirrors[p].idx

LEMMA OnwardKeeps ==
    ASSUME MirrorInv, NEW p \in Commands, mirrors[p].pc \in Listed, mirrors[p].todo # <<>>, NEW pc \in Recording, Onward(p, pc),
           mirrors'[p].todo = mirrors[p].todo, mirrors'[p].post = mirrors[p].post, pc # "post", pc = "read" => mirrors[p].allowed,
           UNCHANGED <<link, lock>>,
           issues' \in [Repositories -> Seq(IssueRows)], \A r \in Repositories : Kept(issues[r], issues'[r])
    PROVE  MirrorInv'
<1>1. /\ PushTyped(mirrors[p]) /\ Disclosing(mirrors[p]) /\ lock[mirrors[p].repo] = p
      /\ Beyond(mirrors[p], issues[mirrors[p].repo])
  BY PushIs DEF Pushing, Holding
<1>2. mirrors[p].repo \in Repositories /\ Kept(issues[mirrors[p].repo], issues'[mirrors[p].repo])
  BY <1>1 DEF PushTyped
<1>3. PushTyped(mirrors'[p])
  BY <1>1 DEF PushTyped, Onward
<1>4. Disclosing(mirrors'[p])
  BY <1>1 DEF Disclosing, Onward
<1>5. Beyond(mirrors'[p], issues'[mirrors'[p].repo])
  <2>1. Beyond(mirrors'[p], issues[mirrors[p].repo])
    BY <1>1 DEF Beyond, Onward, Recording, Listed
  <2> QED BY <1>2, <2>1 DEF Beyond, Kept, Onward
<1>6. ThisHolds(p)'
  BY <1>1, <1>3, <1>4, <1>5 DEF ThisHolds, Holds, Unposted, Onward
<1>7. link'.repo \in Repositories \cup {None}
  BY DEF MirrorInv, MirrorTyped
<1> QED BY <1>6, <1>7, KeptOnce, FreesOwn, StepKeeps DEF Onward

LEMMA KeptSame ==
    ASSUME MirrorInv, UNCHANGED issues
    PROVE  issues' \in [Repositories -> Seq(IssueRows)] /\ \A r \in Repositories : Kept(issues[r], issues'[r])
BY DEF MirrorInv, MirrorTyped, Kept

\* Opening and closing keeps an issue.
LEMMA KeptOpen ==
    ASSUME MirrorInv, NEW p \in Commands, mirrors[p].repo \in Repositories, NEW open \in BOOLEAN, M!SetOpen(p, open)
    PROVE  issues' \in [Repositories -> Seq(IssueRows)] /\ \A r \in Repositories : Kept(issues[r], issues'[r])
<1> DEFINE r == mirrors[p].repo
           n == mirrors[p].num
           row == [issues[r][n] EXCEPT !.open = open]
<1>1. CASE ~ M!Exists(p)
  BY <1>1, KeptSame DEF M!SetOpen
<1>2. CASE M!Exists(p)
  <2>1. n \in DOMAIN issues[r] /\ issues' = [issues EXCEPT ![r][n].open = open] /\ issues \in [Repositories -> Seq(IssueRows)]
    BY <1>2 DEF M!Exists, M!SetOpen, MirrorInv, MirrorTyped
  <2>2. issues[r] \in Seq(IssueRows) /\ issues[r][n] \in IssueRows
    BY <2>1
  <2>3. row \in IssueRows /\ row.marker = issues[r][n].marker /\ row.comments = issues[r][n].comments
    BY <2>2 DEF IssueRows
  <2>4. issues' = [issues EXCEPT ![r] = [issues[r] EXCEPT ![n] = row]]
    BY <2>1
  <2> HIDE DEF row
  <2>5. [issues[r] EXCEPT ![n] = row] \in Seq(IssueRows)
    BY <2>1, <2>2, <2>3
  <2>6. issues' \in [Repositories -> Seq(IssueRows)]
    BY <2>1, <2>4, <2>5
  <2>7. ASSUME NEW x \in Repositories PROVE Kept(issues[x], issues'[x])
    <3>1. CASE x # r
      BY <2>1, <2>4, <3>1 DEF Kept
    <3>2. CASE x = r
      <4>1. issues'[x] = [issues[r] EXCEPT ![n] = row]
        BY <2>1, <2>4, <3>2
      <4>2. DOMAIN issues'[x] = DOMAIN issues[r] /\ \A i \in DOMAIN issues[r] : issues'[x][i] = IF i = n THEN row ELSE issues[r][i]
        BY <2>1, <4>1
      <4> QED BY <2>3, <3>2, <4>2 DEF Kept
    <3> QED BY <3>1, <3>2
  <2> QED BY <2>6, <2>7
<1> QED BY <1>1, <1>2

LEMMA FileClosedKeeps ==
    ASSUME MirrorInv, NEW p \in Commands, M!FileClosed(p)
    PROVE  MirrorInv'
<1>1. /\ mirrors[p].pc = "file" /\ UNCHANGED <<link, lock>>
      /\ M!SetOpen(p, FALSE) \/ UNCHANGED issues
  BY DEF M!FileClosed
<1>2. PushTyped(mirrors[p])
  BY <1>1, PushIs DEF Pushing, Holding, Listed, Recording
<1>3. Onward(p, "map") /\ mirrors'[p].todo = mirrors[p].todo /\ mirrors'[p].post = mirrors[p].post
  BY <1>2 DEF M!FileClosed, M!To, Onward, Advances, PushTyped, PushFields, MirrorInv, MirrorTyped
<1>4. issues' \in [Repositories -> Seq(IssueRows)] /\ \A r \in Repositories : Kept(issues[r], issues'[r])
  BY <1>1, <1>2, KeptOpen, KeptSame DEF PushTyped
<1> QED BY <1>1, <1>2, <1>3, <1>4, OnwardKeeps DEF PushTyped, Listed, Recording

LEMMA WriteBackKeeps ==
    ASSUME MirrorInv, NEW p \in Commands, M!WriteBack(p)
    PROVE  MirrorInv'
<1>1. mirrors[p].pc = "map" /\ UNCHANGED <<link, lock, issues>>
  BY DEF M!WriteBack
<1>2. PushTyped(mirrors[p])
  BY <1>1, PushIs DEF Pushing, Holding, Listed, Recording
<1>3. PICK pc \in {"label", "drop"} : M!To(p, pc)
  BY DEF M!WriteBack
<1>4. Onward(p, pc) /\ mirrors'[p].todo = mirrors[p].todo /\ mirrors'[p].post = mirrors[p].post
  BY <1>2, <1>3 DEF M!To, Onward, Advances, PushTyped, PushFields, MirrorInv, MirrorTyped
<1> QED BY <1>1, <1>2, <1>4, KeptSame, OnwardKeeps DEF PushTyped, Listed, Recording

LEMMA syncIssueTaxonomyKeeps ==
    ASSUME MirrorInv, NEW p \in Commands, M!syncIssueTaxonomy(p)
    PROVE  MirrorInv'
<1>1. mirrors[p].pc = "label" /\ UNCHANGED <<link, lock, issues>>
  BY DEF M!syncIssueTaxonomy
<1>2. PushTyped(mirrors[p])
  BY <1>1, PushIs DEF Pushing, Holding, Listed, Recording
<1>3. PICK pc \in {"read", "close"} : M!To(p, pc) /\ (pc = "read" => mirrors[p].allowed)
  BY Zenon DEF M!syncIssueTaxonomy
<1>4. Onward(p, pc) /\ mirrors'[p].todo = mirrors[p].todo /\ mirrors'[p].post = mirrors[p].post
  BY <1>2, <1>3 DEF M!To, Onward, Advances, PushTyped, PushFields, MirrorInv, MirrorTyped
<1> QED BY <1>1, <1>2, <1>3, <1>4, KeptSame, OnwardKeeps DEF PushTyped, Listed, Recording

LEMMA CloseDoneKeeps ==
    ASSUME MirrorInv, NEW p \in Commands, M!CloseDone(p)
    PROVE  MirrorInv'
<1>1. mirrors[p].pc = "close" /\ UNCHANGED link
  BY DEF M!CloseDone
<1>2. PushTyped(mirrors[p])
  BY <1>1, PushIs DEF Pushing, Holding, Listed, Recording
<1>3. CASE M!Ends(p) /\ M!Releases(p) /\ UNCHANGED issues
  BY <1>1, <1>3, SameIssues, EndsKeeps
<1>4. CASE M!To(p, "drop") /\ UNCHANGED lock /\ (M!SetOpen(p, FALSE) \/ UNCHANGED issues)
  <2>1. Onward(p, "drop") /\ mirrors'[p].todo = mirrors[p].todo /\ mirrors'[p].post = mirrors[p].post
    BY <1>2, <1>4 DEF M!To, Onward, Advances, PushTyped, PushFields, MirrorInv, MirrorTyped
  <2>2. issues' \in [Repositories -> Seq(IssueRows)] /\ \A r \in Repositories : Kept(issues[r], issues'[r])
    BY <1>2, <1>4, KeptOpen, KeptSame DEF PushTyped
  <2> QED BY <1>1, <1>2, <1>4, <2>1, <2>2, OnwardKeeps DEF PushTyped, Listed, Recording
<1> QED BY <1>3, <1>4 DEF M!CloseDone

LEMMA mirrorFindingsKeeps ==
    ASSUME MirrorInv, NEW p \in Commands, M!mirrorFindings(p)
    PROVE  MirrorInv'
<1>1. mirrors[p].pc = "read" /\ UNCHANGED <<link, issues>>
  BY DEF M!mirrorFindings
<1>2. /\ PushTyped(mirrors[p]) /\ Disclosing(mirrors[p]) /\ lock[mirrors[p].repo] = p
      /\ Beyond(mirrors[p], issues[mirrors[p].repo])
  BY <1>1, PushIs DEF Pushing, Holding, Listed, Recording
<1>3. CASE M!Ends(p) /\ M!Releases(p)
  BY <1>1, <1>3, SameIssues, EndsKeeps
<1>4. CASE M!Exists(p) /\ mirrors' = [mirrors EXCEPT ![p].pc = "post", ![p].post = M!findingsToPost(p)] /\ UNCHANGED lock
  <2>1. /\ Onward(p, "post") /\ mirrors'[p].todo = mirrors[p].todo /\ mirrors'[p].post = M!findingsToPost(p)
        /\ mirrors'[p].num = mirrors[p].num
    BY <1>2, <1>4 DEF Onward, Advances, PushTyped, PushFields, MirrorInv, MirrorTyped
  <2>2. PushTyped(mirrors'[p])
    BY <1>1, <1>2, <2>1 DEF PushTyped, Onward, M!findingsToPost, Recording
  <2>3. Disclosing(mirrors'[p])
    BY <1>1, <1>2, <2>1 DEF Disclosing, Onward
  <2>4. Beyond(mirrors'[p], issues'[mirrors'[p].repo])
    BY <1>1, <1>2, <2>1 DEF Beyond, Onward, Recording, Listed
  <2>5. Unposted(mirrors'[p], issues'[mirrors'[p].repo])
    BY <1>1, <1>4, <2>1 DEF Unposted, Onward, M!findingsToPost, M!Range, M!Exists
  <2>6. ThisHolds(p)'
    BY <1>2, <1>4, <2>1, <2>2, <2>3, <2>4, <2>5 DEF ThisHolds, Holds, Onward
  <2> QED BY <1>1, <1>4, <2>1, <2>6, FreesOwn, QuietKeeps DEF Onward
<1> QED BY <1>3, <1>4 DEF M!mirrorFindings

LEMMA FollowingKeeps ==
    ASSUME MirrorInv, NEW p \in Commands, M!Following(p)
    PROVE  MirrorInv'
<1>1. mirrors[p].pc = "drop" /\ UNCHANGED <<link, issues, lock>>
  BY DEF M!Following
<1>2. /\ PushTyped(mirrors[p]) /\ Disclosing(mirrors[p]) /\ lock[mirrors[p].repo] = p
      /\ Beyond(mirrors[p], issues[mirrors[p].repo])
  BY <1>1, PushIs DEF Pushing, Holding, Listed, Recording
<1>3. /\ Onward(p, "next") /\ mirrors'[p].todo = Tail(mirrors[p].todo) /\ mirrors'[p].post = mirrors[p].post
  BY <1>2 DEF M!Following, Onward, Advances, PushTyped, PushFields, MirrorInv, MirrorTyped
<1>4. mirrors[p].todo \in Seq(Records) /\ mirrors[p].todo # <<>>
  BY <1>1, <1>2 DEF PushTyped, Recording
<1>5. /\ mirrors'[p].todo \in Seq(Records)
      /\ \A k \in DOMAIN mirrors'[p].todo : k \in Nat /\ k >= 1 /\ k + 1 \in DOMAIN mirrors[p].todo /\ mirrors'[p].todo[k] = mirrors[p].todo[k + 1]
  BY <1>3, <1>4
<1>6. PushTyped(mirrors'[p])
  <2>1. \A j, k \in DOMAIN mirrors'[p].todo : mirrors'[p].todo[j] = mirrors'[p].todo[k] => j + 1 = k + 1
    BY <1>2, <1>5 DEF PushTyped
  <2>2. \A j, k \in DOMAIN mirrors'[p].todo : mirrors'[p].todo[j] = mirrors'[p].todo[k] => j = k
    BY <1>5, <2>1
  <2> QED BY <1>2, <1>3, <1>5, <2>2 DEF PushTyped, Onward, Recording
<1>7. Disclosing(mirrors'[p])
  BY <1>2, <1>3, <1>5 DEF Disclosing, Onward
<1>8. Beyond(mirrors'[p], issues'[mirrors'[p].repo])
  <2>1. ASSUME NEW i \in DOMAIN issues[mirrors[p].repo], mirrors[p].mode # "closure", i > mirrors[p].idx,
               issues[mirrors[p].repo][i].marker # None, NEW k \in DOMAIN mirrors'[p].todo
        PROVE  issues[mirrors[p].repo][i].marker # mirrors'[p].todo[k]
    <3>1. issues[mirrors[p].repo][i].marker = mirrors[p].todo[k + 1] => k + 1 = 1
      BY <1>1, <1>2, <1>5, <2>1 DEF Beyond, Listed, Recording
    <3> QED BY <1>5, <3>1
  <2> QED BY <1>1, <1>3, <2>1 DEF Beyond, Onward
<1>9. ThisHolds(p)'
  BY <1>1, <1>2, <1>3, <1>6, <1>7, <1>8 DEF ThisHolds, Holds, Onward, Unposted
<1> QED BY <1>1, <1>3, <1>9, FreesOwn, QuietKeeps DEF Onward

LEMMA AppliedKeeps ==
    ASSUME MirrorInv, NEW p \in Commands, M!Applied(p)
    PROVE  MirrorInv'
BY SameIssues, EndsKeeps DEF M!Applied

\* An issue that is added to one repository, and one that is replaced.
LEMMA AddedIs ==
    ASSUME MirrorInv, NEW r \in Repositories, NEW row \in IssueRows, issues' = [issues EXCEPT ![r] = Append(issues[r], row)]
    PROVE  /\ issues' \in [Repositories -> Seq(IssueRows)] /\ DOMAIN issues[r] \subseteq Nat
           /\ \A x \in Repositories \ {r} : issues'[x] = issues[x]
           /\ DOMAIN issues[r] \subseteq DOMAIN issues'[r]
           /\ \A i \in DOMAIN issues[r] : issues'[r][i] = issues[r][i]
           /\ \A i, j \in DOMAIN issues'[r] : i \in DOMAIN issues[r] \/ j \in DOMAIN issues[r] \/ i = j
           /\ \A i \in DOMAIN issues'[r] : i \in DOMAIN issues[r] \/ issues'[r][i] = row
<1>1. issues \in [Repositories -> Seq(IssueRows)] /\ issues[r] \in Seq(IssueRows)
  BY DEF MirrorInv, MirrorTyped
<1>2. Append(issues[r], row) \in Seq(IssueRows) /\ issues'[r] = Append(issues[r], row)
  BY <1>1
<1>3. /\ Len(issues[r]) \in Nat /\ DOMAIN issues[r] = 1 .. Len(issues[r]) /\ DOMAIN issues'[r] = 1 .. Len(issues[r]) + 1
      /\ \A i \in DOMAIN issues[r] : issues'[r][i] = issues[r][i]
      /\ issues'[r][Len(issues[r]) + 1] = row
  BY <1>1, <1>2
<1>4. \A i \in DOMAIN issues'[r] : i \in DOMAIN issues[r] \/ i = Len(issues[r]) + 1
  BY <1>3
<1>5. issues' \in [Repositories -> Seq(IssueRows)] /\ \A x \in Repositories \ {r} : issues'[x] = issues[x]
  BY <1>1, <1>2
<1> QED BY <1>3, <1>4, <1>5

LEMMA ReplacedIs ==
    ASSUME MirrorInv, NEW r \in Repositories, NEW n \in DOMAIN issues[r], NEW row \in IssueRows,
           issues' = [issues EXCEPT ![r] = [issues[r] EXCEPT ![n] = row]]
    PROVE  /\ issues' \in [Repositories -> Seq(IssueRows)]
           /\ \A x \in Repositories \ {r} : issues'[x] = issues[x]
           /\ DOMAIN issues'[r] = DOMAIN issues[r]
           /\ \A i \in DOMAIN issues[r] : issues'[r][i] = IF i = n THEN row ELSE issues[r][i]
<1>1. issues \in [Repositories -> Seq(IssueRows)] /\ issues[r] \in Seq(IssueRows)
  BY DEF MirrorInv, MirrorTyped
<1>2. [issues[r] EXCEPT ![n] = row] \in Seq(IssueRows) /\ issues'[r] = [issues[r] EXCEPT ![n] = row]
  BY <1>1
<1> QED BY <1>1, <1>2

\* A comment that is added changes no marker.
LEMMA CommentedIs ==
    ASSUME MirrorInv, NEW r \in Repositories, NEW n \in DOMAIN issues[r], NEW row \in IssueRows,
           issues' = [issues EXCEPT ![r] = [issues[r] EXCEPT ![n] = row]],
           row.marker = issues[r][n].marker, M!IsInjective(row.comments)
    PROVE  /\ issues' \in [Repositories -> Seq(IssueRows)] /\ M!PublishedOnce'
           /\ \A x \in Repositories \ {r} : issues'[x] = issues[x]
           /\ DOMAIN issues'[r] = DOMAIN issues[r]
           /\ \A i \in DOMAIN issues[r] : issues'[r][i].marker = issues[r][i].marker
           /\ issues'[r][n].comments = row.comments
<1>1. /\ issues' \in [Repositories -> Seq(IssueRows)] /\ \A x \in Repositories \ {r} : issues'[x] = issues[x]
      /\ DOMAIN issues'[r] = DOMAIN issues[r]
      /\ \A i \in DOMAIN issues[r] : issues'[r][i] = IF i = n THEN row ELSE issues[r][i]
  BY ReplacedIs
<1>2. \A i \in DOMAIN issues[r] : issues'[r][i].marker = issues[r][i].marker
  BY <1>1
<1>3. ASSUME NEW x \in Repositories
      PROVE  /\ \A i, j \in DOMAIN issues'[x] : issues'[x][i].marker # None /\ issues'[x][i].marker = issues'[x][j].marker => i = j
             /\ \A i \in DOMAIN issues'[x] : M!IsInjective(issues'[x][i].comments)
  <2>1. /\ \A i, j \in DOMAIN issues[x] : issues[x][i].marker # None /\ issues[x][i].marker = issues[x][j].marker => i = j
        /\ \A i \in DOMAIN issues[x] : M!IsInjective(issues[x][i].comments)
    BY DEF MirrorInv, M!PublishedOnce
  <2>2. CASE x # r
    BY <1>1, <2>1, <2>2
  <2>3. CASE x = r
    <3>1. \A i, j \in DOMAIN issues'[x] : issues'[x][i].marker # None /\ issues'[x][i].marker = issues'[x][j].marker => i = j
      BY <1>1, <1>2, <2>1, <2>3
    <3>2. \A i \in DOMAIN issues'[x] : M!IsInjective(issues'[x][i].comments)
      BY <1>1, <2>1, <2>3
    <3> QED BY <3>1, <3>2
  <2> QED BY <2>2, <2>3
<1> QED BY <1>1, <1>2, <1>3 DEF M!PublishedOnce

\* A sequence of distinct elements and one it has not.
LEMMA AppendedOnce ==
    ASSUME NEW S, NEW s \in Seq(S), M!IsInjective(s), NEW f \in S, \A c \in DOMAIN s : s[c] # f
    PROVE  /\ Append(s, f) \in Seq(S) /\ M!IsInjective(Append(s, f))
           /\ \A c \in DOMAIN Append(s, f) : Append(s, f)[c] = f \/ \E b \in DOMAIN s : Append(s, f)[c] = s[b]
<1> DEFINE t == Append(s, f)
<1>1. /\ Len(s) \in Nat /\ DOMAIN s = 1 .. Len(s) /\ DOMAIN t = 1 .. Len(s) + 1
      /\ \A c \in DOMAIN s : t[c] = s[c]
      /\ t[Len(s) + 1] = f /\ t \in Seq(S)
  OBVIOUS
<1> HIDE DEF t
<1>2. \A c \in DOMAIN t : (c \in DOMAIN s /\ t[c] = s[c]) \/ (c = Len(s) + 1 /\ t[c] = f)
  BY <1>1
<1>3. M!IsInjective(t)
  BY <1>1, <1>2 DEF M!IsInjective
<1> QED BY <1>1, <1>2, <1>3 DEF t

LEMMA CreatedIs ==
    ASSUME MirrorInv, NEW p \in Commands, mirrors[p].pc = "next", mirrors[p].todo # <<>>, mirrors[p].mode # "closure",
           M!Adoptable(p) = 0, M!Created(p, M!Record(p), M!IssueTitle(p))
    PROVE  /\ issues' \in [Repositories -> Seq(IssueRows)] /\ M!PublishedOnce' /\ Spares(p)
           /\ \A i \in DOMAIN issues'[mirrors[p].repo] :
                  \/ i \in DOMAIN issues[mirrors[p].repo] /\ issues'[mirrors[p].repo][i] = issues[mirrors[p].repo][i]
                  \/ issues'[mirrors[p].repo][i].marker = mirrors[p].todo[1]
<1> DEFINE r == mirrors[p].repo
           rows == issues[mirrors[p].repo]
           row == [marker |-> M!Record(p), title |-> M!IssueTitle(p), open |-> TRUE, comments |-> <<>>]
<1>1. /\ PushTyped(mirrors[p]) /\ lock[mirrors[p].repo] = p
      /\ Beyond(mirrors[p], issues[mirrors[p].repo])
  BY PushIs DEF Pushing, Holding, Listed
<1>2. r \in Repositories /\ mirrors[p].idx \in Nat /\ mirrors[p].todo \in Seq(Records)
  BY <1>1 DEF PushTyped
<1>3. M!Record(p) = mirrors[p].todo[1] /\ 1 \in DOMAIN mirrors[p].todo /\ M!Record(p) \in Records
  BY <1>2 DEF M!Record
<1>4. row \in IssueRows
  <2>1. M!IsTask(p) => M!Record(p)[2] \in Nat
    BY <1>3 DEF M!IsTask, Records
  <2>2. M!IssueTitle(p) \in AllTitles
    BY <2>1 DEF M!IssueTitle, M!taskIssueTitle, AllTitles
  <2> QED BY <1>3, <2>2 DEF IssueRows
<1>5. issues' = [issues EXCEPT ![r] = Append(issues[r], row)]
  BY DEF M!Created
<1>6. row.marker = M!Record(p) /\ row.comments = <<>>
  OBVIOUS
<1> HIDE DEF row
<1>7. /\ issues' \in [Repositories -> Seq(IssueRows)] /\ DOMAIN issues[r] \subseteq Nat
      /\ \A x \in Repositories \ {r} : issues'[x] = issues[x]
      /\ DOMAIN issues[r] \subseteq DOMAIN issues'[r]
      /\ \A i \in DOMAIN issues[r] : issues'[r][i] = issues[r][i]
      /\ \A i, j \in DOMAIN issues'[r] : i \in DOMAIN issues[r] \/ j \in DOMAIN issues[r] \/ i = j
      /\ \A i \in DOMAIN issues'[r] : i \in DOMAIN issues[r] \/ issues'[r][i] = row
  <2> HIDE DEF r
  <2> QED BY <1>2, <1>4, <1>5, AddedIs, Zenon
<1>8. ASSUME NEW i \in DOMAIN rows, rows[i].marker = M!Record(p), M!Record(p) # None
      PROVE  FALSE
  <2>1. CASE i <= mirrors[p].idx
    <3> DEFINE S == {j \in 1 .. mirrors[p].idx : issues[mirrors[p].repo][j].marker = M!Record(p)}
    <3>1. i \in S /\ S \in SUBSET Nat
      BY <1>2, <1>7, <1>8, <2>1
    <3>2. M!Lowest(S) \in S
      BY <3>1, LowestIs
    <3>3. M!findAll(p) = M!Lowest(S)
      BY DEF M!findAll, M!Seen
    <3>4. M!findAll(p) # 0
      BY <1>2, <3>2, <3>3
    <3> QED BY <3>4 DEF M!Adoptable
  <2>2. CASE i > mirrors[p].idx
    BY <1>1, <1>3, <1>8, <2>2 DEF Beyond, Listed
  <2> QED BY <1>2, <1>7, <2>1, <2>2
<1>9. M!PublishedOnce'
  <2>1. ASSUME NEW x \in Repositories
        PROVE  /\ \A i, j \in DOMAIN issues'[x] : issues'[x][i].marker # None /\ issues'[x][i].marker = issues'[x][j].marker => i = j
               /\ \A i \in DOMAIN issues'[x] : M!IsInjective(issues'[x][i].comments)
    <3>1. /\ \A i, j \in DOMAIN issues[x] : issues[x][i].marker # None /\ issues[x][i].marker = issues[x][j].marker => i = j
          /\ \A i \in DOMAIN issues[x] : M!IsInjective(issues[x][i].comments)
      BY DEF MirrorInv, M!PublishedOnce
    <3>2. M!IsInjective(<<>>)
      BY DEF M!IsInjective
    <3>3. CASE x # r
      BY <1>7, <3>1, <3>3
    <3>4. CASE x = r
      <4>1. \A i \in DOMAIN issues'[r] :
                \/ i \in DOMAIN issues[r] /\ issues'[r][i] = issues[r][i]
                \/ i \notin DOMAIN issues[r] /\ issues'[r][i].marker = M!Record(p) /\ issues'[r][i].comments = <<>>
        BY <1>6, <1>7
      <4>2. \A i, j \in DOMAIN issues'[r] : issues'[r][i].marker # None /\ issues'[r][i].marker = issues'[r][j].marker => i = j
        BY <1>7, <1>8, <3>1, <3>4, <4>1
      <4>3. \A i \in DOMAIN issues'[r] : M!IsInjective(issues'[r][i].comments)
        BY <3>1, <3>2, <3>4, <4>1
      <4> QED BY <3>4, <4>2, <4>3
    <3> QED BY <3>3, <3>4
  <2> QED BY <2>1 DEF M!PublishedOnce
<1>10. Spares(p)
  BY <1>1, <1>2, <1>7 DEF Spares, Kept
<1> QED BY <1>3, <1>6, <1>7, <1>9, <1>10

LEMMA ResolveKeeps ==
    ASSUME MirrorInv, NEW p \in Commands, M!Resolve(p)
    PROVE  MirrorInv'
<1>1. mirrors[p].pc = "next" /\ mirrors[p].todo # <<>> /\ UNCHANGED link
  BY DEF M!Resolve
<1>2. /\ PushTyped(mirrors[p]) /\ Disclosing(mirrors[p]) /\ lock[mirrors[p].repo] = p
      /\ Beyond(mirrors[p], issues[mirrors[p].repo])
  BY <1>1, PushIs DEF Pushing, Holding, Listed
<1>3. ASSUME NEW pc \in {"close", "map"}, NEW n, mirrors' = [mirrors EXCEPT ![p].pc = pc, ![p].num = n], UNCHANGED <<issues, lock>>
      PROVE  MirrorInv'
  <2>1. Onward(p, pc) /\ mirrors'[p].todo = mirrors[p].todo /\ mirrors'[p].post = mirrors[p].post
    BY <1>2, <1>3 DEF Onward, Advances, PushTyped, PushFields, MirrorInv, MirrorTyped
  <2> QED BY <1>1, <1>3, <2>1, KeptSame, OnwardKeeps DEF Listed, Recording
<1>4. CASE M!Ends(p) /\ M!Releases(p) /\ UNCHANGED issues
  BY <1>1, <1>4, SameIssues, EndsKeeps
<1>5. CASE mirrors[p].mode # "closure" /\ M!Adoptable(p) = 0 /\ M!Created(p, M!Record(p), M!IssueTitle(p)) /\ M!Ends(p) /\ M!Releases(p)
  BY <1>1, <1>5, CreatedIs, EndsKeeps
<1>6. ASSUME mirrors[p].mode # "closure", M!Adoptable(p) = 0, M!Created(p, M!Record(p), M!IssueTitle(p)),
             NEW pc \in {"file", "map"}, NEW n, mirrors' = [mirrors EXCEPT ![p].pc = pc, ![p].num = n], UNCHANGED lock
      PROVE  MirrorInv'
  <2>1. Onward(p, pc) /\ mirrors'[p].todo = mirrors[p].todo /\ mirrors'[p].post = mirrors[p].post
    BY <1>2, <1>6 DEF Onward, Advances, PushTyped, PushFields, MirrorInv, MirrorTyped
  <2>2. /\ issues' \in [Repositories -> Seq(IssueRows)] /\ M!PublishedOnce' /\ Spares(p)
        /\ \A i \in DOMAIN issues'[mirrors[p].repo] :
               \/ i \in DOMAIN issues[mirrors[p].repo] /\ issues'[mirrors[p].repo][i] = issues[mirrors[p].repo][i]
               \/ issues'[mirrors[p].repo][i].marker = mirrors[p].todo[1]
    BY <1>1, <1>6, CreatedIs
  <2>3. PushTyped(mirrors'[p])
    BY <1>1, <1>2, <2>1 DEF PushTyped, Onward
  <2>4. Disclosing(mirrors'[p])
    BY <1>2, <2>1 DEF Disclosing, Onward
  <2>5. Beyond(mirrors'[p], issues'[mirrors'[p].repo])
    <3>1. ASSUME NEW i \in DOMAIN issues'[mirrors[p].repo], i > mirrors[p].idx, issues'[mirrors[p].repo][i].marker # None,
                 NEW k \in DOMAIN mirrors[p].todo, issues'[mirrors[p].repo][i].marker = mirrors[p].todo[k]
          PROVE  k = 1
      <4>1. CASE i \in DOMAIN issues[mirrors[p].repo] /\ issues'[mirrors[p].repo][i] = issues[mirrors[p].repo][i]
        BY <1>1, <1>2, <1>6, <3>1, <4>1 DEF Beyond, Listed
      <4>2. CASE issues'[mirrors[p].repo][i].marker = mirrors[p].todo[1]
        <5>1. 1 \in DOMAIN mirrors[p].todo
          BY <1>1, <1>2 DEF PushTyped
        <5> QED BY <1>2, <3>1, <4>2, <5>1 DEF PushTyped
      <4> QED BY <2>2, <4>1, <4>2
    <3>2. /\ mirrors'[p].repo = mirrors[p].repo /\ mirrors'[p].idx = mirrors[p].idx /\ mirrors'[p].todo = mirrors[p].todo
          /\ mirrors'[p].pc = pc /\ pc # "list" /\ pc # "next"
      BY <2>1 DEF Onward
    <3>3. \A i \in DOMAIN issues'[mirrors[p].repo], k \in DOMAIN mirrors[p].todo :
              i > mirrors[p].idx /\ issues'[mirrors[p].repo][i].marker # None
              /\ issues'[mirrors[p].repo][i].marker = mirrors[p].todo[k] => k = 1
      BY <3>1
    <3> QED BY <3>2, <3>3 DEF Beyond
  <2>6. ThisHolds(p)'
    BY <1>2, <1>6, <2>1, <2>3, <2>4, <2>5 DEF ThisHolds, Holds, Onward, Unposted
  <2>7. link'.repo \in Repositories \cup {None}
    BY <1>1 DEF MirrorInv, MirrorTyped
  <2> QED BY <1>6, <2>1, <2>2, <2>6, <2>7, FreesOwn, StepKeeps DEF Onward
<1> QED BY <1>3, <1>4, <1>5, <1>6 DEF M!Resolve

\* A comment that is added to an issue does not repeat one it has.
LEMMA CommentIs ==
    ASSUME MirrorInv, NEW p \in Commands, mirrors[p].pc = "post", NEW f \in mirrors[p].post,
           issues' = [issues EXCEPT ![mirrors[p].repo][mirrors[p].num].comments = Append(@, f)]
    PROVE  /\ issues' \in [Repositories -> Seq(IssueRows)] /\ M!PublishedOnce' /\ Spares(p)
           /\ DOMAIN issues'[mirrors[p].repo] = DOMAIN issues[mirrors[p].repo]
           /\ \A i \in DOMAIN issues[mirrors[p].repo] : issues'[mirrors[p].repo][i].marker = issues[mirrors[p].repo][i].marker
           /\ mirrors[p].num \in DOMAIN issues[mirrors[p].repo]
           /\ LET now == issues'[mirrors[p].repo][mirrors[p].num].comments
              IN  \A c \in DOMAIN now : now[c] \notin mirrors[p].post \ {f}
<1> DEFINE r == mirrors[p].repo
           n == mirrors[p].num
           said == issues[mirrors[p].repo][mirrors[p].num].comments
           row == [issues[r][n] EXCEPT !.comments = Append(said, f)]
<1>1. /\ PushTyped(mirrors[p]) /\ lock[mirrors[p].repo] = p
      /\ Unposted(mirrors[p], issues[mirrors[p].repo])
  BY PushIs DEF Pushing, Holding, Listed, Recording
<1>2. /\ r \in Repositories /\ f \in FindingFiles /\ n \in DOMAIN issues[r]
      /\ \A c \in DOMAIN said : said[c] \notin mirrors[p].post
  BY <1>1 DEF PushTyped, Unposted
<1>3. issues \in [Repositories -> Seq(IssueRows)] /\ issues[r] \in Seq(IssueRows) /\ issues[r][n] \in IssueRows
  BY <1>2 DEF MirrorInv, MirrorTyped
<1>4. said \in Seq(FindingFiles)
  BY <1>3 DEF IssueRows
<1>5. M!IsInjective(said)
  BY <1>2 DEF MirrorInv, M!PublishedOnce
<1>6. /\ Append(said, f) \in Seq(FindingFiles) /\ M!IsInjective(Append(said, f))
      /\ \A c \in DOMAIN Append(said, f) : Append(said, f)[c] = f \/ \E b \in DOMAIN said : Append(said, f)[c] = said[b]
  <2>1. \A c \in DOMAIN said : said[c] # f
    BY <1>2
  <2> HIDE DEF said
  <2> QED BY <1>2, <1>4, <1>5, <2>1, AppendedOnce
<1>8. row \in IssueRows /\ row.marker = issues[r][n].marker /\ row.comments = Append(said, f)
  BY <1>3, <1>6 DEF IssueRows
<1>9. issues' = [issues EXCEPT ![r] = [issues[r] EXCEPT ![n] = row]]
  OBVIOUS
<1> HIDE DEF row, said, r, n
<1>11. M!IsInjective(row.comments)
  BY <1>6, <1>8
<1>12. /\ issues' \in [Repositories -> Seq(IssueRows)] /\ M!PublishedOnce'
       /\ \A x \in Repositories \ {r} : issues'[x] = issues[x]
       /\ DOMAIN issues'[r] = DOMAIN issues[r]
       /\ \A i \in DOMAIN issues[r] : issues'[r][i].marker = issues[r][i].marker
       /\ issues'[r][n].comments = row.comments
  BY <1>2, <1>8, <1>9, <1>11, CommentedIs, Zenon
<1>13. Spares(p)
  BY <1>1, <1>2, <1>12 DEF Spares, Kept, r
<1>14. \A c \in DOMAIN row.comments : row.comments[c] \notin mirrors[p].post \ {f}
  BY <1>2, <1>6, <1>8
<1> QED BY <1>2, <1>12, <1>13, <1>14 DEF r, n

LEMMA PostCommentKeeps ==
    ASSUME MirrorInv, NEW p \in Commands, M!PostComment(p)
    PROVE  MirrorInv'
<1>1. mirrors[p].pc = "post" /\ UNCHANGED link
  BY DEF M!PostComment
<1>2. /\ PushTyped(mirrors[p]) /\ Disclosing(mirrors[p]) /\ lock[mirrors[p].repo] = p
      /\ Beyond(mirrors[p], issues[mirrors[p].repo])
  BY <1>1, PushIs DEF Pushing, Holding, Listed, Recording
<1>3. CASE M!To(p, "close") /\ UNCHANGED <<issues, lock>>
  <2>1. Onward(p, "close") /\ mirrors'[p].todo = mirrors[p].todo /\ mirrors'[p].post = mirrors[p].post
    BY <1>2, <1>3 DEF M!To, Onward, Advances, PushTyped, PushFields, MirrorInv, MirrorTyped
  <2> QED BY <1>1, <1>2, <1>3, <2>1, KeptSame, OnwardKeeps DEF PushTyped, Listed, Recording
<1>4. CASE M!Ends(p) /\ M!Releases(p) /\ UNCHANGED issues
  BY <1>1, <1>4, SameIssues, EndsKeeps
<1>5. ASSUME NEW f \in mirrors[p].post, issues' = [issues EXCEPT ![mirrors[p].repo][mirrors[p].num].comments = Append(@, f)],
             M!Ends(p), M!Releases(p)
      PROVE  MirrorInv'
  BY <1>1, <1>5, CommentIs, EndsKeeps
<1>6. ASSUME NEW f \in mirrors[p].post, issues' = [issues EXCEPT ![mirrors[p].repo][mirrors[p].num].comments = Append(@, f)],
             mirrors' = [mirrors EXCEPT ![p].post = @ \ {f}], UNCHANGED lock
      PROVE  MirrorInv'
  <2>1. /\ Onward(p, "post") /\ mirrors'[p].todo = mirrors[p].todo /\ mirrors'[p].post = mirrors[p].post \ {f}
        /\ mirrors'[p].num = mirrors[p].num
    BY <1>1, <1>2, <1>6 DEF Onward, Advances, PushTyped, PushFields, MirrorInv, MirrorTyped
  <2>2. /\ issues' \in [Repositories -> Seq(IssueRows)] /\ M!PublishedOnce' /\ Spares(p)
        /\ DOMAIN issues'[mirrors[p].repo] = DOMAIN issues[mirrors[p].repo]
        /\ \A i \in DOMAIN issues[mirrors[p].repo] : issues'[mirrors[p].repo][i].marker = issues[mirrors[p].repo][i].marker
        /\ mirrors[p].num \in DOMAIN issues[mirrors[p].repo]
        /\ LET now == issues'[mirrors[p].repo][mirrors[p].num].comments
           IN  \A c \in DOMAIN now : now[c] \notin mirrors[p].post \ {f}
    BY <1>1, <1>6, CommentIs
  <2>3. PushTyped(mirrors'[p])
    BY <1>1, <1>2, <2>1 DEF PushTyped, Onward, Recording
  <2>4. Disclosing(mirrors'[p])
    BY <1>1, <1>2, <2>1 DEF Disclosing, Onward
  <2>5. Beyond(mirrors'[p], issues'[mirrors'[p].repo])
    <3>1. Beyond(mirrors'[p], issues[mirrors[p].repo])
      BY <1>1, <1>2, <2>1 DEF Beyond, Onward, Listed, Recording
    <3>2. mirrors'[p].repo = mirrors[p].repo
      BY <2>1 DEF Onward
    <3> QED BY <2>2, <3>1, <3>2 DEF Beyond
  <2>6. Unposted(mirrors'[p], issues'[mirrors'[p].repo])
    BY <2>1, <2>2 DEF Unposted, Onward
  <2>7. ThisHolds(p)'
    BY <1>2, <1>6, <2>1, <2>3, <2>4, <2>5, <2>6 DEF ThisHolds, Holds, Onward
  <2>8. link'.repo \in Repositories \cup {None}
    BY <1>1 DEF MirrorInv, MirrorTyped
  <2> QED BY <1>6, <2>1, <2>2, <2>7, <2>8, FreesOwn, StepKeeps DEF Onward
<1> QED BY <1>3, <1>4, <1>5, <1>6 DEF M!PostComment

-----------------------------------------------------------------------------
(* Pulls, the operator, GitHub and crashes.                                *)

\* A process that does not push knows nothing of the mirror.
LEMMA PullKeeps ==
    ASSUME MirrorInv, NEW p \in Commands, Advances(p), mirrors'[p].pc \in {"create", "link"}, UNCHANGED <<link, issues, lock>>
    PROVE  MirrorInv'
<1>1. ThisHolds(p)'
  BY DEF ThisHolds, Holds, Pushing, Holding, Listed, Recording
<1> QED BY <1>1, FreesOwn, QuietKeeps

LEMMA cmdPullKeeps ==
    ASSUME MirrorInv, NEW p \in Commands, M!cmdPull(p)
    PROVE  MirrorInv'
<1>1. UNCHANGED <<link, issues, lock>>
  BY DEF M!cmdPull
<1>2. PICK i \in DOMAIN issues[link.repo] :
          /\ M!planPull(i) \in {"create", "link"}
          /\ mirrors' = [mirrors EXCEPT ![p] = [pc |-> M!planPull(i), repo |-> link.repo, num |-> i, title |-> issues[link.repo][i].title,
                         task |-> IF M!planPull(i) = "link" THEN CHOOSE t \in M!Exact(issues[link.repo][i].title) : TRUE ELSE 0]]
  BY DEF M!cmdPull, M!planPull
<1>3. Advances(p) /\ mirrors'[p].pc = M!planPull(i)
  BY <1>2 DEF Advances, MirrorInv, MirrorTyped
<1> QED BY <1>1, <1>2, <1>3, PullKeeps

LEMMA CreateTaskKeeps ==
    ASSUME MirrorInv, NEW p \in Commands, M!CreateTask(p)
    PROVE  MirrorInv'
<1>1. UNCHANGED <<link, issues, lock>>
  BY DEF M!CreateTask
<1>2. PICK t \in Numbers : mirrors' = [mirrors EXCEPT ![p].pc = "link", ![p].task = t]
  BY DEF M!CreateTask
<1>3. Advances(p) /\ mirrors'[p].pc = "link"
  BY <1>2 DEF Advances, MirrorInv, MirrorTyped
<1> QED BY <1>1, <1>3, PullKeeps

LEMMA LinkTaskKeeps ==
    ASSUME MirrorInv, NEW p \in Commands, M!LinkTask(p)
    PROVE  MirrorInv'
BY SameIssues, EndsKeeps DEF M!LinkTask

LEMMA StopsKeeps ==
    ASSUME MirrorInv, NEW p \in Commands, M!Stops(p)
    PROVE  MirrorInv'
BY SameIssues, EndsKeeps DEF M!Stops

\* What no process does.
LEMMA OutsideKeeps ==
    ASSUME MirrorInv, UNCHANGED <<mirrors, lock>>, link'.repo \in Repositories \cup {None},
           issues' \in [Repositories -> Seq(IssueRows)], \A r \in Repositories : Kept(issues[r], issues'[r])
    PROVE  MirrorInv'
<1>1. MirrorTyped'
  BY DEF MirrorInv, MirrorTyped
<1>2. M!PublishedOnce'
  BY KeptOnce
<1>3. ASSUME NEW p \in Commands PROVE Holds(p, mirrors[p], issues'[mirrors[p].repo], lock[mirrors[p].repo])
  <2>1. Holds(p, mirrors[p], issues[mirrors[p].repo], lock[mirrors[p].repo])
    BY DEF MirrorInv, PushHolds
  <2>2. CASE mirrors[p].pc \in Pushing
    <3>1. /\ PushTyped(mirrors[p]) /\ Disclosing(mirrors[p]) /\ (mirrors[p].pc \in Holding => lock[mirrors[p].repo] = p)
          /\ Beyond(mirrors[p], issues[mirrors[p].repo]) /\ Unposted(mirrors[p], issues[mirrors[p].repo])
      BY <2>1, <2>2 DEF Holds
    <3>2. Kept(issues[mirrors[p].repo], issues'[mirrors[p].repo])
      BY <3>1 DEF PushTyped
    <3> QED BY <3>1, <3>2, KeptHolds DEF Holds
  <2> QED BY <2>2 DEF Holds
<1> QED BY <1>1, <1>2, <1>3 DEF MirrorInv, PushHolds

LEMMA FilesKeeps ==
    ASSUME MirrorInv, NEW r \in Repositories, NEW title \in FiledTitles, M!Files(r, title)
    PROVE  MirrorInv'
<1> DEFINE row == [marker |-> None, title |-> title, open |-> TRUE, comments |-> <<>>]
<1>1. UNCHANGED <<link, mirrors, lock>> /\ issues' = [issues EXCEPT ![r] = Append(issues[r], row)]
  BY DEF M!Files
<1>2. row \in IssueRows /\ row.marker = None /\ row.comments = <<>>
  BY DEF IssueRows, AllTitles
<1> HIDE DEF row
<1>3. /\ issues' \in [Repositories -> Seq(IssueRows)]
      /\ \A x \in Repositories \ {r} : issues'[x] = issues[x]
      /\ DOMAIN issues[r] \subseteq DOMAIN issues'[r]
      /\ \A i \in DOMAIN issues[r] : issues'[r][i] = issues[r][i]
      /\ \A i \in DOMAIN issues'[r] : i \in DOMAIN issues[r] \/ issues'[r][i] = row
  BY <1>1, <1>2, AddedIs
<1>4. \A x \in Repositories : Kept(issues[x], issues'[x])
  BY <1>2, <1>3 DEF Kept
<1>5. link'.repo \in Repositories \cup {None}
  BY <1>1 DEF MirrorInv, MirrorTyped
<1> QED BY <1>1, <1>3, <1>4, <1>5, OutsideKeeps

LEMMA WorldKeeps ==
    ASSUME MirrorInv,
           \/ \E r \in Repositories : M!Flips(r)
           \/ \E t \in Numbers : M!Moves(t)
           \/ \E r \in Repositories, public, internal \in BOOLEAN : M!cmdLink(r, public, internal)
    PROVE  MirrorInv'
<1>1. UNCHANGED <<mirrors, lock, issues>>
  BY DEF M!Flips, M!Moves, M!cmdLink
<1>2. link'.repo \in Repositories \cup {None}
  <2>1. CASE UNCHANGED link
    BY <2>1 DEF MirrorInv, MirrorTyped
  <2>2. ASSUME NEW r \in Repositories, NEW public \in BOOLEAN, NEW internal \in BOOLEAN, M!cmdLink(r, public, internal)
        PROVE  link'.repo = r
    BY <2>2 DEF M!cmdLink
  <2> QED BY <2>1, <2>2 DEF M!Flips, M!Moves
<1> QED BY <1>1, <1>2, KeptSame, OutsideKeeps

-----------------------------------------------------------------------------
LEMMA MirrorInitial ==
    ASSUME M!Init
    PROVE  MirrorInv
<1>1. MirrorTyped
  BY DEF M!Init, MirrorTyped, M!Idle
<1>2. M!PublishedOnce
  BY DEF M!Init, M!PublishedOnce
<1>3. PushHolds
  BY DEF M!Init, PushHolds, Holds, M!Idle, Pushing, Holding, Listed, Recording
<1> QED BY <1>1, <1>2, <1>3 DEF MirrorInv

LEMMA MirrorInductive ==
    ASSUME MirrorInv, [M!Next]_(M!vars)
    PROVE  MirrorInv'
<1>1. CASE UNCHANGED M!vars
  <2>1. UNCHANGED <<link, issues, lock, mirrors>>
    BY <1>1 DEF M!vars
  <2> QED BY <2>1, KeptSame, OutsideKeeps DEF MirrorInv, MirrorTyped
<1>2. ASSUME NEW p \in Commands, M!Push(p) \/ M!Pull(p) \/ M!Stops(p)
      PROVE  MirrorInv'
  <2>1. CASE \E mode \in PushModes, include \in BOOLEAN : M!cmdPush(p, mode, include)
    BY <2>1, PushPoliced
  <2>3. CASE M!TakeLock(p) \/ M!markerIndex(p) \/ M!pushProject(p) \/ M!Resolve(p)
    BY <2>3, TakeLockKeeps, markerIndexKeeps, pushProjectKeeps, ResolveKeeps
  <2>4. CASE M!FileClosed(p) \/ M!WriteBack(p) \/ M!syncIssueTaxonomy(p) \/ M!mirrorFindings(p)
    BY <2>4, FileClosedKeeps, WriteBackKeeps, syncIssueTaxonomyKeeps, mirrorFindingsKeeps
  <2>5. CASE M!PostComment(p) \/ M!CloseDone(p) \/ M!Following(p) \/ M!Applied(p)
    BY <2>5, PostCommentKeeps, CloseDoneKeeps, FollowingKeeps, AppliedKeeps
  <2>6. CASE M!Pull(p) \/ M!Stops(p)
    BY <2>6, cmdPullKeeps, CreateTaskKeeps, LinkTaskKeeps, StopsKeeps DEF M!Pull
  <2> QED BY <1>2, <2>1, <2>3, <2>4, <2>5, <2>6 DEF M!Push
<1>3. CASE \E r \in Repositories, t \in FiledTitles : M!Files(r, t)
  BY <1>3, FilesKeeps
<1> QED BY <1>1, <1>2, <1>3, WorldKeeps DEF M!Next

\* What is known of the pushes says that nothing is disclosed.
LEMMA NothingDisclosed ==
    ASSUME MirrorInv
    PROVE  M!NothingUndisclosed
<1>1. ASSUME NEW p \in Commands, M!Internal(p) PROVE mirrors[p].cleared
  <2>1. mirrors[p].pc \in {"post", "map"}
    BY <1>1 DEF M!Internal
  <2>2. PushTyped(mirrors[p]) /\ Disclosing(mirrors[p])
    BY <2>1, PushIs DEF Pushing, Holding, Listed, Recording
  <2>3. CASE mirrors[p].pc = "post"
    BY <2>2, <2>3 DEF Disclosing
  <2>4. CASE mirrors[p].pc = "map" /\ ~ M!IsTask(p)
    <3>1. 1 \in DOMAIN mirrors[p].todo /\ M!Record(p) = mirrors[p].todo[1]
      BY <2>2, <2>4 DEF PushTyped, Recording, M!Record
    <3> QED BY <2>2, <2>4, <3>1 DEF Disclosing, M!IsTask
  <2> QED BY <1>1, <2>3, <2>4 DEF M!Internal
<1> QED BY <1>1 DEF M!NothingUndisclosed

\* GithubMirror's push publishes every record once and discloses nothing it was
\* not cleared for, whoever else pushes, pulls, files issues, relinks or stops.
THEOREM IssuesPublishedOnce == M!Spec => []PublishedOnce
<1>1. M!Init => MirrorInv
  BY MirrorInitial
<1>2. MirrorInv /\ [M!Next]_(M!vars) => MirrorInv'
  BY MirrorInductive
<1>3. MirrorInv => PublishedOnce
  BY NothingDisclosed DEF MirrorInv, PublishedOnce
<1> QED BY <1>1, <1>2, <1>3, PTL DEF M!Spec

=============================================================================
