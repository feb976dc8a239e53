----------------------------- MODULE GithubApp -----------------------------
(***************************************************************************)
(* The bridge between one GitHub App installation and the local policy     *)
(* (internal/githubapp/bridge.go): verified webhooks become one inbox row   *)
(* and one proposal per delivery, status updates go through an outbox and   *)
(* are acknowledged after they were posted, and Reconcile takes over what   *)
(* GitHub says of the installation, never more than the configuration.      *)
(*                                                                         *)
(* All operations run under one mutex; the process may die between two      *)
(* durable writes of one, and then the bridge is opened again, perhaps with *)
(* another configuration.  The webhook sender, GitHub's grants and the      *)
(* check poster are external.                                              *)
(***************************************************************************)
EXTENDS Integers, FiniteSets

CONSTANTS Deliveries,  \* delivery identifiers
          Bodies,      \* payloads, each with its repository
          Repos,       \* repositories
          Projects,    \* projects they may be assigned to
          Keys,        \* idempotency keys, numbers in the order of the outbox
          States       \* check states

VARIABLES
    inbox,      \* delivery -> [event, payload] or Nothing
    proposals,  \* delivery -> [project, repo, event] or Nothing
    outbox,     \* key -> [project, repo, state] or Nothing
    acks,       \* the keys acknowledged
    saved,      \* bindings.json: [state, repos] or Nothing
    config,     \* the configuration: repo -> project or "none"
    tenant,     \* the binding in memory: [state, repos]
    remote,     \* GitHub: [state, checks], checks : repo -> "write", "read", "gone"
    answered,   \* history: the deliveries acknowledged to the sender
    posted,     \* history: the checks posted: [key, state, project, allowed]
    op          \* the operation in progress

store == <<inbox, proposals, outbox, acks, saved>>
history == <<answered, posted>>
vars == <<store, config, tenant, remote, history, op>>

Nothing == [none |-> TRUE]
Idle == [pc |-> "idle"]
Events == {"issues", "other"}

Bounds == /\ Keys \subseteq Nat
          /\ Bodies \subseteq [repo : Repos, text : {"plain", "markup"}]
          /\ "none" \notin Projects

(* A payload is stored as JSON encodes it: compact, with <, > and & escaped.  *)
Encode(b) == [b EXCEPT !.text = IF @ = "markup" THEN "escaped" ELSE @]

(* The configured binding before GitHub was ever asked. *)
Local(c) == [state |-> "active",
             repos |-> [r \in Repos |-> [project |-> c[r], checks |-> "read", removed |-> FALSE]]]

(* Open: local assignments win, the remote state of what is still configured  *)
(* is taken from bindings.json.                                            *)
Open(c, s) ==
    IF s = Nothing THEN Local(c)
    ELSE [state |-> s.state,
          repos |-> [r \in Repos |-> IF c[r] # "none" /\ s.repos[r].project # "none"
                                     THEN [s.repos[r] EXCEPT !.project = c[r]] ELSE Local(c).repos[r]]]

Init ==
    /\ inbox = [d \in Deliveries |-> Nothing] /\ proposals = [d \in Deliveries |-> Nothing]
    /\ outbox = [k \in Keys |-> Nothing] /\ acks = {} /\ saved = Nothing
    /\ config \in {c \in [Repos -> Projects \cup {"none"}] : \E r \in Repos : c[r] # "none"}
    /\ tenant = Open(config, Nothing)
    /\ remote = [state |-> "active", checks |-> [r \in Repos |-> "write"]]
    /\ answered = {} /\ posted = {}
    /\ op = Idle

-----------------------------------------------------------------------------
(* GitHub suspends or removes the installation, and changes what it grants. *)
RemoteChanges ==
    /\ \/ \E s \in {"active", "suspended"} : remote' = [remote EXCEPT !.state = s]
       \/ \E r \in Repos, c \in {"write", "gone"} : remote' = [remote EXCEPT !.checks[r] = c]
    /\ remote' # remote
    /\ UNCHANGED <<store, config, tenant, history, op>>

(* route: the installation is active and the repository configured and there. *)
route(r) == /\ tenant.state = "active"
            /\ tenant.repos[r].project # "none" /\ ~tenant.repos[r].removed

(* A proposal is made of issue, comment and pull request events only. *)
makeProposal(event, body) ==
    [event |-> event, repo |-> body.repo, project |-> tenant.repos[body.repo].project]

Answer(d) == answered' = answered \cup {d} /\ op' = Idle

(* MUTANT of Repair: a known delivery is answered without looking for its proposal. *)
RepairSkipped(d) == FALSE

(* A row without its proposal: a crash came between the two writes. *)
Repair(d) == proposals[d] = Nothing

(* Ingest up to its first durable write: the signature, the route, then a      *)
(* known delivery must carry the same event and bytes.                     *)
Ingest(d, event, body) ==
    /\ op = Idle /\ route(body.repo)
    /\ LET known == inbox[d]
           todo == [pc |-> "propose", delivery |-> d, event |-> event, body |-> body]
       IN  IF known = Nothing
           THEN /\ event = "issues"
                /\ inbox' = [inbox EXCEPT ![d] = [event |-> event, payload |-> Encode(body)]]
                /\ op' = todo /\ UNCHANGED answered
           ELSE /\ known.event = event /\ known.payload = body
                /\ IF Repair(d) THEN op' = todo /\ UNCHANGED answered ELSE Answer(d)
                /\ UNCHANGED inbox
    /\ UNCHANGED <<proposals, outbox, acks, saved, config, tenant, remote, posted>>

(* createJSON links a complete file and never replaces one. *)
createJSON(f, k, v) == IF f[k] = Nothing THEN [f EXCEPT ![k] = v] ELSE f

WriteProposal ==
    /\ op.pc = "propose"
    /\ proposals' = createJSON(proposals, op.delivery, makeProposal(op.event, op.body))
    /\ Answer(op.delivery)
    /\ UNCHANGED <<inbox, outbox, acks, saved, config, tenant, remote, posted>>

(* A key already in the outbox keeps its record. *)
Enqueued(k, v) == createJSON(outbox, k, v)

EnqueueStatus(k, r, state) ==
    /\ op = Idle /\ route(r)
    /\ outbox' = Enqueued(k, [project |-> tenant.repos[r].project, repo |-> r, state |-> state])
    /\ UNCHANGED <<inbox, proposals, acks, saved, config, tenant, remote, history, op>>

(* Dispatch walks the outbox in the order of its names and stops at the first  *)
(* record that no longer matches its binding or may not be posted.          *)
Pending == {k \in Keys : outbox[k] # Nothing /\ k \notin acks}
Postable(v) == /\ route(v.repo)
               /\ v.project = tenant.repos[v.repo].project
               /\ tenant.repos[v.repo].checks = "write"

Dispatch ==
    /\ op = Idle /\ Pending # {}
    /\ LET k == CHOOSE k \in Pending : \A j \in Pending : k <= j
       IN  /\ Postable(outbox[k])
           /\ posted' = posted \cup {[key |-> k, status |-> outbox[k],
                                      configured |-> config[outbox[k].repo]]}
           /\ op' = [pc |-> "ack", key |-> k]
    /\ UNCHANGED <<store, config, tenant, remote, answered>>

Acknowledge ==
    /\ op.pc = "ack"
    /\ acks' = acks \cup {op.key}
    /\ op' = Idle
    /\ UNCHANGED <<inbox, proposals, outbox, saved, config, tenant, remote, history>>

(* Reconcile: GitHub's state and grants for the configured repositories; one   *)
(* that it does not list is removed.  The binding changes in memory first.   *)
Reconcile ==
    /\ op = Idle
    /\ tenant' = [state |-> remote.state,
                  repos |-> [r \in Repos |->
                      IF config[r] = "none" THEN tenant.repos[r]
                      ELSE IF remote.checks[r] = "gone" THEN [tenant.repos[r] EXCEPT !.removed = TRUE]
                      ELSE [tenant.repos[r] EXCEPT !.checks = remote.checks[r], !.removed = FALSE]]]
    /\ op' = [pc |-> "bindings"]
    /\ UNCHANGED <<store, config, remote, history>>

writeJSONAtomic ==
    /\ op.pc = "bindings"
    /\ saved' = tenant
    /\ op' = Idle
    /\ UNCHANGED <<inbox, proposals, outbox, acks, config, tenant, remote, history>>

(* An installation webhook changes the state in memory only. *)
SetInstallationState ==
    /\ op = Idle /\ tenant.state # remote.state
    /\ tenant' = [tenant EXCEPT !.state = remote.state]
    /\ UNCHANGED <<store, config, remote, history, op>>

(* The process ends, in an operation or not, and is opened again. *)
Restart ==
    /\ config' \in [Repos -> Projects \cup {"none"}]
    /\ \E r \in Repos : config'[r] # "none"
    /\ tenant' = Open(config', saved)
    /\ op' = Idle
    /\ UNCHANGED <<store, remote, history>>

Next ==
    \/ RemoteChanges
    \/ \E d \in Deliveries, e \in Events, b \in Bodies : Ingest(d, e, b)
    \/ WriteProposal
    \/ \E k \in Keys, r \in Repos, s \in States : EnqueueStatus(k, r, s)
    \/ Dispatch \/ Acknowledge
    \/ Reconcile \/ writeJSONAtomic \/ SetInstallationState
    \/ Restart

Spec == Init /\ [][Next]_vars

-----------------------------------------------------------------------------
(* A delivery that was answered has its row and its proposal, of the same     *)
(* event and repository; a proposal has a row.  A crash between the two       *)
(* writes, a redelivery and a restart with other assignments keep this.     *)
AnsweredIsProposed ==
    \A d \in Deliveries :
        /\ d \in answered => proposals[d] # Nothing
        /\ proposals[d] # Nothing =>
             /\ inbox[d] # Nothing
             /\ inbox[d].event = proposals[d].event /\ inbox[d].payload.repo = proposals[d].repo

(* However often a key is posted, it is the same status, and each post went   *)
(* to the project the configuration assigned to the repository then.        *)
PostsAgree ==
    \A x \in posted :
        /\ x.configured = x.status.project
        /\ \A y \in posted : x.key = y.key => x.status = y.status

BridgeKeepsFaith == AnsweredIsProposed /\ PostsAgree
=============================================================================
