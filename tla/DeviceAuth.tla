----------------------------- MODULE DeviceAuth -----------------------------
(***************************************************************************)
(* A device's login, refresh and logout: the service (deviceoauth, the     *)
(* flow and session rows of tenantrepo) and the client that keeps its      *)
(* credentials in the native store (deviceidentity).  One login, hence one *)
(* flow and one device.  A token, whoami or revoke request is one database *)
(* transaction under the flow row's lock; requests and answers are lost,   *)
(* repeated or late, and a client process dies between any two steps.      *)
(* Session n is issued together with refresh credential n; credential 0 is *)
(* the device code.                                                        *)
(***************************************************************************)
EXTENDS Naturals, Sequences, FiniteSets

CONSTANTS
    Processes,      \* the processes of the client that may run at a time
    None,
    Lifetime,       \* of a session
    Safety,         \* how much earlier the client takes a session for expired
    Window,         \* of the device code
    MaxInterval, MaxTime, MaxSessions, MaxRequests

VARIABLES
    now,
    live,           \* of "member" and "device": what is active in the tenant
    approval,       \* the user's answer at the provider
    flow,           \* the row of controlplane_device_auth, or None
    sessions,       \* the rows of controlplane_device_sessions
    net,            \* requests on their way to the service
    keychain,       \* the credential record of the native store, or None
    metadata,       \* the profile on disk: when its session expires, or None
    proc,           \* what each process of the client does
    requests        \* how many request ids were drawn

server == <<live, approval, flow, sessions>>
local  == <<keychain, metadata>>
vars   == <<now, server, net, local, proc, requests>>

Idle == [op |-> "idle"]

\* An answer of the service: a code, and the session it hands out.
Say(code) == [code |-> code, session |-> 0]
Hand(i)   == [code |-> "ok", session |-> i]
Answers   == {Say(c) : c \in {"begun", "revoked", "access_denied", "expired_token", "slow_down", "authorization_pending"}}
                 \cup {Hand(i) : i \in 1 .. MaxSessions}

\* The rows and records: the flow and the response it keeps, a session, and the
\* credentials of the native store.
Response == [request : Nat, credential : Nat, session : Nat]
Flow     == [expires : Nat, nextPoll : Nat, interval : Nat, account : {None, "account"}, revoked : BOOLEAN,
             revokeRequest : Nat \cup {None}, refresh : Nat, response : Response \cup {None}, sessions : SUBSET Nat]
Secret   == [refresh : Nat \ {0}, access : Nat, pending : Nat \cup {None}, at : Nat, expires : Nat]

\* What instances have to provide.
Bounds == /\ Safety \in Nat /\ Lifetime \in Nat /\ Lifetime > Safety /\ Window \in Nat \ {0}
          /\ MaxInterval \in Nat /\ MaxTime \in Nat /\ MaxSessions \in Nat /\ MaxRequests \in Nat
          /\ None \notin Nat \cup {"account"} \cup Answers \cup Response \cup Flow \cup Secret

-----------------------------------------------------------------------------
(* The service.                                                            *)

\* validateSnapshot, of Authorize: the session, its device and its member.
validateSnapshot(i) == sessions[i].active /\ now < sessions[i].expires /\ live = {"member", "device"}
Who(i) == i \in 1 .. Len(sessions) /\ validateSnapshot(i)

\* CreateAuth: the flow of one request id is stored once.
CreateAuth == IF flow # None THEN flow
              ELSE [expires |-> now + Window, nextPoll |-> 0, interval |-> 1, account |-> None, revoked |-> FALSE,
                    revokeRequest |-> None, refresh |-> 0, response |-> None, sessions |-> {}]

\* HTTPProvider.Poll, and the binding of the subject to an account.
Poll == CASE approval = "none"     -> "authorization_pending"
          [] approval = "slow"     -> "slow_down"
          [] approval = "approved" -> "bound"
          [] OTHER                 -> "access_denied"

\* The replay of the one response the flow keeps: the exact request, while the
\* session it handed out is good.
Replay(m) == IF flow.response.credential = m.credential /\ Who(flow.response.session)
             THEN Hand(flow.response.session) ELSE Say("access_denied")

\* What Token makes of a poll of the device code: the flow that is stored, and
\* the answer, "bound" when the session may be issued.
PollFlow(f) ==
    IF f.account # None \/ now >= f.expires THEN [flow |-> f, answer |-> "expired_token"]
    ELSE IF now < f.nextPoll THEN [flow |-> [f EXCEPT !.interval = IF @ < MaxInterval THEN @ + 1 ELSE @], answer |-> "slow_down"]
    ELSE LET polled == [f EXCEPT !.nextPoll = now + f.interval] IN
         CASE Poll = "authorization_pending" -> [flow |-> polled, answer |-> Poll]
           [] Poll = "slow_down" -> [flow |-> [polled EXCEPT !.interval = IF @ < MaxInterval THEN @ + 1 ELSE @], answer |-> Poll]
           [] Poll = "bound"     -> [flow |-> [polled EXCEPT !.account = "account"], answer |-> Poll]
           [] OTHER              -> [flow |-> f, answer |-> Poll]

\* registerAuthDevice: the device is registered with the first session, and
\* one that is no longer active is never reactivated.
registerAuthDevice == "device" \in live

\* Mutant: an earlier session is not revoked when the next one is issued.
IssueBeside(f, m) ==
    /\ sessions' = Append(sessions, [active |-> TRUE, expires |-> now + Lifetime])
    /\ LET n == Len(sessions) + 1 IN
       flow' = [f EXCEPT !.refresh = n, !.sessions = {n}, !.response = [request |-> m.request, credential |-> m.credential, session |-> n]]

\* UpdateAuth with a SessionChange: the earlier sessions are revoked, the new
\* one is stored, and the flow keeps this response only.
Issue(f, m) ==
    LET n == Len(sessions) + 1 IN
    /\ sessions' = Append([i \in 1 .. Len(sessions) |-> [sessions[i] EXCEPT !.active = @ /\ i \notin f.sessions]],
                          [active |-> TRUE, expires |-> now + Lifetime])
    /\ flow' = [f EXCEPT !.refresh = n, !.sessions = {n},
                         !.response = [request |-> m.request, credential |-> m.credential, session |-> n]]

\* Token refuses a flow that is gone or revoked, before anything else.
Refused(m) == flow = None \/ flow.revoked

Denied == UNCHANGED <<flow, sessions>>

\* Token, for the request m; answer is what is sent back.
Token(m, answer) ==
    IF Refused(m) THEN answer = Say("access_denied") /\ Denied
    ELSE IF flow.response # None /\ flow.response.request = m.request THEN answer = Replay(m) /\ Denied
    ELSE IF m.credential # flow.refresh THEN answer = Say("access_denied") /\ Denied
    ELSE LET polled == IF m.kind = "poll" THEN PollFlow(flow) ELSE [flow |-> flow, answer |-> "bound"] IN
         IF polled.answer # "bound" THEN answer = Say(polled.answer) /\ flow' = polled.flow /\ UNCHANGED sessions
         ELSE IF "member" \notin live \/ ~ registerAuthDevice THEN answer = Say("access_denied") /\ Denied
         ELSE Len(sessions) < MaxSessions /\ answer = Hand(Len(sessions) + 1) /\ Issue(polled.flow, m)

\* Revoke: once, with the current refresh credential; repeated for its own id.
Revoke(m, answer) ==
    IF flow = None THEN answer = Say("access_denied") /\ Denied
    ELSE IF flow.revoked THEN answer = Say(IF flow.revokeRequest = m.request THEN "revoked" ELSE "access_denied") /\ Denied
    ELSE IF m.credential # flow.refresh THEN answer = Say("access_denied") /\ Denied
    ELSE /\ answer = Say("revoked")
         /\ flow' = [flow EXCEPT !.revoked = TRUE, !.revokeRequest = m.request]
         /\ sessions' = [i \in 1 .. Len(sessions) |-> [sessions[i] EXCEPT !.active = @ /\ i \notin flow.sessions]]

Begin(m, answer) == answer = Say("begun") /\ flow' = CreateAuth /\ UNCHANGED sessions

\* deviceHTTP.handle: a request arrives; it may arrive again, and its answer
\* reaches the client only while that process still waits for it.
Handle(m) ==
    /\ \E answer \in Answers :
           /\ CASE m.kind = "begin"  -> Begin(m, answer)
                [] m.kind = "revoke" -> Revoke(m, answer)
                [] OTHER             -> Token(m, answer)
           /\ proc' \in {proc, IF proc[m.from].op \in {"login", "refresh", "logout"} /\ proc[m.from].request = m.request /\ proc[m.from].answer = None
                                  /\ proc[m.from].at = m.kind
                               THEN [proc EXCEPT ![m.from].answer = answer] ELSE proc}
    /\ net' \in {net, net \ {m}}
    /\ UNCHANGED <<now, live, approval, local, requests>>

\* The user answers the provider's challenge; the tenant suspends the member
\* or the device.
Decide(a) == approval # a /\ approval \in {"none", "slow"} /\ approval' = a /\ UNCHANGED <<now, live, flow, sessions, net, local, proc, requests>>
Suspend(x) == x \in live /\ live' = live \ {x} /\ UNCHANGED <<now, approval, flow, sessions, net, local, proc, requests>>
Tick == now < MaxTime /\ now' = now + 1 /\ UNCHANGED <<server, net, local, proc, requests>>

-----------------------------------------------------------------------------
(* The client.                                                             *)

Send(p, op, kind, credential, request, started) ==
    /\ net' = net \cup {[kind |-> kind, from |-> p, credential |-> credential, request |-> request]}
    /\ proc' = [proc EXCEPT ![p] = [op |-> op, at |-> kind, request |-> request, answer |-> None, started |-> started]]

\* loginWithStore: the challenge, then one request id for every poll.
Login(p) == /\ proc[p] = Idle /\ requests = 0 /\ requests' = 2
            /\ Send(p, "login", "begin", 0, 1, now) /\ UNCHANGED <<now, server, local>>
PollAgain(p) == /\ proc[p].op = "login" /\ proc[p].answer # None /\ proc[p].answer.code \in {"begun", "authorization_pending", "slow_down"}
                /\ Send(p, "login", "poll", 0, 2, now) /\ UNCHANGED <<now, server, local, requests>>

\* What Authenticate stores before it refreshes: the request id and when.
Pending(secret, id) == [secret EXCEPT !.pending = id, !.at = now]

\* Open and credentials: the profile and the record of the native store.
Open        == metadata # None
credentials == keychain # None

\* Authenticate, up to its first write: the credentials are read, and the
\* profile is repaired from them; a session that is good needs no refresh.
Authenticate(p) ==
    /\ proc[p] = Idle /\ Open /\ credentials
    /\ metadata' = keychain.expires
    /\ IF keychain.pending = None /\ now < keychain.expires
       THEN UNCHANGED <<proc, requests>>
       ELSE /\ proc' = [proc EXCEPT ![p] = [op |-> "store", secret |-> keychain, id |-> IF keychain.pending = None THEN requests + 1 ELSE keychain.pending]]
            /\ IF keychain.pending = None THEN requests < MaxRequests /\ requests' = requests + 1 ELSE UNCHANGED requests
    /\ UNCHANGED <<now, server, net, keychain>>

\* The id is stored, and the refresh request sent.
SendRefresh(p) ==
    /\ proc[p].op = "store"
    /\ LET secret == IF proc[p].secret.pending = None THEN Pending(proc[p].secret, proc[p].id) ELSE proc[p].secret IN
       /\ keychain' = IF proc[p].secret.pending = None THEN secret ELSE keychain
       /\ Send(p, "refresh", "token", secret.refresh, proc[p].id, IF secret.pending = None THEN now ELSE secret.at)
    /\ UNCHANGED <<now, server, metadata, requests>>

\* install: an answer that comes too late is not stored; otherwise the native
\* store first, the profile after it.
Install(p) ==
    /\ proc[p].op \in {"login", "refresh"} /\ proc[p].answer # None /\ proc[p].answer.code = "ok"
    /\ IF now < proc[p].started + Lifetime - Safety
       THEN /\ keychain' = [refresh |-> proc[p].answer.session, access |-> proc[p].answer.session, pending |-> None, at |-> 0,
                            expires |-> proc[p].started + Lifetime - Safety]
            /\ proc' = [proc EXCEPT ![p] = [op |-> "profile", expires |-> proc[p].started + Lifetime - Safety]]
       ELSE UNCHANGED keychain /\ proc' = [proc EXCEPT ![p] = Idle]
    /\ UNCHANGED <<now, server, net, metadata, requests>>
SaveMetadata(p) == /\ proc[p].op = "profile" /\ metadata' \in {metadata, proc[p].expires} /\ proc' = [proc EXCEPT ![p] = Idle]
                   /\ UNCHANGED <<now, server, net, keychain, requests>>

\* Logout: one attempt to revoke, then the local removal whatever came of it.
Logout(p) ==
    /\ proc[p] = Idle /\ keychain # None /\ requests < MaxRequests /\ requests' = requests + 1
    /\ Send(p, "logout", "revoke", keychain.refresh, requests', now) /\ UNCHANGED <<now, server, local>>
Remove(p) ==
    /\ proc[p].op = "logout"
    /\ keychain' = None /\ metadata' = None
    /\ proc' = [proc EXCEPT ![p] = IF proc[p].answer = Say("revoked") THEN [op |-> "logged_out"] ELSE [op |-> "remote_revoke_unknown"]]
    /\ UNCHANGED <<now, server, net, requests>>

\* The request fails, or is refused; the process dies.
Abandon(p) == /\ proc[p].op \in {"login", "refresh", "store", "profile", "logout"} /\ proc' = [proc EXCEPT ![p] = Idle]
              /\ UNCHANGED <<now, server, net, local, requests>>

-----------------------------------------------------------------------------
Init == /\ now = 0 /\ live = {"member", "device"} /\ approval = "none" /\ flow = None /\ sessions = <<>>
        /\ net = {} /\ keychain = None /\ metadata = None /\ proc = [p \in Processes |-> Idle] /\ requests = 0

Next == \/ \E m \in net : Handle(m)
        \/ \E a \in {"slow", "approved", "denied"} : Decide(a)
        \/ \E x \in {"member", "device"} : Suspend(x)
        \/ Tick
        \/ \E p \in Processes : \/ Login(p) \/ PollAgain(p) \/ Authenticate(p) \/ SendRefresh(p) \/ Install(p)
                                \/ SaveMetadata(p) \/ Logout(p) \/ Remove(p) \/ Abandon(p)

Spec == Init /\ [][Next]_vars

-----------------------------------------------------------------------------
\* A device is never locked out by a lost answer, a repeated or late request or
\* a crash: the refresh credential it has stored is the current one, or the
\* service still keeps the answer to the request it has stored beside it.
NeverLockedOut ==
    keychain # None /\ ~ flow.revoked =>
        \/ keychain.refresh = flow.refresh
        \/ flow.response.credential = keychain.refresh /\ flow.response.request = keychain.pending

\* At most one bearer of the device is accepted, and none after a logout that
\* reported the remote revocation, whatever request arrives late.
OneBearer ==
    /\ \A i, j \in 1 .. Len(sessions) : Who(i) /\ Who(j) => i = j
    /\ \A p \in Processes : proc[p].op = "logged_out" => \A i \in 1 .. Len(sessions) : ~ Who(i)

=============================================================================
