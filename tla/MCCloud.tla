------------------------------ MODULE MCCloud -------------------------------
(***************************************************************************)
(* What is exchanged with others: the two ends of the synchronisation with *)
(* the service, the service's worker, the GitHub App bridge, the MCP       *)
(* server and a device's login.  They share no variable, so each is        *)
(* explored with the others at rest: `part` is the one that moves.         *)
(***************************************************************************)
EXTENDS CloudProofs, TLC, Integers

CONSTANTS w1, w2

VARIABLES part, row, worker, payload, proposal, received, sends, acked

iVars == <<files, disk, trusted, copy, index, reserved, pending, fallback, writing, answered, barred, opens, failures>>
wVars == <<row, worker, payload, proposal, received, sends, acked>>
gVars == <<deliveries, proposals, checks, acks, bindings, config, tenant, remote, told, posted, op>>
sVars == <<profile, frames, eof, drains, auth, cancelled, hand, read, owed, initialized, main, calls, encoding, open, watch,
           timer, failed, answers, ran>>
dVars == <<time, standing, approval, flow, bearers, net, keychain, metadata, proc, asks>>

-----------------------------------------------------------------------------
\* A project is connected, disconnected and connected again while its task
\* changes; or the service publishes more than a page holds.
Connects  == published' = 0 /\ crashes' <= 1
Publishes == generation' <= 1 /\ goal' <= 1 /\ task' = 0

Env(i, k, s, n) == [id |-> i, key |-> k, signer |-> s, seq |-> n]

\* Envelopes of two signers that collide on an event, on a key and on a
\* sequence.
Colliding == {Env(1, 1, "s", 1), Env(2, 2, "s", 2), Env(3, 3, "s", 1), Env(1, 4, "t", 1), Env(4, 2, "t", 2)}

\* Two workers share an outbound row and an inbound one.
W == INSTANCE EnvelopeWorker WITH
    Outbound <- {"out"}, Inbound <- {"in"}, Workers <- {w1, w2}, MaxAttempts <- 3, BatchSize <- 2

\* Two payloads, one of which JSON escapes.
Issues == {[repo |-> "r", text |-> x] : x \in {"plain", "markup"}}

\* Two deliveries of one repository; or two statuses of one that is assigned
\* to another project; or one status while two repositories come and go.
Configured(Rs, Ps) == \A r \in Repos : config'[r] \in (IF r \in Rs THEN Ps ELSE {}) \cup {"none"}
Delivered == checks' = checks /\ Configured({"r"}, Projects) /\ remote'.checks["s"] = "write"
Posted    == deliveries' = deliveries /\ Configured({"r"}, Projects) /\ remote'.checks["s"] = "write"
Installed == /\ deliveries' = deliveries /\ Configured(Repos, {"x"}) /\ checks'[2] = G!Nothing
             /\ checks'[1] # G!Nothing => checks'[1].state = "queued"

\* Every kind of frame, under the plain profile; or tools of every profile, and
\* one that does not exist, for a client that reads its answers.
Asks(tools) == \A n \in DOMAIN frames' : frames'[n].kind = "tools/call" => frames'[n].tool \in tools
Framed == profile = "plain" /\ Asks({"identity"})
Scoped == /\ Asks(Tools \ {"identity"}) /\ drains' /\ ~cancelled'
          /\ \A n \in DOMAIN frames' : frames'[n].kind \in {"initialize", "tools/call"}

Alike == Permutations({w1, w2})

ASSUME Bounds /\ I!Bounds /\ W!Bounds /\ G!Bounds /\ N!Bounds /\ D!Bounds

-----------------------------------------------------------------------------
AnyInit ==
    /\ Init /\ I!Init /\ W!Init /\ G!Init /\ N!Init /\ D!Init
    /\ part \in {"sync", "pages", "inbox", "worker", "delivered", "posted", "installed", "framed", "scoped", "device"}
    /\ \A r \in Repos : CASE part \in {"delivered", "posted"} -> r = "s" => config[r] = "none"
                        [] part = "installed"               -> config[r] # "y"
                        [] OTHER                            -> config[r] = "x"
    /\ part # "scoped" => profile = "plain"
    /\ part # "inbox" => disk.cursor = 0

AnyNext ==
    \/ /\ \/ part = "sync" /\ Next /\ Connects
          \/ part = "pages" /\ Next /\ Publishes
       /\ UNCHANGED <<part, iVars, wVars, gVars, sVars, dVars>>
    \/ part = "inbox" /\ I!Next /\ UNCHANGED <<part, vars, wVars, gVars, sVars, dVars>>
    \/ part = "worker" /\ W!Next /\ UNCHANGED <<part, vars, iVars, gVars, sVars, dVars>>
    \/ /\ \/ part = "delivered" /\ G!Next /\ Delivered
          \/ part = "posted" /\ G!Next /\ Posted
          \/ part = "installed" /\ G!Next /\ Installed
       /\ UNCHANGED <<part, vars, iVars, wVars, sVars, dVars>>
    \/ /\ \/ part = "framed" /\ N!Next /\ Framed
          \/ part = "scoped" /\ N!Next /\ Scoped
       /\ UNCHANGED <<part, vars, iVars, wVars, gVars, dVars>>
    \/ part = "device" /\ D!Next /\ UNCHANGED <<part, vars, iVars, wVars, gVars, sVars>>

AnySpec == AnyInit /\ [][AnyNext]_<<part, vars, iVars, wVars, gVars, sVars, dVars>>

=============================================================================
