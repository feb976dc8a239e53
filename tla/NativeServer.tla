---------------------------- MODULE NativeServer ----------------------------
(***************************************************************************)
(* One connection of the native governance server over stdio               *)
(* (internal/mcp/native/protocol.go, tools.go, orchestration.go): a reader  *)
(* goroutine hands frames to the main loop, tool calls run in goroutines of *)
(* their own behind a fixed number of slots, responses share one encoder    *)
(* behind a mutex, and two watchers close the streams at cancellation and   *)
(* some time after the end of input.                                       *)
(*                                                                         *)
(* The client is external: it sends frames, may stop reading, and closes    *)
(* its end.  A write blocks while the client does not read, and fails once  *)
(* stdout is closed.  What a tool does is modelled by the governance        *)
(* modules; here a call ends, and its session may be revoked at any time.   *)
(***************************************************************************)
EXTENDS Integers, Sequences, FiniteSets

CONSTANTS Kinds,      \* the kinds of frames the client sends
          Tools,      \* the tools it asks for
          Profiles,   \* the profiles the owner may have selected
          Slots,      \* calls at once: 16 in the code
          MaxFrames   \* bound on the frames of a connection

VARIABLES
    profile,      \* the selected profile
    frames,       \* what the client sent: [kind, tool]
    eof,          \* has it closed its end?
    drains,       \* does it read what the server writes?
    auth,         \* does the pinned session authenticate?
    cancelled,    \* is the server's context done?
    hand,         \* the reader: 0, the frame it offers, or Ended
    read,         \* the number of frames scanned
    pending,      \* pendingFrames
    initialized,
    main,         \* the loop: [pc, frame], pc "select", "write", "encode", "finish", "returned"
    calls,        \* frame -> "none", "running", "write", "encode", "ended"
    writing,      \* writeMu: 0 when free, Main, or the call's frame
    open,         \* is stdout open?
    watch,        \* are the watchers running?
    timer,        \* the drain interval: "off", "armed", "fired"
    failed,       \* writeErrors holds an error
    answers,      \* history: how often each frame was answered
    ran           \* history: the tools that ran

client == <<frames, eof, drains, auth, cancelled>>
reader == <<hand, read>>
loop == <<initialized, main>>
encoder == <<writing, open, failed, answers>>
vars == <<profile, client, reader, pending, loop, calls, encoder, watch, timer, ran>>

Ended == -1
Main == -1

Bounds == /\ Kinds \subseteq {"invalid", "notification", "initialize", "ping", "tools/list", "tools/call"}
          /\ Profiles \subseteq {"plain", "runner", "review", "controller", "bridge", "worker"}
          /\ Slots \in Nat \ {0} /\ MaxFrames \in Nat

-----------------------------------------------------------------------------
(* The tools of a profile. *)

Reads == {"identity", "workspace_status", "task_list", "task_get", "get_policy_status"}
Work == {"register_attempt", "acquire_lease", "renew_lease", "release_lease", "publish_revision", "submit_evidence"}
Verifies == {"request_verification", "get_verification_status", "cancel_verification"}
Reviews == {"propose_review", "evaluate_review"}

orchestrationReads == Reads \cup {"get_orchestration_host_status"}
Dispatches == {"get_dispatch_status", "get_dispatch_lifecycle"}
orchestrationRoles(role) ==
    CASE role = "controller" -> {"get_dispatch_routing", "plan_swarm", "start_loop", "get_loop_status", "step_loop",
                                 "reconcile_loop", "stop_loop", "cancel_dispatch"} \cup Dispatches
      [] role = "bridge"     -> {"correlate_dispatch", "observe_dispatch", "acknowledge_cancellation"} \cup Dispatches
      [] role = "worker"     -> Work \cup {"acknowledge_dispatch"} \cup Dispatches
      [] OTHER               -> {}
Orchestrates == {"controller", "bridge", "worker"}

(* What tools/list shows. *)
catalog(p) ==
    CASE p \in Orchestrates -> orchestrationReads \cup orchestrationRoles(p)
      [] p = "review"       -> Reads \cup Reviews
      [] p = "plain"        -> Reads \cup Work \cup {"task_brief", "ready_frontier"}
      [] p = "runner"       -> Reads \cup Work \cup {"task_brief", "ready_frontier"} \cup Verifies

(* The tools that have arguments, hence the names the server knows. *)
arguments == Reads \cup Work \cup Verifies \cup Reviews \cup {"task_brief", "ready_frontier"} \cup orchestrationReads
                   \cup UNION {orchestrationRoles(r) : r \in Orchestrates}

orchestrationToolAllowed(p, tool) == tool \in orchestrationReads \cup orchestrationRoles(p)

(* The tools whose arguments orchestrationCall handles itself. *)
orchestrationCall(tool) ==
    tool \in ((UNION {orchestrationRoles(r) : r \in Orchestrates}) \ Work) \cup {"get_orchestration_host_status"}

(* MUTANT of ToolAllowed: a role's own list is not asked for. *)
ToolAllowedUnscoped(p, tool) ==
    /\ p = "review" => tool \in Reads \cup Reviews

(* The early refusals of call: a review profile and an orchestration role have *)
(* their own lists.                                                        *)
ToolAllowed(p, tool) ==
    /\ p = "review" => tool \in Reads \cup Reviews
    /\ p \in Orchestrates => orchestrationToolAllowed(p, tool)

(* call: what comes out of the switch.  An unknown tool, and one whose profile  *)
(* is absent, is refused.                                                  *)
call(p, tool) ==
    /\ ToolAllowed(p, tool) /\ tool \in arguments
    /\ orchestrationCall(tool) => p \in Orchestrates
    /\ tool \in Verifies => p = "runner"
    /\ tool \in Reviews => p = "review"

-----------------------------------------------------------------------------
Init ==
    /\ profile \in Profiles
    /\ frames = <<>> /\ eof = FALSE /\ drains = TRUE /\ auth = TRUE /\ cancelled = FALSE
    /\ hand = 0 /\ read = 0 /\ pending = 0
    /\ initialized = FALSE /\ main = [pc |-> "select", frame |-> 0]
    /\ calls = [n \in 1..MaxFrames |-> "none"]
    /\ writing = 0 /\ open = TRUE /\ failed = FALSE
    /\ watch = TRUE /\ timer = "off"
    /\ answers = [n \in 1..MaxFrames |-> 0] /\ ran = {}

(* The client sends a frame; of several tools it asks only in a call. *)
Send ==
    /\ ~eof /\ Len(frames) < MaxFrames
    /\ \E k \in Kinds, t \in Tools :
          /\ k # "tools/call" => t = CHOOSE u \in Tools : TRUE
          /\ frames' = Append(frames, [kind |-> k, tool |-> t])
    /\ UNCHANGED <<profile, eof, drains, auth, cancelled, reader, pending, loop, calls, encoder, watch, timer, ran>>

ClientChanges ==
    /\ \/ ~eof /\ eof' = TRUE /\ UNCHANGED <<drains, auth, cancelled>>
       \/ drains' = ~drains /\ UNCHANGED <<eof, auth, cancelled>>
       \/ auth /\ auth' = FALSE /\ UNCHANGED <<eof, drains, cancelled>>
       \/ ~cancelled /\ cancelled' = TRUE /\ UNCHANGED <<eof, drains, auth>>
    /\ UNCHANGED <<profile, frames, reader, pending, loop, calls, encoder, watch, timer, ran>>

-----------------------------------------------------------------------------
(* The reader: a frame counts as pending from before it is offered. *)
Scan ==
    /\ hand = 0 /\ read < Len(frames)
    /\ hand' = read + 1 /\ read' = read + 1
    /\ pending' = pending + 1
    /\ UNCHANGED <<profile, client, loop, calls, encoder, watch, timer, ran>>

(* The input ends, or was closed by the watcher or by the returning server.   *)
ScanEnds ==
    /\ hand = 0
    /\ (eof /\ read = Len(frames)) \/ ~watch \/ (cancelled /\ ~open)
    /\ hand' = Ended
    /\ UNCHANGED <<profile, client, read, pending, loop, calls, encoder, watch, timer, ran>>

(* stopRead: the server has returned and the offered frame is dropped. *)
StopRead ==
    /\ main.pc = "returned" /\ hand > 0
    /\ hand' = Ended /\ pending' = pending - 1
    /\ UNCHANGED <<profile, client, read, loop, calls, encoder, watch, timer, ran>>

Running == {n \in DOMAIN calls : calls[n] \in {"running", "write", "encode"}}

(* The loop takes the offered frame.  Every branch with an answer goes through *)
(* the encoder; a notification has none and ends the connection when the      *)
(* session is gone; a call takes a slot or is refused.                     *)
Take ==
    /\ main.pc = "select" /\ hand > 0
    /\ hand' = 0
    /\ LET n == hand
           kind == frames[n].kind
           answer == main' = [pc |-> "write", frame |-> n]
           starts == auth /\ initialized /\ kind = "tools/call" /\ Cardinality(Running) < Slots
       IN  CASE kind = "notification" ->
                  /\ pending' = pending - 1
                  /\ IF auth THEN UNCHANGED <<main, watch>>
                             ELSE main' = [pc |-> "finish", frame |-> 0] /\ watch' = FALSE
                  /\ UNCHANGED <<initialized, calls>>
             [] starts ->
                  /\ calls' = [calls EXCEPT ![n] = "running"]
                  /\ UNCHANGED <<pending, main, initialized, watch>>
             [] kind # "notification" /\ ~starts ->
                  /\ answer
                  /\ initialized' = (initialized \/ (auth /\ kind = "initialize"))
                  /\ UNCHANGED <<pending, calls, watch>>
    /\ UNCHANGED <<profile, client, read, encoder, timer, ran>>

(* The main select: a write error, cancellation, or the end of the input.  The *)
(* server finishes before its deferred calls stop the watchers.            *)
Leave ==
    /\ main.pc = "select"
    /\ failed \/ cancelled \/ hand = Ended
    /\ main' = [pc |-> "finish", frame |-> 0]
    /\ UNCHANGED <<profile, client, reader, pending, initialized, calls, encoder, watch, timer, ran>>

(* finish closes the jobs and waits for the calls, but for at most six        *)
(* seconds: it may return while calls still run.                           *)
Finish ==
    /\ main.pc = "finish"
    /\ main' = [pc |-> "returned", frame |-> 0]
    /\ watch' = FALSE
    /\ UNCHANGED <<profile, client, reader, pending, initialized, calls, encoder, timer, ran>>

-----------------------------------------------------------------------------
(* encode: under writeMu, blocked while the client does not read. *)
Lock ==
    /\ writing = 0
    /\ \/ /\ main.pc = "write" /\ writing' = Main
          /\ main' = [main EXCEPT !.pc = "encode"] /\ UNCHANGED calls
       \/ \E n \in DOMAIN calls :
             /\ calls[n] = "write" /\ writing' = n
             /\ calls' = [calls EXCEPT ![n] = "encode"] /\ UNCHANGED main
    /\ UNCHANGED <<profile, client, reader, pending, initialized, open, failed, answers, watch, timer, ran>>

(* The main loop's answer is out, or its write failed and the server returns.  *)
MainEncodes ==
    /\ main.pc = "encode"
    /\ \/ /\ open /\ drains
          /\ answers' = [answers EXCEPT ![main.frame] = @ + 1]
          /\ pending' = pending - 1
          /\ main' = [pc |-> "select", frame |-> 0]
          /\ UNCHANGED <<failed, watch>>
       \/ /\ ~open
          /\ failed' = TRUE /\ watch' = FALSE
          /\ main' = [pc |-> "finish", frame |-> 0]
          /\ UNCHANGED <<answers, pending>>
    /\ writing' = 0
    /\ UNCHANGED <<profile, client, reader, initialized, calls, open, timer, ran>>

(* A call's goroutine: the tool runs, its answer is written, and slot, pending *)
(* frame and wait group are given back whether the write succeeded or not.   *)
CallRuns(n) ==
    /\ calls[n] = "running"
    /\ calls' = [calls EXCEPT ![n] = "write"]
    /\ ran' = IF auth /\ call(profile, frames[n].tool) THEN ran \cup {frames[n].tool} ELSE ran
    /\ UNCHANGED <<profile, client, reader, pending, loop, encoder, watch, timer>>

CallEncodes(n) ==
    /\ calls[n] = "encode"
    /\ \/ open /\ drains /\ answers' = [answers EXCEPT ![n] = @ + 1] /\ UNCHANGED failed
       \/ ~open /\ failed' = TRUE /\ UNCHANGED answers
    /\ writing' = 0 /\ pending' = pending - 1
    /\ calls' = [calls EXCEPT ![n] = "ended"]
    /\ UNCHANGED <<profile, client, reader, loop, open, watch, timer, ran>>

-----------------------------------------------------------------------------
(* Cancellation closes the owned streams. *)
WatchContext ==
    /\ watch /\ cancelled /\ open
    /\ open' = FALSE
    /\ UNCHANGED <<profile, client, reader, pending, loop, calls, writing, failed, answers, watch, timer, ran>>

(* After the end of input queued answers have a short interval; then stdout is  *)
(* closed if a frame is still pending.                                     *)
ArmTimer ==
    /\ watch /\ hand = Ended /\ timer = "off"
    /\ timer' = "armed"
    /\ UNCHANGED <<profile, client, reader, pending, loop, calls, encoder, watch, ran>>

(* MUTANT of Drained: only calls count, not the answer the main loop is writing. *)
DrainedForCalls ==
    /\ watch /\ timer = "armed"
    /\ timer' = "fired"
    /\ open' = (open /\ Running = {})
    /\ UNCHANGED <<profile, client, reader, pending, loop, calls, writing, failed, answers, watch, ran>>

Drained ==
    /\ watch /\ timer = "armed"
    /\ timer' = "fired"
    /\ open' = (open /\ pending = 0)
    /\ UNCHANGED <<profile, client, reader, pending, loop, calls, writing, failed, answers, watch, ran>>

Server ==
    \/ Scan \/ ScanEnds \/ StopRead \/ Take \/ Leave \/ Finish
    \/ Lock \/ MainEncodes
    \/ \E n \in 1..MaxFrames : CallRuns(n) \/ CallEncodes(n)
    \/ WatchContext \/ ArmTimer \/ Drained

Next == Send \/ ClientChanges \/ Server

Spec == Init /\ [][Next]_vars

(* Goroutines are scheduled and timers fire; the client owes nothing. *)
Fairness ==
    /\ WF_vars(Scan) /\ WF_vars(ScanEnds) /\ WF_vars(Take) /\ WF_vars(Leave) /\ WF_vars(Finish)
    /\ WF_vars(Lock) /\ WF_vars(MainEncodes)
    /\ \A n \in 1..MaxFrames : WF_vars(CallRuns(n)) /\ WF_vars(CallEncodes(n))
    /\ WF_vars(WatchContext) /\ WF_vars(ArmTimer) /\ WF_vars(Drained)

FairSpec == Spec /\ Fairness

-----------------------------------------------------------------------------
(* The frames scanned whose handling has not ended: the pending count is      *)
(* theirs until a failed write makes the server return, so the drain watcher  *)
(* cuts off exactly a connection that owes an answer.  No frame is answered   *)
(* twice, and no tool outside the profile's catalogue runs.                 *)
Unfinished == {n \in 1..read : n = hand \/ n = main.frame \/ n \in Running}

FramesAccountedFor ==
    /\ ~failed => pending = Cardinality(Unfinished)
    /\ \A n \in 1..MaxFrames : answers[n] <= 1
    /\ ran \subseteq catalog(profile)

(* Once the input has ended or the context is cancelled the server returns,    *)
(* also when the client reads nothing more.                                *)
ServerReturns == (hand = Ended \/ cancelled) ~> (main.pc = "returned")

(* The stronger promise the code makes: once the client has closed its end    *)
(* the server returns.  A reader that still offers a frame to a loop blocked  *)
(* in a write never gets to the end of the input.                          *)
EofReturns == eof ~> (main.pc = "returned")
=============================================================================
