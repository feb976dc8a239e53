--------------------------- MODULE EnvelopeWorker ---------------------------
(***************************************************************************)
(* The control plane's worker: cycles of several processes over the two    *)
(* tables of envelopes (envelopeworker/postgres.go, delivery.go, jobs.go,  *)
(* composition/delivery.go).  A row of the outbox is sent to the tenant's  *)
(* destination, a job of the inbox becomes a proposal.  A process claims   *)
(* rows for a lease, works outside the transaction, and records the result *)
(* if its claim is still the current one.  Processes die, leases lapse,    *)
(* answers come late and payloads expire.                                  *)
(***************************************************************************)
EXTENDS Naturals, FiniteSets, FiniteSetsExt

CONSTANTS
    Outbound, Inbound,  \* the rows of the two tables
    Workers, MaxAttempts, BatchSize, None

\* What instances have to provide.
Bounds == MaxAttempts \in Nat \ {0} /\ BatchSize \in Nat \ {0} /\ Outbound \cap Inbound = {}

Rows == Outbound \cup Inbound

VARIABLES
    row,        \* [state, attempts, due, lapsed] of each row
    worker,     \* [phase, batch, result] of each process: claims are [row, attempt]
    payload,    \* inbox rows whose payload has not expired
    proposal,   \* inbox rows that became a proposal
    received,   \* outbox rows the destination has
    sends,      \* how often a row was sent
    acked       \* the claims whose send was acknowledged

tables == <<row, payload, proposal>>
remote == <<received, sends, acked>>
vars == <<tables, worker, remote>>

Idle == [phase |-> "idle", batch |-> {}, result |-> None]
Absent == [state |-> "absent", attempts |-> 0, due |-> FALSE, lapsed |-> FALSE]

\* Claimed rows are "delivering" in one table and "processing" in the other.
Ended == {"delivered", "processed", "dead-letter"}

-----------------------------------------------------------------------------
(* The rows.                                                               *)

\* Enqueue, or Accept with the trigger that creates the job of an envelope.
Enqueue(r) ==
    /\ row[r].state = "absent"
    /\ row' = [row EXCEPT ![r] = [state |-> "pending", attempts |-> 0, due |-> TRUE, lapsed |-> FALSE]]
    /\ payload' = IF r \in Inbound THEN payload \cup {r} ELSE payload
    /\ UNCHANGED <<worker, proposal, remote>>

\* Time: a retry falls due, a lease runs out, a payload expires.
BecomesDue(r) == /\ row[r].state = "pending" /\ ~row[r].due /\ row' = [row EXCEPT ![r].due = TRUE]
                 /\ UNCHANGED <<worker, payload, proposal, remote>>

LeaseLapses(r) == /\ row[r].state = "claimed" /\ ~row[r].lapsed /\ row' = [row EXCEPT ![r].lapsed = TRUE]
                  /\ UNCHANGED <<worker, payload, proposal, remote>>

ExpirePayload(r) == /\ r \in payload /\ payload' = payload \ {r}
                    /\ UNCHANGED <<row, worker, proposal, remote>>

-----------------------------------------------------------------------------
(* A cycle: the inbox, then the outbox.                                    *)

\* Mutant: a row whose worker died is left alone.
ClaimablePending(r) == row[r].state = "pending" /\ row[r].due

Claimable(r) == \/ row[r].state = "pending" /\ row[r].due
                \/ row[r].state = "claimed" /\ row[r].lapsed

\* A row without attempts left is given up before anything is claimed.
Exhausted(r) == /\ row[r].attempts >= MaxAttempts
                /\ row[r].state = "pending" \/ (row[r].state = "claimed" /\ row[r].lapsed)

Due(table) == {r \in table : Claimable(r) /\ ~Exhausted(r)}

Claims(w) == {c.row : c \in worker[w].batch}

\* ClaimDue and ClaimInbox count the attempt and start the lease.
Claim(w, from, table, to) ==
    /\ worker[w].phase = from
    /\ \E rows \in kSubset(Min({BatchSize, Cardinality(Due(table))}), Due(table)) :
        /\ row' = [r \in Rows |->
                     IF r \in rows THEN [state |-> "claimed", attempts |-> row[r].attempts + 1, due |-> FALSE, lapsed |-> FALSE]
                     ELSE IF r \in table /\ Exhausted(r) THEN [row[r] EXCEPT !.state = "dead-letter", !.due = FALSE, !.lapsed = FALSE]
                     ELSE row[r]]
        /\ worker' = [worker EXCEPT ![w] = [phase |-> to, batch |-> {[row |-> r, attempt |-> row[r].attempts + 1] : r \in rows},
                                            result |-> None]]
    /\ UNCHANGED <<payload, proposal, remote>>

ProcessInbox(w) == Claim(w, "idle", Inbound, "inbox")
RunTenant(w)    == /\ worker[w].batch = {} /\ worker[w].result = None
                   /\ Claim(w, "inbox", Outbound, "outbox")

\* The cycle is over; the next one is started by the service's ticker.
EndCycle(w) == /\ worker[w].phase = "outbox" /\ worker[w].batch = {} /\ worker' = [worker EXCEPT ![w] = Idle]
               /\ UNCHANGED <<tables, remote>>

Crash(w) == /\ worker[w] # Idle /\ worker' = [worker EXCEPT ![w] = Idle]
            /\ UNCHANGED <<tables, remote>>

\* The claim is the current one: the query's condition on state, attempts,
\* fence (raised with the attempts) and lease.
Current(c) == row[c.row].state = "claimed" /\ row[c.row].attempts = c.attempt /\ ~row[c.row].lapsed

\* An error of the record abandons the rest of the batch.
Recorded(w, c) == worker' = [worker EXCEPT ![w].batch = @ \ {c}, ![w].result = None]

Abandoned(w) == worker' = [worker EXCEPT ![w].batch = {}, ![w].result = None]

Retry(c) == IF c.attempt >= MaxAttempts THEN "dead-letter" ELSE "pending"

-----------------------------------------------------------------------------
(* The outbox: the send happens outside any transaction.                   *)

\* The destination may take the envelope and the answer be lost.
Send(w) ==
    /\ worker[w].phase = "outbox" /\ worker[w].result = None
    /\ \E c \in worker[w].batch, taken, answered \in BOOLEAN :
        /\ answered => taken
        /\ received' = IF taken THEN received \cup {c.row} ELSE received
        /\ sends' = [sends EXCEPT ![c.row] = @ + 1]
        /\ acked' = IF answered THEN acked \cup {c} ELSE acked
        /\ worker' = [worker EXCEPT ![w].result = [claim |-> c, ok |-> answered]]
    /\ UNCHANGED tables

\* MarkDelivered, Reschedule and MarkDeadLetter.
Mark(w) ==
    LET c == worker[w].result.claim IN
    /\ worker[w].phase = "outbox" /\ worker[w].result # None
    /\ IF Current(c)
       THEN /\ row' = [row EXCEPT ![c.row].state = IF worker[w].result.ok THEN "delivered" ELSE Retry(c)]
            /\ Recorded(w, c)
       ELSE Abandoned(w) /\ UNCHANGED row
    /\ UNCHANGED <<payload, proposal, remote>>

-----------------------------------------------------------------------------
(* The inbox: the proposal and the end of the job are one transaction.     *)

CompleteInbox(w, c) ==
    /\ worker[w].phase = "inbox" /\ c \in worker[w].batch
    /\ Current(c) /\ c.row \in payload
    /\ proposal' = proposal \cup {c.row} /\ row' = [row EXCEPT ![c.row].state = "processed"]
    /\ Recorded(w, c) /\ UNCHANGED <<payload, remote>>

\* Without trusted keys, payload or lease the job fails; without the lease that
\* cannot be recorded either.
FailInbox(w, c) ==
    /\ worker[w].phase = "inbox" /\ c \in worker[w].batch
    /\ IF Current(c) THEN row' = [row EXCEPT ![c.row].state = Retry(c)] /\ Recorded(w, c)
                     ELSE UNCHANGED row /\ Abandoned(w)
    /\ UNCHANGED <<payload, proposal, remote>>

-----------------------------------------------------------------------------
Init == /\ row = [r \in Rows |-> Absent] /\ worker = [w \in Workers |-> Idle]
        /\ payload = {} /\ proposal = {} /\ received = {} /\ sends = [r \in Outbound |-> 0] /\ acked = {}

Time == \E r \in Rows : BecomesDue(r) \/ LeaseLapses(r)

Step(w) == \/ RunTenant(w) \/ EndCycle(w) \/ Send(w) \/ Mark(w)
           \/ \E c \in worker[w].batch : CompleteInbox(w, c) \/ FailInbox(w, c)

Next == \/ Time
        \/ \E r \in Rows : Enqueue(r) \/ ExpirePayload(r)
        \/ \E w \in Workers : ProcessInbox(w) \/ Step(w) \/ Crash(w)

Spec == Init /\ [][Next]_vars

\* Time passes, and some worker starts and finishes cycles now and then; any
\* of them may die at any point, as often as it likes.
FairSpec == /\ Spec /\ \A r \in Rows : WF_vars(BecomesDue(r)) /\ WF_vars(LeaseLapses(r))
            /\ \A w \in Workers : WF_vars(ProcessInbox(w)) /\ SF_vars(RunTenant(w)) /\ WF_vars(Step(w))

-----------------------------------------------------------------------------
(* Properties.                                                             *)

TypeOK ==
    /\ row \in [Rows -> [state : {"absent", "pending", "claimed"} \cup Ended, attempts : 0 .. MaxAttempts,
                         due : BOOLEAN, lapsed : BOOLEAN]]
    /\ \A w \in Workers : /\ worker[w].phase \in {"idle", "inbox", "outbox"}
                          /\ Claims(w) \subseteq Rows
    /\ payload \subseteq Inbound /\ proposal \subseteq Inbound /\ received \subseteq Outbound

\* A row is sent at most MaxAttempts times, whoever dies and whichever answer
\* comes late: the claim counts before the send.
SendsBounded == \A r \in Outbound : sends[r] <= MaxAttempts /\ sends[r] <= row[r].attempts

\* A delivered row was acknowledged in its last attempt, not in one whose
\* lease ran out and which another worker repeats.
DeliveredByItsAttempt == \A r \in Outbound :
    row[r].state = "delivered" => r \in received /\ [row |-> r, attempt |-> row[r].attempts] \in acked

\* A proposal and the end of its job stand or fall together.
ProposedIffProcessed == \A r \in Inbound : r \in proposal <=> row[r].state = "processed"

\* No row is given up before its attempts are used.
GivenUpWhenExhausted == \A r \in Rows : row[r].state = "dead-letter" => row[r].attempts = MaxAttempts

\* What has ended stays as it ended, whatever late workers record.
EndIsFinal == [][\A r \in Rows : row[r].state \in Ended => row'[r] = row[r]]_vars

\* A row that entered a table ends, even when every attempt kills its worker.
EveryRowEnds == \A r \in Rows : (row[r].state = "pending") ~> (row[r].state \in Ended)

=============================================================================
