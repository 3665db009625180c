--------------------------- MODULE TelemetryQueue ---------------------------
(***************************************************************************)
(* TelemetryQueue (audit-guard/src/telemetry_queue.rs) drained into the    *)
(* drift sink (drift_consumer.rs).  Producer threads enqueue while one or  *)
(* more tasks run graceful_shutdown.                                       *)
(*                                                                         *)
(* enqueue() loads the shutting_down flag and then sends: two steps.  A    *)
(* shutdown stores the flag, locks the receiver for its whole duration,    *)
(* and alternates try_recv with a synchronous call of the sink.  The       *)
(* timeout is only looked at when the drain future yields, which is after  *)
(* an event has been written, never while the sink runs.                   *)
(***************************************************************************)
EXTENDS Integers, Sequences, FiniteSets, Functions

CONSTANTS
    Events,     \* one enqueue() call each
    Payload,    \* "foreign": another source; "malformed": does not parse or
                \* validate; "drift": a valid event of the anomaly detector
    Calls,      \* calls of graceful_shutdown
    NoEvent, NoCall

ASSUME QueueAssumption ==
    /\ Payload \in [Events -> {"foreign", "malformed", "drift"}]
    /\ NoEvent \notin Events
    /\ NoCall \notin Calls

VARIABLES
    producer,       \* producer[e]: where the enqueue() of e is
    shuttingDown,   \* the atomic flag
    queue,          \* the channel
    holder,         \* the call that holds the receiver's mutex
    calls,          \* calls[c]: the local variables of a graceful_shutdown
    delivered,      \* events the sink accepted, in order
    rejected,       \* events the sink refused
    ticket,         \* history: ticket[e] is the rank of e's send, or 0
    sends,          \* history: number of sends so far
    closedAt        \* history: number of sends when shutdown first began

vars == <<producer, shuttingDown, queue, holder, calls, delivered, rejected,
          ticket, sends, closedAt>>

Sent == {e \in Events : ticket[e] > 0}

-----------------------------------------------------------------------------
Init ==
    /\ producer = [e \in Events |-> "idle"]
    /\ shuttingDown = FALSE
    /\ queue = <<>>
    /\ holder = NoCall
    /\ calls = [c \in Calls |-> [pc |-> "idle", event |-> NoEvent, drained |-> 0,
                                 result |-> "none", remaining |-> 0]]
    /\ delivered = <<>>
    /\ rejected = {}
    /\ ticket = [e \in Events |-> 0]
    /\ sends = 0
    /\ closedAt = 0

(* enqueue(), first step: the flag is loaded. *)
EnqueueCheck(e) ==
    /\ producer[e] = "idle"
    /\ producer' = [producer EXCEPT ![e] = IF shuttingDown THEN "refused" ELSE "checked"]
    /\ UNCHANGED <<shuttingDown, queue, holder, calls, delivered, rejected, ticket, sends, closedAt>>

(* enqueue(), second step: the receiver lives as long as the queue, so the *)
(* send cannot fail.                                                       *)
EnqueueSend(e) ==
    /\ producer[e] = "checked"
    /\ producer' = [producer EXCEPT ![e] = "accepted"]
    /\ queue' = Append(queue, e)
    /\ ticket' = [ticket EXCEPT ![e] = sends + 1]
    /\ sends' = sends + 1
    /\ UNCHANGED <<shuttingDown, holder, calls, delivered, rejected, closedAt>>

-----------------------------------------------------------------------------
(* graceful_shutdown(): the flag is set ... *)
ShutdownBegin(c) ==
    /\ calls[c].pc = "idle"
    /\ shuttingDown' = TRUE
    /\ closedAt' = IF shuttingDown THEN closedAt ELSE sends
    /\ calls' = [calls EXCEPT ![c] = [calls[c] EXCEPT !.pc = "locking"]]
    /\ UNCHANGED <<producer, queue, holder, delivered, rejected, ticket, sends>>

(* ... and the receiver's mutex is awaited. *)
LockReceiver(c) ==
    /\ calls[c].pc = "locking"
    /\ holder = NoCall
    /\ holder' = c
    /\ calls' = [calls EXCEPT ![c] = [calls[c] EXCEPT !.pc = "draining"]]
    /\ UNCHANGED <<producer, shuttingDown, queue, delivered, rejected, ticket, sends, closedAt>>

\* Slip: the mutex guard outlives the call.
ReturnKeepsLock(c, result, remaining) ==
    /\ holder' = holder
    /\ calls' = [calls EXCEPT ![c] =
          [calls[c] EXCEPT !.pc = "returned", !.event = NoEvent, !.result = result,
                           !.remaining = remaining]]

(* The call returns and its mutex guard is dropped. *)
Return(c, result, remaining) ==
    /\ holder' = NoCall
    /\ calls' = [calls EXCEPT ![c] =
          [calls[c] EXCEPT !.pc = "returned", !.event = NoEvent, !.result = result,
                           !.remaining = remaining]]

\* Slip: the drain stops with the last event still in the channel.
TryRecvLeavesOne(c) ==
    /\ calls[c].pc = "draining"
    /\ \/ /\ Len(queue) > 1
          /\ calls' = [calls EXCEPT ![c] =
                [calls[c] EXCEPT !.pc = "sinking", !.event = Head(queue)]]
          /\ queue' = Tail(queue)
          /\ UNCHANGED holder
       \/ /\ Len(queue) <= 1
          /\ Return(c, "ok", 0)
          /\ UNCHANGED queue
    /\ UNCHANGED <<producer, shuttingDown, delivered, rejected, ticket, sends, closedAt>>

(* try_recv(): an event, handed to the sink at once, or the end of the     *)
(* drain.                                                                  *)
TryRecv(c) ==
    /\ calls[c].pc = "draining"
    /\ \/ /\ queue # <<>>
          /\ calls' = [calls EXCEPT ![c] =
                [calls[c] EXCEPT !.pc = "sinking", !.event = Head(queue)]]
          /\ queue' = Tail(queue)
          /\ UNCHANGED holder
       \/ /\ queue = <<>>
          /\ Return(c, "ok", 0)
          /\ UNCHANGED queue
    /\ UNCHANGED <<producer, shuttingDown, delivered, rejected, ticket, sends, closedAt>>

(* make_drift_sink: what the sink may answer.  Events of other sources are *)
(* accepted and ignored; for a valid drift event the handler decides.      *)
SinkAnswers(e) ==
    CASE Payload[e] = "foreign"   -> {"ok"}
      [] Payload[e] = "malformed" -> {"err"}
      [] Payload[e] = "drift"     -> {"ok", "err"}

(* The sink accepts: the event is counted and the drain yields. *)
SinkAccepts(c) ==
    /\ calls[c].pc = "sinking"
    /\ "ok" \in SinkAnswers(calls[c].event)
    /\ delivered' = Append(delivered, calls[c].event)
    /\ calls' = [calls EXCEPT ![c] =
          [calls[c] EXCEPT !.pc = "yielded", !.event = NoEvent,
                           !.drained = calls[c].drained + 1]]
    /\ UNCHANGED <<producer, shuttingDown, queue, holder, rejected, ticket, sends, closedAt>>

(* The sink refuses: the drain ends; the event was already received. *)
SinkRejects(c) ==
    /\ calls[c].pc = "sinking"
    /\ "err" \in SinkAnswers(calls[c].event)
    /\ rejected' = rejected \cup {calls[c].event}
    /\ Return(c, "sinkError", 0)
    /\ UNCHANGED <<producer, shuttingDown, queue, delivered, ticket, sends, closedAt>>

(* The task is polled again before the deadline. *)
Resume(c) ==
    /\ calls[c].pc = "yielded"
    /\ calls' = [calls EXCEPT ![c] = [calls[c] EXCEPT !.pc = "draining"]]
    /\ UNCHANGED <<producer, shuttingDown, queue, holder, delivered, rejected, ticket, sends, closedAt>>

\* Slip: the deadline interrupts the sink.
DrainTimeoutMidSink(c) ==
    /\ calls[c].pc \in {"yielded", "sinking"}
    /\ Return(c, "drainTimeout", Len(queue))
    /\ UNCHANGED <<producer, shuttingDown, queue, delivered, rejected, ticket, sends, closedAt>>

(* The deadline has passed when the drain yields. *)
DrainTimeout(c) ==
    /\ calls[c].pc = "yielded"
    /\ Return(c, "drainTimeout", Len(queue))
    /\ UNCHANGED <<producer, shuttingDown, queue, delivered, rejected, ticket, sends, closedAt>>

SinkReturns(c) == SinkAccepts(c) \/ SinkRejects(c)

Step(c) == LockReceiver(c) \/ TryRecv(c) \/ Resume(c) \/ DrainTimeout(c)

Next ==
    \/ \E e \in Events : EnqueueCheck(e) \/ EnqueueSend(e)
    \/ \E c \in Calls : ShutdownBegin(c) \/ Step(c) \/ SinkReturns(c)

SafetySpec == Init /\ [][Next]_vars

(* The runtime keeps polling the tasks; nothing is said of the sink. *)
TaskFairness == \A c \in Calls : WF_vars(Step(c))

(* ... and every call of the sink returns. *)
Spec == SafetySpec /\ TaskFairness /\ \A c \in Calls : WF_vars(SinkReturns(c))

-----------------------------------------------------------------------------
CallStates ==
    [pc : {"idle", "locking", "draining", "sinking", "yielded", "returned"},
     event : Events \cup {NoEvent}, drained : Nat,
     result : {"none", "ok", "sinkError", "drainTimeout"}, remaining : Nat]

TypeOK ==
    /\ producer \in [Events -> {"idle", "checked", "accepted", "refused"}]
    /\ shuttingDown \in BOOLEAN
    /\ queue \in Seq(Events)
    /\ holder \in Calls \cup {NoCall}
    /\ calls \in [Calls -> CallStates]
    /\ delivered \in Seq(Events)
    /\ rejected \subseteq Events
    /\ ticket \in [Events -> Nat]
    /\ sends \in Nat
    /\ closedAt \in Nat

Working == {c \in Calls : calls[c].pc \in {"draining", "sinking", "yielded"}}

InHand == {calls[c].event : c \in {d \in Calls : calls[d].pc = "sinking"}}

(* The receiver's mutex: however many shutdowns run, at most one drains,   *)
(* and it is the one that holds the receiver.                              *)
OneDrainer == \A c \in Calls : c \in Working <=> holder = c

(* No accepted event disappears: whatever the producers, the shutdowns and *)
(* the sink do, it is in the channel, in the sink's hands, delivered or    *)
(* refused by the sink, and in one of these places only.                   *)
Conservation ==
    /\ Sent = Range(queue) \cup InHand \cup Range(delivered) \cup rejected
    /\ (Range(queue) \cup InHand \cup Range(delivered)) \cap rejected = {}
    /\ (Range(queue) \cup InHand) \cap Range(delivered) = {}
    /\ Range(queue) \cap InHand = {}

(* Events reach the sink in the order they were sent, also across several  *)
(* shutdowns, and what waits was sent after what was delivered.            *)
DeliveredInOrder ==
    LET line == delivered \o queue
    IN  \A i, j \in DOMAIN line : i < j => ticket[line[i]] < ticket[line[j]]

(* Delivery is exactly once and in order: an accepted event is in one      *)
(* place only, and events leave in the order they were sent, whatever      *)
(* producers, shutdowns and the sink do.                                   *)
ExactlyOnceInOrder == Conservation /\ DeliveredInOrder

(* A shutdown that reports success has left nothing in the channel that    *)
(* was accepted before shutdown began.                                     *)
BacklogDrained ==
    (\E c \in Calls : calls[c].result = "ok") =>
        \A e \in Range(queue) : ticket[e] > closedAt

(* "Rejected once shutdown has begun": a drain that succeeded left an      *)
(* empty channel behind for good.                                          *)
NothingStranded == (\E c \in Calls : calls[c].result = "ok") => queue = <<>>

(* A shutdown comes back, with a count or an error. *)
ShutdownReturns ==
    \A c \in Calls : (calls[c].pc # "idle") ~> (calls[c].pc = "returned")
=============================================================================
