--------------------------- MODULE IngestionGuard ---------------------------
(***************************************************************************)
(* TelemetryIngestionGuard (telemetry-ingestion-guard.ts): a lazily        *)
(* refilled token bucket in front of a bounded queue that drops its oldest *)
(* event.  The anomaly detector sends every metric through it.             *)
(*                                                                         *)
(* Time is in milliseconds and tokens are counted in thousandths, as the   *)
(* bucket gains refillRatePerSecond / 1000 tokens a millisecond; the unit  *)
(* is the constant Unit.  Date.now() is the wall clock and may be set      *)
(* back.  An event is named by its rank among the accepted ones.           *)
(***************************************************************************)
EXTENDS Integers, Sequences

CONSTANTS
    Capacity,           \* bucketCapacity
    RefillRate,         \* refillRatePerSecond
    Unit,               \* milliseconds per second
    MaxQueueDepth,      \* maxQueueDepth; not validated by the constructor
    MaxTime,            \* bound on the clock
    MaxElapsed,         \* bound on the time that passes in all
    MaxEvents           \* bound on the number of ingest() calls

(* The constructor of TokenBucket throws unless both are positive. *)
ASSUME GuardAssumption ==
    /\ Capacity \in Nat \ {0}
    /\ RefillRate \in Nat \ {0}
    /\ Unit \in Nat \ {0}
    /\ MaxQueueDepth \in Nat
    /\ MaxTime \in Nat /\ MaxElapsed \in Nat /\ MaxEvents \in Nat

VARIABLES
    now,                \* Date.now()
    tokens, lastRefillTime,
    queue,              \* the pending events, oldest first
    totalAccepted, totalRateLimited, totalDropped, totalMalformed,
    elapsed,            \* history: time the clock has moved forward so far
    handedOut,          \* history: number of events drain() has returned
    newestHandedOut,    \* history: the newest of them, 0 for none
    mark                \* history: elapsed and totalAccepted at some moment

bucket == <<tokens, lastRefillTime>>
counters == <<totalAccepted, totalRateLimited, totalDropped, totalMalformed>>
handed == <<handedOut, newestHandedOut>>
guardVars == <<now, bucket, queue, counters, elapsed, handed, mark>>

Smaller(a, b) == IF a <= b THEN a ELSE b

\* Slip: a clock that was set back counts as time passed.
SinceRefillAbsolute ==
    IF now >= lastRefillTime THEN now - lastRefillTime ELSE lastRefillTime - now

(* Math.max(0, now - lastRefillTime) *)
SinceRefill == IF now >= lastRefillTime THEN now - lastRefillTime ELSE 0

(* What refill() makes of the bucket. *)
Refilled == Smaller(Capacity * Unit, tokens + RefillRate * SinceRefill)

-----------------------------------------------------------------------------
GuardInit ==
    /\ now \in 0 .. MaxTime
    /\ tokens = Capacity * Unit
    /\ lastRefillTime = now
    /\ queue = <<>>
    /\ totalAccepted = 0 /\ totalRateLimited = 0
    /\ totalDropped = 0 /\ totalMalformed = 0
    /\ elapsed = 0
    /\ handedOut = 0 /\ newestHandedOut = 0
    /\ mark = [elapsed |-> 0, accepted |-> 0]

Offered == totalAccepted + totalRateLimited + totalMalformed

(* ingest() of an event that fails validateEvent; the bucket is not touched. *)
IngestMalformed ==
    /\ Offered < MaxEvents
    /\ totalMalformed' = totalMalformed + 1
    /\ UNCHANGED <<now, bucket, queue, totalAccepted, totalRateLimited, totalDropped,
                   elapsed, handed, mark>>

(* ingest() of a valid event that finds less than one token. *)
IngestRateLimited ==
    /\ Offered < MaxEvents
    /\ Refilled < Unit
    /\ tokens' = Refilled
    /\ lastRefillTime' = now
    /\ totalRateLimited' = totalRateLimited + 1
    /\ UNCHANGED <<now, queue, totalAccepted, totalDropped, totalMalformed,
                   elapsed, handed, mark>>

(* queue.shift() when the queue is full; shifting an empty array does      *)
(* nothing.                                                                *)
RoomForOne(q) == IF Len(q) >= MaxQueueDepth /\ q # <<>> THEN Tail(q) ELSE q

\* Slip: the depth is compared after the push.
DroppedByLate(q) == IF Len(q) + 1 >= MaxQueueDepth THEN 1 ELSE 0

(* _totalDropped is incremented also when there was nothing to shift. *)
DroppedBy(q) == IF Len(q) >= MaxQueueDepth THEN 1 ELSE 0

(* ingest() of a valid event that gets a token: ACCEPTED, or               *)
(* QUEUE_FULL_DROP when the oldest event made room for it.                 *)
IngestAccepted ==
    /\ Offered < MaxEvents
    /\ Refilled >= Unit
    /\ tokens' = Refilled - Unit
    /\ lastRefillTime' = now
    /\ queue' = Append(RoomForOne(queue), totalAccepted + 1)
    /\ totalDropped' = totalDropped + DroppedBy(queue)
    /\ totalAccepted' = totalAccepted + 1
    /\ UNCHANGED <<now, totalRateLimited, totalMalformed, elapsed, handed, mark>>

(* drain(count) *)
Drain(count) ==
    LET n == Smaller(count, Len(queue))
    IN  /\ n > 0
        /\ queue' = SubSeq(queue, n + 1, Len(queue))
        /\ handedOut' = handedOut + n
        /\ newestHandedOut' = queue[n]
        /\ UNCHANGED <<now, bucket, counters, elapsed, mark>>

(* The wall clock moves, in either direction. *)
Clock(t) ==
    LET forward == IF t >= now THEN t - now ELSE 0
    IN  /\ t # now
        /\ elapsed + forward <= MaxElapsed
        /\ now' = t
        /\ elapsed' = elapsed + forward
        /\ UNCHANGED <<bucket, queue, counters, handed, mark>>

(* An observer starts to count. *)
SetMark ==
    /\ mark' = [elapsed |-> elapsed, accepted |-> totalAccepted]
    /\ UNCHANGED <<now, bucket, queue, counters, elapsed, handed>>

(* _reset(), and as well a restart of the process: everything is in memory. *)
(* What was counted and who was counting is gone.                           *)
Reset ==
    /\ tokens' = Capacity * Unit
    /\ lastRefillTime' = now
    /\ queue' = <<>>
    /\ totalAccepted' = 0 /\ totalRateLimited' = 0
    /\ totalDropped' = 0 /\ totalMalformed' = 0
    /\ handedOut' = 0 /\ newestHandedOut' = 0
    /\ mark' = [elapsed |-> elapsed, accepted |-> 0]
    /\ UNCHANGED <<now, elapsed>>

GuardNext ==
    \/ IngestMalformed
    \/ IngestRateLimited
    \/ IngestAccepted
    \/ \E count \in 1 .. MaxQueueDepth + 1 : Drain(count)
    \/ \E t \in 0 .. MaxTime : Clock(t)
    \/ SetMark
    \/ Reset

GuardSpec == GuardInit /\ [][GuardNext]_guardVars

-----------------------------------------------------------------------------
GuardTypeOK ==
    /\ now \in Nat /\ elapsed \in Nat
    /\ tokens \in 0 .. Capacity * Unit /\ lastRefillTime \in Nat
    /\ queue \in Seq(Nat)
    /\ totalAccepted \in Nat /\ totalRateLimited \in Nat
    /\ totalDropped \in Nat /\ totalMalformed \in Nat
    /\ handedOut \in Nat /\ newestHandedOut \in Nat
    /\ mark \in [elapsed : Nat, accepted : Nat]

(* In every interval, whenever it begins, ingest() accepts at most one     *)
(* bucket of events plus the refill of the time that passed, however the   *)
(* wall clock was set back and forth: no millisecond is refilled twice     *)
(* unless the clock really runs over it twice.                             *)
AdmissionBounded ==
    (totalAccepted - mark.accepted) * Unit
        <= Capacity * Unit + RefillRate * (elapsed - mark.elapsed)

(* Every accepted event is pending, handed out or counted as dropped, and  *)
(* the queue keeps to its limit; with a limit of 0 it still holds one.     *)
Ledger ==
    /\ Len(queue) <= MaxQueueDepth \/ Len(queue) = 1
    /\ MaxQueueDepth > 0 =>
          totalAccepted = Len(queue) + handedOut + totalDropped

(* Backpressure costs the oldest events only: the queue holds the most     *)
(* recently accepted events in order, and nothing pending is older than    *)
(* what a consumer was given.                                              *)
NewestKept ==
    /\ \A i \in 1 .. Len(queue) : queue[i] = totalAccepted - Len(queue) + i
    /\ newestHandedOut <= totalAccepted - Len(queue)

(* A consumer can rely on the queue under any load: what drain() gives it  *)
(* next is the most recent unbroken run of accepted events, and the        *)
(* counters tell exactly how many it will never see.                       *)
QueueFaithful == Ledger /\ NewestKept
=============================================================================
