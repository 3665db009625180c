------------------------ MODULE TelemetryQueueProofs ------------------------
(***************************************************************************)
(* Proofs about TelemetryQueue, for any number of producers and shutdowns. *)
(* The inductive invariant says where each sent event is and that tickets  *)
(* increase along delivered, then the event in the sink's hands, then the  *)
(* channel.                                                                *)
(***************************************************************************)
EXTENDS TelemetryQueue, TLAPS

Sinking(c) == calls[c].pc = "sinking"

Queued(e) == \E i \in 1 .. Len(queue) : queue[i] = e

Held(e) == \E c \in Calls : Sinking(c) /\ calls[c].event = e

Written(e) == \E i \in 1 .. Len(delivered) : delivered[i] = e

(* Tickets are the ranks of the sends; none before shutdown is missing. *)
TicketsOK ==
    /\ \A e \in Events : ticket[e] <= sends
    /\ \A e \in Events : ticket[e] > 0 <=> producer[e] = "accepted"
    /\ closedAt <= sends

(* Before the flag is set no call has started. *)
IdleBefore ==
    ~shuttingDown => \A c \in Calls : calls[c].pc = "idle" /\ calls[c].result = "none"

HandsOK == \A c \in Calls : Sinking(c) => calls[c].event \in Events

QueueOrdered ==
    \A i, j \in 1 .. Len(queue) : i < j => ticket[queue[i]] < ticket[queue[j]]

DeliveredOrdered ==
    \A i, j \in 1 .. Len(delivered) : i < j => ticket[delivered[i]] < ticket[delivered[j]]

DeliveredBeforeQueue ==
    \A i \in 1 .. Len(delivered), j \in 1 .. Len(queue) :
        ticket[delivered[i]] < ticket[queue[j]]

HandBetween ==
    \A c \in Calls : Sinking(c) =>
        /\ \A i \in 1 .. Len(delivered) : ticket[delivered[i]] < ticket[calls[c].event]
        /\ \A j \in 1 .. Len(queue) : ticket[calls[c].event] < ticket[queue[j]]

Ordered == QueueOrdered /\ DeliveredOrdered /\ DeliveredBeforeQueue /\ HandBetween

Placed ==
    \A e \in Events :
        /\ ticket[e] > 0 <=> Queued(e) \/ Held(e) \/ Written(e) \/ e \in rejected
        /\ e \in rejected => ~Queued(e) /\ ~Held(e) /\ ~Written(e)

Backlog ==
    (\E c \in Calls : calls[c].result = "ok") =>
        \A i \in 1 .. Len(queue) : ticket[queue[i]] > closedAt

IInv ==
    TypeOK /\ OneDrainer /\ TicketsOK /\ IdleBefore /\ HandsOK /\ Ordered /\ Placed /\ Backlog

-----------------------------------------------------------------------------
(* The channel is empty and nobody drains. *)
LEMMA InitIInv == Init => IInv
  <1> SUFFICES ASSUME Init PROVE IInv
    OBVIOUS
  <1> USE QueueAssumption
  <1>1. TypeOK
    <2>1. calls \in [Calls -> CallStates]
      BY DEF Init, CallStates
    <2>2. queue \in Seq(Events) /\ delivered \in Seq(Events)
      BY DEF Init
    <2>3. ticket \in [Events -> Nat] /\ sends \in Nat /\ closedAt \in Nat
      BY DEF Init
    <2>4. QED
      BY <2>1, <2>2, <2>3 DEF Init, TypeOK
  <1>2. OneDrainer /\ TicketsOK /\ IdleBefore /\ HandsOK
    <2>1. \A c \in Calls : calls[c].pc = "idle" /\ calls[c].result = "none"
      BY DEF Init
    <2>2. OneDrainer
      BY <2>1 DEF Init, OneDrainer, Working
    <2>3. TicketsOK
      BY DEF Init, TicketsOK
    <2>4. QED
      BY <2>1, <2>2, <2>3 DEF IdleBefore, HandsOK, Sinking
  <1>3. Ordered
    BY DEF Init, Ordered, QueueOrdered, DeliveredOrdered, DeliveredBeforeQueue,
           HandBetween, Sinking
  <1>4. Placed
    BY DEF Init, Placed, Queued, Held, Written, Sinking
  <1>5. Backlog
    BY DEF Init, Backlog
  <1>6. QED
    BY <1>1, <1>2, <1>3, <1>4, <1>5 DEF IInv

(* The test of the flag. *)
LEMMA CheckIInv == ASSUME NEW e \in Events, IInv, EnqueueCheck(e) PROVE IInv'
  <1>1. TypeOK' /\ TicketsOK'
    BY DEF IInv, TypeOK, TicketsOK, EnqueueCheck
  <1>2. OneDrainer' /\ IdleBefore' /\ HandsOK' /\ Backlog'
    BY DEF IInv, OneDrainer, Working, IdleBefore, HandsOK, Sinking, Backlog, EnqueueCheck
  <1>3. Ordered'
    BY DEF IInv, Ordered, QueueOrdered, DeliveredOrdered, DeliveredBeforeQueue,
           HandBetween, Sinking, EnqueueCheck
  <1>4. Placed'
    BY DEF IInv, Placed, Queued, Held, Written, Sinking, EnqueueCheck
  <1>5. QED
    BY <1>1, <1>2, <1>3, <1>4 DEF IInv

(* The send, however long after the test. *)
LEMMA SendIInv == ASSUME NEW e \in Events, IInv, EnqueueSend(e) PROVE IInv'
  <1>0. /\ queue \in Seq(Events) /\ ticket \in [Events -> Nat] /\ sends \in Nat
        /\ delivered \in Seq(Events) /\ closedAt \in Nat /\ closedAt <= sends
        /\ ticket[e] = 0
    BY DEF IInv, TypeOK, TicketsOK, EnqueueSend
  <1>1. /\ queue' = Append(queue, e) /\ ticket' = [ticket EXCEPT ![e] = sends + 1]
        /\ calls' = calls /\ delivered' = delivered /\ rejected' = rejected
        /\ sends' = sends + 1 /\ closedAt' = closedAt
    BY DEF EnqueueSend
  <1>2. TypeOK' /\ TicketsOK'
    <2>1. queue' \in Seq(Events)
      BY <1>0, <1>1
    <2>2. ticket' \in [Events -> Nat] /\ sends' \in Nat
      BY <1>0, <1>1
    <2>3. TicketsOK'
      BY <1>0, <1>1 DEF IInv, TypeOK, TicketsOK, EnqueueSend
    <2>4. producer' \in [Events -> {"idle", "checked", "accepted", "refused"}]
      BY DEF IInv, TypeOK, EnqueueSend
    <2>5. QED
      BY <2>1, <2>2, <2>3, <2>4 DEF IInv, TypeOK, EnqueueSend
  <1>3. OneDrainer' /\ IdleBefore' /\ HandsOK'
    BY DEF IInv, OneDrainer, Working, IdleBefore, HandsOK, Sinking, EnqueueSend
  <1>4. /\ Len(queue') = Len(queue) + 1 /\ queue'[Len(queue) + 1] = e
        /\ \A i \in 1 .. Len(queue) : queue'[i] = queue[i] /\ queue[i] \in Events
        /\ Len(queue) \in Nat
    BY <1>0, <1>1
  <1>5. \A f \in Events : ticket[f] > 0 => ticket'[f] = ticket[f] /\ f # e
    BY <1>0, <1>1
  <1>6. ticket'[e] = sends + 1 /\ \A f \in Events : ticket[f] < sends + 1
    BY <1>0, <1>1 DEF IInv, TicketsOK
  <1>7. /\ \A i \in 1 .. Len(queue) : ticket[queue[i]] > 0
        /\ \A i \in 1 .. Len(delivered) : delivered[i] \in Events /\ ticket[delivered[i]] > 0
        /\ \A c \in Calls : Sinking(c) => calls[c].event \in Events /\ ticket[calls[c].event] > 0
    <2>1. \A f \in Events : Queued(f) \/ Held(f) \/ Written(f) => ticket[f] > 0
      BY DEF IInv, Placed
    <2>2. QED
      BY <1>0, <1>4, <2>1 DEF IInv, HandsOK, Queued, Held, Written
  <1>8. Ordered'
    <2>1. QueueOrdered'
      <3> SUFFICES ASSUME NEW i \in 1 .. Len(queue'), NEW j \in 1 .. Len(queue'), i < j
                   PROVE  ticket'[queue'[i]] < ticket'[queue'[j]]
        BY DEF QueueOrdered
      <3>1. i \in 1 .. Len(queue)
        BY <1>4
      <3>2. CASE j = Len(queue) + 1
        BY <3>1, <3>2, <1>4, <1>5, <1>6, <1>7
      <3>3. CASE j \in 1 .. Len(queue)
        BY <3>1, <3>3, <1>4, <1>5, <1>7 DEF IInv, Ordered, QueueOrdered
      <3>4. QED
        BY <3>2, <3>3, <1>4
    <2>2. DeliveredOrdered'
      BY <1>1, <1>5, <1>7 DEF IInv, Ordered, DeliveredOrdered
    <2>3. DeliveredBeforeQueue'
      <3> SUFFICES ASSUME NEW i \in 1 .. Len(delivered), NEW j \in 1 .. Len(queue')
                   PROVE  ticket'[delivered[i]] < ticket'[queue'[j]]
        BY <1>1 DEF DeliveredBeforeQueue
      <3>1. CASE j = Len(queue) + 1
        BY <3>1, <1>4, <1>5, <1>6, <1>7
      <3>2. CASE j \in 1 .. Len(queue)
        BY <3>2, <1>4, <1>5, <1>7 DEF IInv, Ordered, DeliveredBeforeQueue
      <3>3. QED
        BY <3>1, <3>2, <1>4
    <2>4. HandBetween'
      <3> SUFFICES ASSUME NEW c \in Calls, Sinking(c)
                   PROVE  /\ \A i \in 1 .. Len(delivered) :
                                ticket'[delivered[i]] < ticket'[calls[c].event]
                          /\ \A j \in 1 .. Len(queue') :
                                ticket'[calls[c].event] < ticket'[queue'[j]]
        BY <1>1 DEF HandBetween, Sinking
      <3>1. \A i \in 1 .. Len(delivered) : ticket'[delivered[i]] < ticket'[calls[c].event]
        BY <1>5, <1>7 DEF IInv, Ordered, HandBetween
      <3>2. ASSUME NEW j \in 1 .. Len(queue')
            PROVE  ticket'[calls[c].event] < ticket'[queue'[j]]
        <4>1. CASE j = Len(queue) + 1
          BY <4>1, <1>4, <1>5, <1>6, <1>7
        <4>2. CASE j \in 1 .. Len(queue)
          BY <4>2, <1>4, <1>5, <1>7 DEF IInv, Ordered, HandBetween
        <4>3. QED
          BY <4>1, <4>2, <1>4
      <3>3. QED
        BY <3>1, <3>2
    <2>5. QED
      BY <2>1, <2>2, <2>3, <2>4 DEF Ordered
  <1>9. Placed'
    <2>1. \A f \in Events : Queued(f)' <=> Queued(f) \/ f = e
      BY <1>4 DEF Queued
    <2>2. \A f \in Events : (Held(f)' <=> Held(f)) /\ (Written(f)' <=> Written(f))
      BY <1>1 DEF Held, Written, Sinking
    <2>3. \A f \in Events : ticket'[f] > 0 <=> ticket[f] > 0 \/ f = e
      BY <1>0, <1>1
    <2>4. ~Queued(e) /\ ~Held(e) /\ ~Written(e) /\ e \notin rejected
      BY <1>0 DEF IInv, Placed
    <2>5. QED
      BY <1>1, <2>1, <2>2, <2>3, <2>4 DEF IInv, Placed
  <1>10. Backlog'
    <2> SUFFICES ASSUME NEW c \in Calls, calls[c].result = "ok", NEW i \in 1 .. Len(queue')
                 PROVE  ticket'[queue'[i]] > closedAt
      BY <1>1 DEF Backlog
    <2>1. CASE i = Len(queue) + 1
      BY <2>1, <1>0, <1>4, <1>6
    <2>2. CASE i \in 1 .. Len(queue)
      BY <2>2, <1>4, <1>5, <1>7 DEF IInv, Backlog
    <2>3. QED
      BY <2>1, <2>2, <1>4
  <1>11. QED
    BY <1>2, <1>3, <1>8, <1>9, <1>10 DEF IInv
-----------------------------------------------------------------------------
(* What the steps of a shutdown that handle no event have in common. *)
Moves(c, pc, result) ==
    /\ calls' \in [Calls -> CallStates]
    /\ \A d \in Calls : d # c => calls'[d] = calls[d]
    /\ calls'[c].pc = pc /\ calls'[c].result = result
    /\ UNCHANGED <<producer, queue, delivered, rejected, ticket, sends>>

(* Such a step keeps every event where it is. *)
LEMMA MovesKeepsPlaces ==
    ASSUME NEW c \in Calls, NEW pc, NEW result, IInv, Moves(c, pc, result),
           ~Sinking(c), pc # "sinking"
    PROVE  HandsOK' /\ Ordered' /\ Placed'
  <1>1. \A d \in Calls : /\ Sinking(d)' <=> Sinking(d)
                         /\ Sinking(d) => calls'[d].event = calls[d].event
    BY DEF Moves, Sinking
  <1>2. HandsOK'
    BY <1>1 DEF IInv, HandsOK
  <1>3. Ordered'
    BY <1>1 DEF IInv, Moves, Ordered, QueueOrdered, DeliveredOrdered,
                DeliveredBeforeQueue, HandBetween
  <1>4. \A e : (Queued(e)' <=> Queued(e)) /\ (Written(e)' <=> Written(e))
    BY DEF Moves, Queued, Written
  <1>5. \A e : Held(e)' <=> Held(e)
    BY <1>1 DEF Held
  <1>6. Placed'
    BY <1>4, <1>5 DEF IInv, Moves, Placed
  <1>7. QED
    BY <1>2, <1>3, <1>6

(* graceful_shutdown() sets the flag. *)
LEMMA BeginIInv == ASSUME NEW c \in Calls, IInv, ShutdownBegin(c) PROVE IInv'
  <1>1. Moves(c, "locking", calls[c].result) /\ ~Sinking(c)
    BY DEF IInv, TypeOK, CallStates, ShutdownBegin, Moves, Sinking
  <1>2. HandsOK' /\ Ordered' /\ Placed'
    BY <1>1, MovesKeepsPlaces
  <1>3. TypeOK' /\ TicketsOK'
    BY <1>1 DEF IInv, TypeOK, TicketsOK, ShutdownBegin, Moves
  <1>4. OneDrainer'
    BY <1>1 DEF IInv, OneDrainer, Working, ShutdownBegin, Moves
  <1>5. IdleBefore'
    BY DEF ShutdownBegin, IdleBefore
  <1>6. Backlog'
    <2>1. \A d \in Calls : calls'[d].result = calls[d].result
      BY <1>1 DEF Moves
    <2>2. CASE shuttingDown
      BY <2>1, <2>2 DEF IInv, Backlog, ShutdownBegin
    <2>3. CASE ~shuttingDown
      BY <2>1, <2>3 DEF IInv, IdleBefore, Backlog
    <2>4. QED
      BY <2>2, <2>3
  <1>7. QED
    BY <1>2, <1>3, <1>4, <1>5, <1>6 DEF IInv

(* One drainer gets the receiver. *)
LEMMA LockIInv == ASSUME NEW c \in Calls, IInv, LockReceiver(c) PROVE IInv'
  <1>1. Moves(c, "draining", calls[c].result) /\ ~Sinking(c)
    BY DEF IInv, TypeOK, CallStates, LockReceiver, Moves, Sinking
  <1>2. HandsOK' /\ Ordered' /\ Placed'
    BY <1>1, MovesKeepsPlaces
  <1>3. TypeOK' /\ TicketsOK' /\ IdleBefore' /\ Backlog'
    BY <1>1 DEF IInv, TypeOK, TicketsOK, IdleBefore, Backlog, LockReceiver, Moves
  <1>4. OneDrainer'
    <2>1. holder' = c /\ \A d \in Calls : d # c => holder # d /\ calls'[d] = calls[d]
      BY <1>1, QueueAssumption DEF LockReceiver, Moves
    <2>2. QED
      BY <1>1, <2>1 DEF IInv, OneDrainer, Working, Moves
  <1>5. QED
    BY <1>2, <1>3, <1>4 DEF IInv

(* A drainer that yielded goes on. *)
LEMMA ResumeIInv == ASSUME NEW c \in Calls, IInv, Resume(c) PROVE IInv'
  <1>1. Moves(c, "draining", calls[c].result) /\ ~Sinking(c)
    BY DEF IInv, TypeOK, CallStates, Resume, Moves, Sinking
  <1>2. HandsOK' /\ Ordered' /\ Placed'
    BY <1>1, MovesKeepsPlaces
  <1>3. TypeOK' /\ TicketsOK' /\ IdleBefore' /\ Backlog'
    BY <1>1 DEF IInv, TypeOK, TicketsOK, IdleBefore, Backlog, Resume, Moves
  <1>4. OneDrainer'
    BY <1>1 DEF IInv, OneDrainer, Working, Moves, Resume
  <1>5. QED
    BY <1>2, <1>3, <1>4 DEF IInv

(* A call that returns gives the receiver back. *)
LEMMA ReturnFrees ==
    ASSUME NEW c \in Calls, NEW result \in {"ok", "sinkError", "drainTimeout"},
           NEW n \in Nat, IInv, c \in Working, Return(c, result, n)
    PROVE  /\ OneDrainer' /\ shuttingDown /\ holder' = NoCall
           /\ calls' \in [Calls -> CallStates]
           /\ \A d \in Calls : d # c => calls'[d] = calls[d] /\ ~Sinking(d)
           /\ calls'[c].pc = "returned" /\ calls'[c].result = result
  <1>1. /\ calls' \in [Calls -> CallStates]
        /\ \A d \in Calls : d # c => calls'[d] = calls[d]
        /\ calls'[c].pc = "returned" /\ calls'[c].result = result
        /\ holder' = NoCall
    BY DEF IInv, TypeOK, CallStates, Return
  <1>2. holder = c /\ \A d \in Calls : d # c => d \notin Working
    BY DEF IInv, OneDrainer
  <1>3. OneDrainer'
    BY <1>1, <1>2, QueueAssumption DEF OneDrainer, Working
  <1>4. \A d \in Calls : d # c => ~Sinking(d)
    BY <1>2 DEF Working, Sinking
  <1>5. shuttingDown
    BY DEF IInv, IdleBefore, TypeOK, Working
  <1>6. QED
    BY <1>1, <1>3, <1>4, <1>5

(* The drain is given up where it yields. *)
LEMMA TimeoutIInv == ASSUME NEW c \in Calls, IInv, DrainTimeout(c) PROVE IInv'
  <1>0. Len(queue) \in Nat /\ c \in Working /\ ~Sinking(c)
    BY DEF IInv, TypeOK, DrainTimeout, Working, Sinking
  <1>1. /\ OneDrainer' /\ holder' = NoCall
        /\ Moves(c, "returned", "drainTimeout") /\ shuttingDown
    BY <1>0, ReturnFrees DEF DrainTimeout, Moves
  <1>2. HandsOK' /\ Ordered' /\ Placed'
    BY <1>0, <1>1, MovesKeepsPlaces
  <1>3. TypeOK' /\ TicketsOK' /\ Backlog'
    BY <1>1 DEF IInv, TypeOK, TicketsOK, Backlog, DrainTimeout, Moves
  <1>4. IdleBefore'
    BY <1>1 DEF IdleBefore, DrainTimeout
  <1>5. QED
    BY <1>1, <1>2, <1>3, <1>4 DEF IInv

(* An event moves from the channel into the drainer's hand. *)
LEMMA RecvIInv == ASSUME NEW c \in Calls, IInv, TryRecv(c) PROVE IInv'
  <1>0. /\ c \in Working /\ ~Sinking(c) /\ queue \in Seq(Events)
        /\ delivered \in Seq(Events) /\ ticket \in [Events -> Nat]
    BY DEF IInv, TypeOK, TryRecv, Working, Sinking
  <1>1. CASE queue = <<>> /\ Return(c, "ok", 0) /\ queue' = queue
    <2>1. OneDrainer' /\ holder' = NoCall /\ Moves(c, "returned", "ok") /\ shuttingDown
      BY <1>0, <1>1, ReturnFrees DEF TryRecv, Moves
    <2>2. HandsOK' /\ Ordered' /\ Placed'
      BY <1>0, <2>1, MovesKeepsPlaces
    <2>3. TypeOK' /\ TicketsOK' /\ IdleBefore'
      BY <2>1 DEF IInv, TypeOK, TicketsOK, IdleBefore, TryRecv, Moves
    <2>4. Backlog'
      BY <1>1 DEF Backlog
    <2>5. QED
      BY <2>1, <2>2, <2>3, <2>4 DEF IInv
  <1>2. CASE /\ queue # <<>> /\ queue' = Tail(queue) /\ holder' = holder
             /\ calls' = [calls EXCEPT ![c] =
                   [calls[c] EXCEPT !.pc = "sinking", !.event = Head(queue)]]
    <2> DEFINE h == queue[1]
    <2>1. /\ h \in Events /\ h = Head(queue) /\ Len(queue) \in Nat /\ Len(queue) > 0
          /\ queue' \in Seq(Events) /\ Len(queue') = Len(queue) - 1
          /\ \A i \in 1 .. Len(queue') : queue'[i] = queue[i + 1] /\ i + 1 \in 2 .. Len(queue)
      BY <1>0, <1>2
    <2>2. /\ calls' \in [Calls -> CallStates]
          /\ \A d \in Calls : d # c => calls'[d] = calls[d]
          /\ calls'[c].pc = "sinking" /\ calls'[c].event = h
          /\ calls'[c].result = calls[c].result
      BY <1>2, <2>1 DEF IInv, TypeOK, CallStates
    <2>3. UNCHANGED <<producer, shuttingDown, delivered, rejected, ticket, sends, closedAt>>
      BY DEF TryRecv
    <2>4. holder = c /\ \A d \in Calls : d # c => ~Sinking(d) /\ ~Sinking(d)'
      BY <1>0, <2>2 DEF IInv, OneDrainer, Working, Sinking
    <2> HIDE DEF h
    <2>5. TypeOK' /\ TicketsOK' /\ IdleBefore'
      BY <1>0, <1>2, <2>1, <2>2, <2>3 DEF IInv, TypeOK, TicketsOK, IdleBefore, Working
    <2>6. OneDrainer'
      BY <1>0, <1>2, <2>2, <2>4 DEF IInv, OneDrainer, Working
    <2>7. HandsOK'
      BY <2>1, <2>2, <2>4 DEF HandsOK, Sinking
    <2>8. Ordered'
      <3>1. QueueOrdered'
        BY <2>1, <2>3 DEF IInv, Ordered, QueueOrdered
      <3>2. DeliveredOrdered' /\ DeliveredBeforeQueue'
        BY <2>1, <2>3 DEF IInv, Ordered, DeliveredOrdered, DeliveredBeforeQueue
      <3>3. \A i \in 1 .. Len(delivered) : ticket[delivered[i]] < ticket[h]
        BY <2>1 DEF IInv, Ordered, DeliveredBeforeQueue, h
      <3>4. \A j \in 1 .. Len(queue') : ticket[h] < ticket[queue'[j]]
        BY <2>1 DEF IInv, Ordered, QueueOrdered, h
      <3>5. HandBetween'
        BY <2>2, <2>3, <2>4, <3>3, <3>4 DEF HandBetween, Sinking
      <3>6. QED
        BY <3>1, <3>2, <3>5 DEF Ordered
    <2>9. Placed'
      <3>1. \A e : Queued(e)' => e # h
        <4>1. \A i \in 1 .. Len(queue') : ticket[h] < ticket[queue'[i]]
          BY <2>1 DEF IInv, Ordered, QueueOrdered, h
        <4>2. QED
          BY <1>0, <2>1, <4>1 DEF Queued
      <3>2. \A e : Queued(e) <=> Queued(e)' \/ e = h
        <4>1. \A e : Queued(e)' => Queued(e)
          BY <2>1 DEF Queued
        <4>2. Queued(h)
          BY <2>1 DEF Queued, h
        <4>3. ASSUME NEW i \in 1 .. Len(queue), i # 1
              PROVE  i - 1 \in 1 .. Len(queue') /\ queue'[i - 1] = queue[i]
          <5>1. i - 1 \in 1 .. Len(queue') /\ (i - 1) + 1 = i
            BY <2>1, <4>3
          <5>2. queue'[i - 1] = queue[(i - 1) + 1]
            BY <2>1, <5>1
          <5>3. QED
            BY <5>1, <5>2
        <4>4. \A e : Queued(e) => Queued(e)' \/ e = h
          BY <4>3 DEF Queued, h
        <4>5. QED
          BY <4>1, <4>2, <4>4
      <3>3. \A e : ~Held(e) /\ (Held(e)' <=> e = h)
        BY <1>0, <2>2, <2>4 DEF Held, Sinking
      <3>4. \A e : Written(e)' <=> Written(e)
        BY <2>3 DEF Written
      <3>5. QED
        BY <2>1, <2>3, <3>1, <3>2, <3>3, <3>4 DEF IInv, Placed
    <2>10. Backlog'
      BY <2>1, <2>2, <2>3 DEF IInv, Backlog
    <2>11. QED
      BY <2>5, <2>6, <2>7, <2>8, <2>9, <2>10 DEF IInv
  <1>3. QED
    BY <1>1, <1>2 DEF TryRecv

(* The event in hand is delivered. *)
LEMMA AcceptIInv == ASSUME NEW c \in Calls, IInv, SinkAccepts(c) PROVE IInv'
  <1> DEFINE h == calls[c].event
             n == calls[c].drained + 1
  <1>0. /\ Sinking(c) /\ c \in Working /\ h \in Events /\ delivered \in Seq(Events)
        /\ ticket \in [Events -> Nat] /\ queue \in Seq(Events) /\ n \in Nat
    BY DEF IInv, TypeOK, CallStates, SinkAccepts, Working, Sinking, HandsOK
  <1>1. calls' = [calls EXCEPT ![c] =
            [calls[c] EXCEPT !.pc = "yielded", !.event = NoEvent, !.drained = n]]
    BY DEF SinkAccepts
  <1>2. /\ delivered' = Append(delivered, h)
        /\ UNCHANGED <<producer, shuttingDown, queue, holder, rejected, ticket, sends, closedAt>>
    BY DEF SinkAccepts
  <1> HIDE DEF n
  <1>3. /\ calls' \in [Calls -> CallStates]
        /\ \A d \in Calls : d # c => calls'[d] = calls[d]
        /\ calls'[c].pc = "yielded" /\ calls'[c].result = calls[c].result
    BY <1>0, <1>1 DEF IInv, TypeOK, CallStates
  <1>4. holder = c /\ \A d \in Calls : ~Sinking(d)' /\ (d # c => ~Sinking(d))
    BY <1>0, <1>3 DEF IInv, OneDrainer, Working, Sinking
  <1> HIDE DEF h
  <1>5. /\ delivered' \in Seq(Events) /\ Len(delivered) \in Nat
        /\ Len(delivered') = Len(delivered) + 1
        /\ delivered'[Len(delivered) + 1] = h
        /\ \A i \in 1 .. Len(delivered) : delivered'[i] = delivered[i]
    BY <1>0, <1>2
  <1>6. TypeOK' /\ TicketsOK' /\ IdleBefore' /\ Backlog'
    BY <1>0, <1>2, <1>3, <1>5 DEF IInv, TypeOK, TicketsOK, IdleBefore, Backlog, Working
  <1>7. OneDrainer' /\ HandsOK'
    BY <1>0, <1>2, <1>3, <1>4 DEF IInv, OneDrainer, Working, HandsOK
  <1>8. /\ \A i \in 1 .. Len(delivered) : ticket[delivered[i]] < ticket[h]
        /\ \A j \in 1 .. Len(queue) : ticket[h] < ticket[queue[j]]
    BY <1>0 DEF IInv, Ordered, HandBetween, h
  <1>9. Ordered'
    <2>1. QueueOrdered' /\ HandBetween'
      BY <1>2, <1>4 DEF IInv, Ordered, QueueOrdered, HandBetween
    <2>2. DeliveredOrdered'
      BY <1>2, <1>5, <1>8 DEF IInv, Ordered, DeliveredOrdered
    <2>3. DeliveredBeforeQueue'
      BY <1>2, <1>5, <1>8 DEF IInv, Ordered, DeliveredBeforeQueue
    <2>4. QED
      BY <2>1, <2>2, <2>3 DEF Ordered
  <1>10. Placed'
    <2>1. \A e : Written(e)' <=> Written(e) \/ e = h
      BY <1>5 DEF Written
    <2>2. \A e : ~Held(e)' /\ (Held(e) <=> e = h)
      BY <1>0, <1>4 DEF Held, h
    <2>3. \A e : Queued(e)' <=> Queued(e)
      BY <1>2 DEF Queued
    <2>4. QED
      BY <1>2, <2>1, <2>2, <2>3 DEF IInv, Placed
  <1>11. QED
    BY <1>6, <1>7, <1>9, <1>10 DEF IInv

(* The event in hand is rejected. *)
LEMMA RejectIInv == ASSUME NEW c \in Calls, IInv, SinkRejects(c) PROVE IInv'
  <1> DEFINE h == calls[c].event
  <1>0. /\ Sinking(c) /\ c \in Working /\ h \in Events /\ ticket \in [Events -> Nat]
        /\ queue \in Seq(Events) /\ delivered \in Seq(Events)
    BY DEF IInv, TypeOK, SinkRejects, Working, Sinking, HandsOK
  <1>1. /\ OneDrainer' /\ shuttingDown /\ holder' = NoCall
        /\ calls' \in [Calls -> CallStates]
        /\ \A d \in Calls : d # c => calls'[d] = calls[d] /\ ~Sinking(d)
        /\ calls'[c].pc = "returned" /\ calls'[c].result = "sinkError"
    BY <1>0, ReturnFrees DEF SinkRejects
  <1>2. /\ rejected' = rejected \cup {h}
        /\ UNCHANGED <<producer, shuttingDown, queue, delivered, ticket, sends, closedAt>>
    BY DEF SinkRejects
  <1>3. \A d \in Calls : ~Sinking(d)'
    BY <1>1 DEF Sinking
  <1>4. TypeOK' /\ TicketsOK' /\ IdleBefore' /\ Backlog' /\ HandsOK'
    BY <1>0, <1>1, <1>2, <1>3
       DEF IInv, TypeOK, TicketsOK, IdleBefore, Backlog, HandsOK
  <1>5. Ordered'
    BY <1>2, <1>3 DEF IInv, Ordered, QueueOrdered, DeliveredOrdered,
                      DeliveredBeforeQueue, HandBetween
  <1>6. Placed'
    <2>1. ~Queued(h) /\ ~Written(h)
      BY <1>0 DEF IInv, Ordered, HandBetween, Queued, Written
    <2>2. \A e : ~Held(e)' /\ (Held(e) <=> e = h)
      BY <1>0, <1>1, <1>3 DEF Held
    <2>3. \A e : (Queued(e)' <=> Queued(e)) /\ (Written(e)' <=> Written(e))
      BY <1>2 DEF Queued, Written
    <2> HIDE DEF h
    <2>4. QED
      BY <1>0, <1>2, <2>1, <2>2, <2>3 DEF IInv, Placed
  <1>7. QED
    BY <1>1, <1>4, <1>5, <1>6 DEF IInv

(* Every step keeps the invariant. *)
LEMMA NextIInv == IInv /\ [Next]_vars => IInv'
  <1> SUFFICES ASSUME IInv, [Next]_vars PROVE IInv'
    OBVIOUS
  <1>1. ASSUME NEW e \in Events, EnqueueCheck(e) \/ EnqueueSend(e) PROVE IInv'
    BY <1>1, CheckIInv, SendIInv
  <1>2. ASSUME NEW c \in Calls, ShutdownBegin(c) \/ Step(c) \/ SinkReturns(c) PROVE IInv'
    BY <1>2, BeginIInv, LockIInv, ResumeIInv, RecvIInv, TimeoutIInv, AcceptIInv, RejectIInv
       DEF Step, SinkReturns
  <1>3. CASE UNCHANGED vars
    <2>1. \A c : Sinking(c)' <=> Sinking(c)
      BY <1>3 DEF vars, Sinking
    <2>2. \A e : (Queued(e)' <=> Queued(e)) /\ (Held(e)' <=> Held(e))
                 /\ (Written(e)' <=> Written(e))
      BY <1>3, <2>1 DEF vars, Queued, Held, Written
    <2>3. TypeOK' /\ OneDrainer' /\ TicketsOK' /\ IdleBefore' /\ HandsOK' /\ Backlog'
      BY <1>3, <2>1 DEF vars, IInv, TypeOK, OneDrainer, Working, TicketsOK, IdleBefore,
                        HandsOK, Backlog
    <2>4. Ordered' /\ Placed'
      BY <1>3, <2>1, <2>2 DEF vars, IInv, Ordered, QueueOrdered, DeliveredOrdered,
                              DeliveredBeforeQueue, HandBetween, Placed
    <2>5. QED
      BY <2>3, <2>4 DEF IInv
  <1>4. QED
    BY <1>1, <1>2, <1>3 DEF Next

-----------------------------------------------------------------------------
(* The strengthened invariant holds in every reachable state. *)
THEOREM Invariance == SafetySpec => []IInv
  BY InitIInv, NextIInv, PTL DEF SafetySpec

(* The queue and the shutdowns stay within their types. *)
THEOREM TypeCorrect == SafetySpec => []TypeOK
  BY Invariance, PTL DEF IInv

(* However many shutdowns run, only the holder of the mutex drains. *)
THEOREM MutualExclusion == SafetySpec => []OneDrainer
  BY Invariance, PTL DEF IInv

(* No accepted event is lost or duplicated by the queue: it waits, is in   *)
(* the sink's hands, was delivered, or was refused by the sink.            *)
THEOREM NoneLost == SafetySpec => []Conservation
  <1>1. IInv => Conservation
    <2> SUFFICES ASSUME IInv PROVE Conservation
      OBVIOUS
    <2>0. /\ queue \in Seq(Events) /\ delivered \in Seq(Events) /\ rejected \subseteq Events
          /\ ticket \in [Events -> Nat]
      BY DEF IInv, TypeOK
    <2>1. \A e : e \in Range(queue) <=> Queued(e)
      BY <2>0 DEF Range, Queued
    <2>2. \A e : e \in Range(delivered) <=> Written(e)
      BY <2>0 DEF Range, Written
    <2>3. \A e : e \in InHand <=> Held(e)
      BY DEF InHand, Held, Sinking
    <2>4. \A e : Queued(e) \/ Held(e) \/ Written(e) \/ e \in rejected => e \in Events
      BY <2>0 DEF IInv, HandsOK, Queued, Held, Written
    <2>5. \A e : ~(Queued(e) /\ Held(e)) /\ ~(Queued(e) /\ Written(e)) /\ ~(Held(e) /\ Written(e))
      BY <2>0 DEF IInv, Ordered, HandBetween, DeliveredBeforeQueue, HandsOK, Queued, Held, Written
    <2>6. Sent = Range(queue) \cup InHand \cup Range(delivered) \cup rejected
      BY <2>1, <2>2, <2>3, <2>4 DEF IInv, Placed, Sent
    <2>7. \A e \in rejected : ~Queued(e) /\ ~Held(e) /\ ~Written(e)
      BY <2>0 DEF IInv, Placed
    <2>8. QED
      BY <2>1, <2>2, <2>3, <2>5, <2>6, <2>7 DEF Conservation
  <1>2. QED
    BY <1>1, Invariance, PTL

(* Events are delivered in the order they were sent. *)
THEOREM FirstInFirstOut == SafetySpec => []DeliveredInOrder
  <1>1. IInv => DeliveredInOrder
    <2> SUFFICES ASSUME IInv PROVE DeliveredInOrder
      OBVIOUS
    <2> DEFINE line == delivered \o queue
    <2>0. queue \in Seq(Events) /\ delivered \in Seq(Events)
      BY DEF IInv, TypeOK
    <2>1. /\ Len(delivered) \in Nat /\ Len(queue) \in Nat
          /\ DOMAIN line = 1 .. Len(delivered) + Len(queue)
          /\ \A i \in 1 .. Len(delivered) : line[i] = delivered[i]
          /\ \A i \in Len(delivered) + 1 .. Len(delivered) + Len(queue) :
                line[i] = queue[i - Len(delivered)]
      BY <2>0
    <2> HIDE DEF line
    <2>2. ASSUME NEW i \in DOMAIN line, NEW j \in DOMAIN line, i < j
          PROVE  ticket[line[i]] < ticket[line[j]]
      <3>1. CASE j <= Len(delivered)
        BY <2>1, <2>2, <3>1 DEF IInv, Ordered, DeliveredOrdered
      <3>2. CASE i > Len(delivered)
        <4>1. /\ i - Len(delivered) \in 1 .. Len(queue)
              /\ j - Len(delivered) \in 1 .. Len(queue)
              /\ i - Len(delivered) < j - Len(delivered)
          BY <2>1, <2>2, <3>2
        <4>2. ticket[queue[i - Len(delivered)]] < ticket[queue[j - Len(delivered)]]
          BY <4>1 DEF IInv, Ordered, QueueOrdered
        <4>3. QED
          BY <2>1, <2>2, <3>2, <4>2
      <3>3. CASE i <= Len(delivered) /\ j > Len(delivered)
        <4>1. i \in 1 .. Len(delivered) /\ j - Len(delivered) \in 1 .. Len(queue)
          BY <2>1, <2>2, <3>3
        <4>2. ticket[delivered[i]] < ticket[queue[j - Len(delivered)]]
          BY <4>1 DEF IInv, Ordered, DeliveredBeforeQueue
        <4>3. QED
          BY <2>1, <2>2, <3>3, <4>2
      <3>4. QED
        BY <2>1, <3>1, <3>2, <3>3
    <2>3. QED
      BY <2>2 DEF DeliveredInOrder, line
  <1>2. QED
    BY <1>1, Invariance, PTL

(* A shutdown that reports success has drained all that was accepted       *)
(* before shutdown began.                                                  *)
THEOREM SuccessfulDrainIsComplete == SafetySpec => []BacklogDrained
  <1>1. IInv => BacklogDrained
    BY DEF IInv, TypeOK, Backlog, BacklogDrained, Range
  <1>2. QED
    BY <1>1, Invariance, PTL

(* Every accepted event is in exactly one place, and events are delivered  *)
(* in the order they were sent.                                            *)
THEOREM DeliveryExact == SafetySpec => []ExactlyOnceInOrder
  BY NoneLost, FirstInFirstOut, PTL DEF ExactlyOnceInOrder
=============================================================================
