--------------------------- MODULE MonitorProofs ----------------------------
(***************************************************************************)
(* Proofs about IngestionGuard, for any capacity, rate, queue depth and    *)
(* any behaviour of the clock, and about NonceWatcher, for any number of   *)
(* accounts and of synchronisations that overlap.                          *)
(***************************************************************************)
EXTENDS IngestionGuard, NonceWatcher, FiniteSetTheorems, TLAPS

(* What the bucket could still pay out now is part of the budget of the    *)
(* interval; AdmissionBounded alone forgets it and is not inductive.       *)
Budget ==
    (totalAccepted - mark.accepted) * Unit + Refilled
        <= Capacity * Unit + RefillRate * (elapsed - mark.elapsed)

MarkInPast == mark.elapsed <= elapsed /\ mark.accepted <= totalAccepted

BucketInv == GuardTypeOK /\ MarkInPast /\ Budget

QueueInv == GuardTypeOK /\ Ledger /\ NewestKept /\ Len(queue) <= totalAccepted

-----------------------------------------------------------------------------
(* Arithmetic of products. *)
LEMMA Distribute == \A a, b, c \in Int : a * (b + c) = a * b + a * c
  OBVIOUS

(* Products are monotone. *)
LEMMA ScaleMonotone == \A k \in Nat, a, b \in Int : a <= b => k * a <= k * b
  OBVIOUS

(* A product of naturals is one. *)
LEMMA ProductIsNat == \A a, b \in Nat : a * b \in Nat
  OBVIOUS

(* The products that the bucket is made of are numbers, and a refill fits. *)
LEMMA Products ==
    ASSUME GuardTypeOK
    PROVE  /\ Capacity * Unit \in Nat /\ Capacity * Unit >= Unit
           /\ SinceRefill \in Nat /\ RefillRate * SinceRefill \in Nat
           /\ Refilled \in 0 .. Capacity * Unit
  <1>1. Capacity * Unit \in Nat /\ Capacity * Unit >= Unit
    <2>1. Unit * 1 <= Unit * Capacity
      BY ScaleMonotone, GuardAssumption
    <2>2. QED
      BY <2>1, GuardAssumption
  <1>2. SinceRefill \in Nat
    BY DEF SinceRefill, GuardTypeOK
  <1>3. RefillRate * SinceRefill \in Nat
    BY <1>2, GuardAssumption
  <1>4. QED
    BY <1>1, <1>2, <1>3 DEF Refilled, Smaller, GuardTypeOK

-----------------------------------------------------------------------------
(* A new guard is well typed. *)
LEMMA InitTyped == GuardInit => GuardTypeOK
  <1> SUFFICES ASSUME GuardInit PROVE GuardTypeOK
    OBVIOUS
  <1>1. Capacity * Unit \in Nat
    BY GuardAssumption
  <1>2. mark \in [elapsed : Nat, accepted : Nat]
    BY DEF GuardInit
  <1>3. queue \in Seq(Nat)
    BY DEF GuardInit
  <1>4. QED
    BY <1>1, <1>2, <1>3, GuardAssumption DEF GuardInit, GuardTypeOK

(* Every step keeps the types. *)
LEMMA NextTyped == GuardTypeOK /\ [GuardNext]_guardVars => GuardTypeOK'
  <1> SUFFICES ASSUME GuardTypeOK, [GuardNext]_guardVars PROVE GuardTypeOK'
    OBVIOUS
  <1> USE DEF bucket, counters, handed
  <1>0. /\ Capacity * Unit \in Nat /\ Refilled \in 0 .. Capacity * Unit
        /\ queue \in Seq(Nat) /\ Len(queue) \in Nat
    BY Products DEF GuardTypeOK
  <1>1. CASE IngestMalformed
    BY <1>1 DEF IngestMalformed, GuardTypeOK
  <1>2. CASE IngestRateLimited
    BY <1>0, <1>2 DEF IngestRateLimited, GuardTypeOK
  <1>3. CASE IngestAccepted
    <2>1. RoomForOne(queue) \in Seq(Nat)
      BY <1>0 DEF RoomForOne
    <2>2. queue' \in Seq(Nat)
      BY <1>3, <2>1 DEF IngestAccepted, GuardTypeOK
    <2>3. tokens' \in 0 .. Capacity * Unit
      BY <1>0, <1>3, GuardAssumption DEF IngestAccepted
    <2>4. totalDropped' \in Nat
      BY <1>3 DEF IngestAccepted, DroppedBy, GuardTypeOK
    <2>5. QED
      BY <1>3, <2>2, <2>3, <2>4 DEF IngestAccepted, GuardTypeOK
  <1>4. ASSUME NEW count \in 1 .. MaxQueueDepth + 1, Drain(count) PROVE GuardTypeOK'
    <2> DEFINE n == Smaller(count, Len(queue))
    <2>1. n \in 1 .. Len(queue)
      BY <1>0, <1>4, GuardAssumption DEF Drain, Smaller
    <2>2. /\ queue' = SubSeq(queue, n + 1, Len(queue)) /\ newestHandedOut' = queue[n]
          /\ handedOut' = handedOut + n
          /\ UNCHANGED <<now, tokens, lastRefillTime, totalAccepted, totalRateLimited,
                         totalDropped, totalMalformed, elapsed, mark>>
      BY <1>4 DEF Drain
    <2> HIDE DEF n
    <2>3. queue' \in Seq(Nat)
      BY <1>0, <2>1, <2>2
    <2>4. newestHandedOut' \in Nat /\ handedOut' \in Nat
      BY <1>0, <2>1, <2>2 DEF GuardTypeOK
    <2>5. QED
      BY <2>2, <2>3, <2>4 DEF GuardTypeOK
  <1>5. ASSUME NEW t \in 0 .. MaxTime, Clock(t) PROVE GuardTypeOK'
    BY <1>5, GuardAssumption DEF Clock, GuardTypeOK
  <1>6. CASE SetMark
    BY <1>6 DEF SetMark, GuardTypeOK
  <1>7. CASE Reset
    <2>1. mark' \in [elapsed : Nat, accepted : Nat]
      BY <1>7 DEF Reset, GuardTypeOK
    <2>2. queue' \in Seq(Nat)
      BY <1>7 DEF Reset
    <2>3. QED
      BY <1>0, <1>7, <2>1, <2>2 DEF Reset, GuardTypeOK
  <1>8. CASE UNCHANGED guardVars
    BY <1>8 DEF guardVars, GuardTypeOK
  <1>9. QED
    BY <1>1, <1>2, <1>3, <1>4, <1>5, <1>6, <1>7, <1>8 DEF GuardNext

-----------------------------------------------------------------------------
(* A full bucket is the budget of the first interval. *)
LEMMA InitBucket == GuardInit => BucketInv
  <1> SUFFICES ASSUME GuardInit PROVE BucketInv
    OBVIOUS
  <1>1. GuardTypeOK
    BY InitTyped
  <1>2. mark.elapsed = 0 /\ mark.accepted = 0 /\ totalAccepted = 0 /\ elapsed = 0
    BY DEF GuardInit
  <1>3. MarkInPast
    BY <1>2 DEF MarkInPast
  <1>4. Budget
    <2>1. (totalAccepted - mark.accepted) * Unit = 0
      BY <1>2, GuardAssumption
    <2>2. RefillRate * (elapsed - mark.elapsed) = 0
      BY <1>2, GuardAssumption
    <2>3. QED
      BY <1>1, <2>1, <2>2, Products DEF Budget
  <1>5. QED
    BY <1>1, <1>3, <1>4 DEF BucketInv

(* Refilling changes neither what the bucket can pay out nor the budget,   *)
(* so only an accepted event, the clock and a new mark matter.             *)
LEMMA NextBucket == BucketInv /\ [GuardNext]_guardVars => BucketInv'
  <1> SUFFICES ASSUME BucketInv, [GuardNext]_guardVars PROVE MarkInPast' /\ Budget'
    BY NextTyped DEF BucketInv
  <1> USE DEF bucket, counters, handed
  <1> DEFINE since == elapsed - mark.elapsed
             won == totalAccepted - mark.accepted
  <1>0. /\ GuardTypeOK /\ MarkInPast /\ Budget /\ GuardTypeOK'
        /\ Capacity * Unit \in Nat /\ Refilled \in 0 .. Capacity * Unit
        /\ SinceRefill \in Nat /\ RefillRate * SinceRefill \in Nat
        /\ mark.elapsed \in Nat /\ mark.accepted \in Nat
        /\ totalAccepted \in Nat /\ elapsed \in Nat /\ tokens \in Nat
        /\ now \in Nat /\ lastRefillTime \in Nat
        /\ mark.elapsed <= elapsed /\ mark.accepted <= totalAccepted
    BY NextTyped, Products DEF BucketInv, GuardTypeOK, MarkInPast
  <1>1. /\ since \in Nat /\ won \in Nat /\ RefillRate * since \in Nat /\ won * Unit \in Nat
        /\ won * Unit + Refilled <= Capacity * Unit + RefillRate * since
    <2>1. since \in Nat /\ won \in Nat
      BY <1>0
    <2>2. RefillRate * since \in Nat /\ won * Unit \in Nat
      BY <2>1, ProductIsNat, GuardAssumption
    <2>3. QED
      BY <1>0, <2>1, <2>2 DEF Budget
  <1>2. ASSUME UNCHANGED <<now, bucket, totalAccepted, elapsed, mark>>
        PROVE  MarkInPast' /\ Budget'
    BY <1>0, <1>2 DEF MarkInPast, Budget, Refilled, SinceRefill
  <1>3. CASE IngestMalformed
    BY <1>2, <1>3 DEF IngestMalformed
  <1>4. ASSUME NEW b \in Nat, tokens' = b, lastRefillTime' = now, now' = now, b <= Capacity * Unit
        PROVE  Refilled' = b
    <2>1. SinceRefill' = 0
      BY <1>0, <1>4 DEF SinceRefill, GuardTypeOK
    <2>2. RefillRate * SinceRefill' = 0
      BY <2>1, GuardAssumption
    <2>3. Refilled' = Smaller(Capacity * Unit, tokens' + RefillRate * SinceRefill')
      BY DEF Refilled
    <2>4. QED
      BY <1>0, <1>4, <2>2, <2>3 DEF Smaller
  <1>5. CASE IngestRateLimited
    <2>1. Refilled' = Refilled
      BY <1>0, <1>4, <1>5 DEF IngestRateLimited
    <2>2. QED
      BY <1>0, <1>5, <2>1 DEF IngestRateLimited, MarkInPast, Budget
  <1>6. CASE IngestAccepted
    <2>1. Refilled' = Refilled - Unit
      BY <1>0, <1>4, <1>6, GuardAssumption DEF IngestAccepted
    <2>2. /\ totalAccepted' = totalAccepted + 1
          /\ mark' = mark /\ elapsed' = elapsed
      BY <1>6 DEF IngestAccepted
    <2>3. (totalAccepted' - mark'.accepted) * Unit = won * Unit + Unit
      <3>1. totalAccepted' - mark'.accepted = won + 1
        BY <1>0, <2>2
      <3>2. Unit * (won + 1) = Unit * won + Unit * 1
        BY <1>1, Distribute, GuardAssumption
      <3>3. QED
        BY <1>1, <3>1, <3>2, GuardAssumption
    <2>4. Budget'
      BY <1>0, <1>1, <2>1, <2>2, <2>3, GuardAssumption DEF Budget
    <2>5. QED
      BY <1>0, <2>2, <2>4 DEF MarkInPast
  <1>7. ASSUME NEW count \in 1 .. MaxQueueDepth + 1, Drain(count) PROVE MarkInPast' /\ Budget'
    BY <1>2, <1>7 DEF Drain
  <1>8. ASSUME NEW t \in 0 .. MaxTime, Clock(t) PROVE MarkInPast' /\ Budget'
    <2> DEFINE d == IF t >= now THEN t - now ELSE 0
    <2>1. /\ d \in Nat /\ now' = t /\ elapsed' = elapsed + d
          /\ UNCHANGED <<bucket, totalAccepted, mark>>
      BY <1>0, <1>8, GuardAssumption DEF Clock, GuardTypeOK
    <2>2. SinceRefill' \in Nat /\ SinceRefill' <= SinceRefill + d
      BY <1>0, <2>1, GuardAssumption DEF SinceRefill, GuardTypeOK
    <2> HIDE DEF d
    <2>3. RefillRate * SinceRefill' <= RefillRate * SinceRefill + RefillRate * d
      <3>1. RefillRate * SinceRefill' <= RefillRate * (SinceRefill + d)
        <4> DEFINE later == SinceRefill'
                   sum == SinceRefill + d
        <4>1. later \in Int /\ sum \in Int /\ later <= sum /\ RefillRate \in Nat
          BY <1>0, <2>1, <2>2, GuardAssumption
        <4> HIDE DEF later, sum
        <4>2. RefillRate * later <= RefillRate * sum
          BY <4>1, ScaleMonotone
        <4>3. QED
          BY <4>2 DEF later, sum
      <3>2. RefillRate * (SinceRefill + d) = RefillRate * SinceRefill + RefillRate * d
        BY <1>0, <2>1, Distribute, GuardAssumption
      <3>3. QED
        BY <3>1, <3>2
    <2>4. RefillRate * d \in Nat /\ RefillRate * SinceRefill' \in Nat
      BY <2>1, <2>2, ProductIsNat, GuardAssumption
    <2>5. Refilled' \in Nat /\ Refilled' <= Refilled + RefillRate * d
      <3> DEFINE gain == RefillRate * SinceRefill
                 gainNow == RefillRate * SinceRefill'
      <3>1. Refilled' = Smaller(Capacity * Unit, tokens + gainNow)
        BY <2>1 DEF Refilled
      <3>2. Refilled = Smaller(Capacity * Unit, tokens + gain)
        BY DEF Refilled
      <3>3. /\ gain \in Nat /\ gainNow \in Nat /\ gainNow <= gain + RefillRate * d
            /\ tokens \in Nat /\ Capacity * Unit \in Nat /\ RefillRate * d \in Nat
        BY <1>0, <2>3, <2>4 DEF GuardTypeOK
      <3> HIDE DEF gain, gainNow
      <3>4. QED
        BY <3>1, <3>2, <3>3 DEF Smaller
    <2>6. RefillRate * (elapsed' - mark'.elapsed) = RefillRate * since + RefillRate * d
      <3>1. elapsed' - mark'.elapsed = since + d
        BY <1>0, <2>1
      <3>2. QED
        BY <1>1, <2>1, <3>1, Distribute, GuardAssumption
    <2>8. Budget'
      <3>1. (totalAccepted' - mark'.accepted) * Unit = won * Unit
        BY <2>1
      <3>2. QED
        BY <1>0, <1>1, <2>4, <2>5, <2>6, <3>1 DEF Budget
    <2>9. QED
      BY <1>0, <2>1, <2>8 DEF MarkInPast
  <1>9. CASE SetMark
    <2>1. /\ mark'.elapsed = elapsed /\ mark'.accepted = totalAccepted
          /\ UNCHANGED <<now, bucket, totalAccepted, elapsed>>
      BY <1>9 DEF SetMark
    <2>2. Refilled' = Refilled
      BY <2>1 DEF Refilled, SinceRefill
    <2>3. /\ (totalAccepted' - mark'.accepted) * Unit = 0
          /\ RefillRate * (elapsed' - mark'.elapsed) = 0
      BY <1>0, <2>1, GuardAssumption
    <2>4. QED
      BY <1>0, <2>1, <2>2, <2>3 DEF MarkInPast, Budget
  <1>10. CASE Reset
    <2>1. /\ mark'.elapsed = elapsed /\ mark'.accepted = 0 /\ totalAccepted' = 0
          /\ tokens' = Capacity * Unit /\ lastRefillTime' = now
          /\ now' = now /\ elapsed' = elapsed
      BY <1>10 DEF Reset
    <2>2. Refilled' = Capacity * Unit
      BY <1>0, <1>4, <2>1
    <2>3. /\ (totalAccepted' - mark'.accepted) * Unit = 0
          /\ RefillRate * (elapsed' - mark'.elapsed) = 0
      BY <1>0, <2>1, GuardAssumption
    <2>4. QED
      BY <1>0, <2>1, <2>2, <2>3 DEF MarkInPast, Budget
  <1>11. CASE UNCHANGED guardVars
    BY <1>2, <1>11 DEF guardVars
  <1>12. QED
    BY <1>3, <1>5, <1>6, <1>7, <1>8, <1>9, <1>10, <1>11 DEF GuardNext

-----------------------------------------------------------------------------
(* An empty queue holds the newest of no events. *)
LEMMA InitQueue == GuardInit => QueueInv
  <1> SUFFICES ASSUME GuardInit PROVE QueueInv
    OBVIOUS
  <1>1. Len(queue) = 0 /\ totalAccepted = 0 /\ totalDropped = 0
        /\ handedOut = 0 /\ newestHandedOut = 0
    BY DEF GuardInit
  <1>2. QED
    BY <1>1, InitTyped, GuardAssumption DEF QueueInv, Ledger, NewestKept

(* ingest() and drain() keep the ledger and the order. *)
LEMMA NextQueue == QueueInv /\ [GuardNext]_guardVars => QueueInv'
  <1> SUFFICES ASSUME QueueInv, [GuardNext]_guardVars
               PROVE  Ledger' /\ NewestKept' /\ Len(queue') <= totalAccepted'
    BY NextTyped DEF QueueInv
  <1> USE DEF bucket, counters, handed
  <1>0. /\ queue \in Seq(Nat) /\ Len(queue) \in Nat /\ totalAccepted \in Nat
        /\ totalDropped \in Nat /\ handedOut \in Nat /\ newestHandedOut \in Nat
        /\ MaxQueueDepth \in Nat
        /\ Len(queue) <= totalAccepted
        /\ Len(queue) <= MaxQueueDepth \/ Len(queue) = 1
        /\ MaxQueueDepth > 0 => totalAccepted = Len(queue) + handedOut + totalDropped
        /\ \A i \in 1 .. Len(queue) : queue[i] = totalAccepted - Len(queue) + i
        /\ newestHandedOut <= totalAccepted - Len(queue)
    BY GuardAssumption DEF QueueInv, GuardTypeOK, Ledger, NewestKept
  <1>1. ASSUME UNCHANGED <<queue, totalAccepted, totalDropped, handed>>
        PROVE  Ledger' /\ NewestKept' /\ Len(queue') <= totalAccepted'
    BY <1>0, <1>1 DEF Ledger, NewestKept
  <1> DEFINE len == Len(queue)
             lenNow == Len(queue')
  <1>a. len \in Nat /\ totalAccepted \in Nat /\ totalDropped \in Nat
        /\ handedOut \in Nat /\ newestHandedOut \in Nat /\ MaxQueueDepth \in Nat
    BY <1>0
  <1>b. len <= totalAccepted /\ (len <= MaxQueueDepth \/ len = 1)
    BY <1>0
  <1>c. MaxQueueDepth > 0 => totalAccepted = len + handedOut + totalDropped
    BY <1>0
  <1>d. \A i \in 1 .. len : queue[i] = totalAccepted - len + i
    BY <1>0
  <1>e. newestHandedOut <= totalAccepted - len
    BY <1>0
  <1>f. queue \in Seq(Nat)
    BY <1>0
  <1>2. CASE IngestAccepted
    <2> DEFINE q == RoomForOne(queue)
               short == Len(q)
    <2>1. PICK k \in {0, 1} :
             /\ q \in Seq(Nat) /\ short = len - k /\ short \in Nat
             /\ \A i \in 1 .. short : q[i] = queue[i + k]
             /\ k = IF len >= MaxQueueDepth /\ len > 0 THEN 1 ELSE 0
      <3>1. CASE len >= MaxQueueDepth /\ queue # <<>>
        <4>1. q = Tail(queue)
          BY <3>1 DEF RoomForOne
        <4>2. len > 0
          BY <1>f, <3>1
        <4>3. Tail(queue) \in Seq(Nat) /\ Len(Tail(queue)) = len - 1
              /\ \A i \in 1 .. len - 1 : Tail(queue)[i] = queue[i + 1]
          BY <1>f, <4>2
        <4>4. QED
          BY <1>a, <3>1, <4>1, <4>2, <4>3
      <3>2. CASE ~(len >= MaxQueueDepth /\ queue # <<>>)
        <4>1. q = queue
          BY <3>2 DEF RoomForOne
        <4>2. ~(len >= MaxQueueDepth /\ len > 0)
          BY <1>f, <3>2
        <4>3. \A i \in 1 .. len : q[i] = queue[i + 0]
          BY <1>a, <4>1
        <4>4. QED
          BY <1>a, <1>f, <4>1, <4>2, <4>3
      <3>3. QED
        BY <3>1, <3>2
    <2>2. /\ queue' = Append(q, totalAccepted + 1) /\ totalAccepted' = totalAccepted + 1
          /\ totalDropped' = totalDropped + DroppedBy(queue)
          /\ handedOut' = handedOut /\ newestHandedOut' = newestHandedOut
      BY <1>2 DEF IngestAccepted
    <2>3. DroppedBy(queue) = IF len >= MaxQueueDepth THEN 1 ELSE 0
      BY DEF DroppedBy
    <2>4. /\ lenNow = short + 1 /\ queue'[short + 1] = totalAccepted + 1
          /\ \A i \in 1 .. short : queue'[i] = q[i]
      <3> HIDE DEF q
      <3>1. QED
        BY <1>a, <2>1, <2>2
    <2>5. lenNow \in Nat /\ lenNow = len - k + 1
      BY <1>a, <2>1, <2>4
    <2>6. lenNow <= totalAccepted'
      BY <1>a, <1>b, <2>1, <2>2, <2>5
    <2> HIDE DEF q, short, len, lenNow
    <2>7. Ledger'
      <3>1. lenNow <= MaxQueueDepth \/ lenNow = 1
        BY <1>a, <1>b, <2>1, <2>5
      <3>2. ASSUME MaxQueueDepth > 0
            PROVE  totalAccepted' = lenNow + handedOut' + totalDropped'
        <4>1. DroppedBy(queue) = k
          BY <1>a, <2>1, <2>3, <3>2
        <4>2. QED
          BY <1>a, <1>c, <2>1, <2>2, <2>5, <3>2, <4>1
      <3>3. QED
        BY <3>1, <3>2 DEF Ledger, lenNow
    <2>8. ASSUME NEW i \in 1 .. lenNow
          PROVE  queue'[i] = totalAccepted' - lenNow + i
      <3>0. /\ i \in Nat /\ k \in Nat /\ totalAccepted' = totalAccepted + 1
            /\ short \in Nat /\ short = len - k
        BY <2>1, <2>2, <2>5, <2>8
      <3>1. CASE i = short + 1
        <4>1. queue'[i] = totalAccepted + 1 /\ lenNow = i
          BY <2>4, <3>1
        <4>2. QED
          BY <1>a, <3>0, <4>1
      <3>2. CASE i # short + 1
        <4>1. i \in 1 .. short /\ i + k \in 1 .. len
          BY <1>a, <2>1, <2>4, <2>5, <2>8, <3>2
        <4>2. queue'[i] = queue[i + k]
          BY <2>1, <2>4, <4>1
        <4>3. queue[i + k] = totalAccepted - len + (i + k)
          BY <1>d, <4>1
        <4>4. QED
          BY <1>a, <2>5, <3>0, <4>2, <4>3
      <3>3. QED
        BY <3>1, <3>2
    <2>9. newestHandedOut' <= totalAccepted' - lenNow
      BY <1>a, <1>e, <2>1, <2>2, <2>5
    <2>10. NewestKept'
      BY <2>8, <2>9 DEF NewestKept, lenNow
    <2>11. QED
      BY <2>6, <2>7, <2>10 DEF lenNow
  <1>3. ASSUME NEW count \in 1 .. MaxQueueDepth + 1, Drain(count)
        PROVE  Ledger' /\ NewestKept' /\ Len(queue') <= totalAccepted'
    <2> DEFINE n == Smaller(count, len)
    <2>1. n \in 1 .. len
      BY <1>0, <1>3 DEF Drain, Smaller
    <2>2. /\ queue' = SubSeq(queue, n + 1, len) /\ newestHandedOut' = queue[n]
          /\ handedOut' = handedOut + n
          /\ totalAccepted' = totalAccepted /\ totalDropped' = totalDropped
      BY <1>3 DEF Drain
    <2> HIDE DEF n
    <2>3. /\ lenNow = len - n
          /\ \A i \in 1 .. lenNow : queue'[i] = queue[n + i]
      BY <1>0, <2>1, <2>2
    <2> HIDE DEF len, lenNow
    <2>4. n \in Nat /\ n >= 1 /\ n <= len /\ lenNow \in Nat
      BY <1>a, <2>1, <2>3
    <2>5. Ledger'
      <3>1. lenNow <= MaxQueueDepth \/ lenNow = 1
        BY <1>a, <1>b, <2>3, <2>4
      <3>2. MaxQueueDepth > 0 => totalAccepted' = lenNow + handedOut' + totalDropped'
        BY <1>a, <1>c, <2>2, <2>3, <2>4
      <3>3. QED
        BY <3>1, <3>2 DEF Ledger, lenNow
    <2>6. ASSUME NEW i \in 1 .. lenNow
          PROVE  queue'[i] = totalAccepted' - lenNow + i
      <3>1. n + i \in 1 .. len
        BY <1>a, <2>3, <2>4, <2>6
      <3>2. queue'[i] = totalAccepted - len + (n + i)
        BY <1>d, <2>3, <3>1
      <3>3. QED
        BY <1>a, <2>2, <2>3, <2>4, <2>6, <3>2
    <2>7. newestHandedOut' <= totalAccepted' - lenNow
      <3>1. queue[n] = totalAccepted - len + n
        BY <1>d, <2>1
      <3>2. QED
        BY <1>a, <2>2, <2>3, <2>4, <3>1
    <2>8. NewestKept'
      BY <2>6, <2>7 DEF NewestKept, lenNow
    <2>9. lenNow <= totalAccepted'
      BY <1>a, <1>b, <2>2, <2>3, <2>4
    <2>10. QED
      BY <2>5, <2>8, <2>9 DEF lenNow
  <1>4. CASE IngestMalformed
    BY <1>1, <1>4 DEF IngestMalformed
  <1>5. CASE IngestRateLimited
    BY <1>1, <1>5 DEF IngestRateLimited
  <1>6. ASSUME NEW t \in 0 .. MaxTime, Clock(t)
        PROVE  Ledger' /\ NewestKept' /\ Len(queue') <= totalAccepted'
    BY <1>1, <1>6 DEF Clock
  <1>7. CASE SetMark
    BY <1>1, <1>7 DEF SetMark
  <1>8. CASE Reset
    <2>1. Len(queue') = 0 /\ totalAccepted' = 0 /\ totalDropped' = 0
          /\ handedOut' = 0 /\ newestHandedOut' = 0
      BY <1>8 DEF Reset
    <2>2. QED
      BY <1>a, <2>1 DEF Ledger, NewestKept
  <1>9. CASE UNCHANGED guardVars
    BY <1>1, <1>9 DEF guardVars
  <1>10. QED
    BY <1>2, <1>3, <1>4, <1>5, <1>6, <1>7, <1>8, <1>9 DEF GuardNext

-----------------------------------------------------------------------------
(* Every reachable state of the guard is well typed; in particular the     *)
(* bucket never holds more than its capacity nor less than nothing.        *)
THEOREM TypeCorrect == GuardSpec => []GuardTypeOK
  BY InitTyped, NextTyped, PTL DEF GuardSpec

(* The rate limit holds over every interval, for every capacity and rate   *)
(* and every movement of the wall clock ingest() reads.                    *)
THEOREM RateLimitHolds == GuardSpec => []AdmissionBounded
  <1>1. BucketInv => AdmissionBounded
    <2> SUFFICES ASSUME BucketInv PROVE AdmissionBounded
      OBVIOUS
    <2>1. /\ totalAccepted - mark.accepted \in Int /\ elapsed - mark.elapsed \in Int
          /\ Refilled \in Nat /\ Capacity * Unit \in Nat
      BY Products DEF BucketInv, GuardTypeOK
    <2>2. /\ (totalAccepted - mark.accepted) * Unit \in Int
          /\ RefillRate * (elapsed - mark.elapsed) \in Int
      BY <2>1, GuardAssumption
    <2>3. QED
      BY <2>1, <2>2 DEF BucketInv, Budget, AdmissionBounded
  <1>2. QED
    BY <1>1, InitBucket, NextBucket, PTL DEF GuardSpec

(* Accepted events are pending, handed out or counted as dropped, and the  *)
(* queue of ingest() keeps to its limit.                                   *)
THEOREM NothingUncounted == GuardSpec => []Ledger
  <1>1. QueueInv => Ledger
    BY DEF QueueInv
  <1>2. QED
    BY <1>1, InitQueue, NextQueue, PTL DEF GuardSpec

(* Drop-oldest: a full queue of ingest() gives up its oldest event only.   *)
THEOREM DropsOldest == GuardSpec => []NewestKept
  <1>1. QueueInv => NewestKept
    BY DEF QueueInv
  <1>2. QED
    BY <1>1, InitQueue, NextQueue, PTL DEF GuardSpec

(* The queue holds the newest accepted events in order, and every other    *)
(* accepted event was handed out or counted as dropped.                    *)
THEOREM QueueKeepsFaith == GuardSpec => []QueueFaithful
  BY NothingUncounted, DropsOldest, PTL DEF QueueFaithful

-----------------------------------------------------------------------------
(* The watcher: the drift counts of the accounts.                          *)

Objects ==
    [account : Accounts, engineNonce : Nat, chainNonce : Nat, driftCount : Nat, maxDrift : Nat]

SyncRecords ==
    [at : {"none", "query", "alert"}, pos : Nat, object : Nat, drift : Nat, chain : Nat]

Alerting == {s \in Syncs : sync[s].at = "alert"}

WatcherTyped ==
    /\ heap \in Seq(Objects) /\ order \in Seq(Accounts)
    /\ states \in [Accounts -> Nat]
    /\ raised \in [Accounts -> Nat] /\ missed \in [Accounts -> Nat]
    /\ sync \in [Syncs -> SyncRecords]
    /\ IsFiniteSet(Alerting)

(* The Map holds objects of the account itself; only those have alerts. *)
Mapped(a) ==
    /\ states[a] # 0 => states[a] \in 1 .. Len(heap) /\ heap[states[a]].account = a
    /\ states[a] = 0 => raised[a] = 0 /\ missed[a] = 0

OrderRegistered == \A i \in 1 .. Len(order) : states[order[i]] # 0

(* A synchronisation holds an object of a registered account. *)
HoldsObject(object) ==
    object \in 1 .. Len(heap) /\ states[heap[object].account] # 0

Held == \A s \in Syncs : sync[s].at # "none" => HoldsObject(sync[s].object)

Counted(a) ==
    states[a] # 0 =>
        heap[states[a]].driftCount + Cardinality(InFlight(a)) + missed[a] = raised[a]

WatcherInv ==
    /\ WatcherTyped /\ OrderRegistered /\ Held
    /\ \A a \in Accounts : Mapped(a) /\ Counted(a)

-----------------------------------------------------------------------------
(* Of an account only finitely many updates are under way. *)
LEMMA InFlightFinite ==
    ASSUME WatcherTyped, NEW a
    PROVE  IsFiniteSet(InFlight(a)) /\ Cardinality(InFlight(a)) \in Nat
  <1>1. InFlight(a) \subseteq Alerting
    BY DEF InFlight, Alerting
  <1>2. QED
    BY <1>1, FS_Subset, FS_CardinalityType DEF WatcherTyped

(* The numbers of an account that is registered. *)
LEMMA CountedNumbers ==
    ASSUME WatcherInv, NEW a \in Accounts, states[a] # 0
    PROVE  /\ states[a] \in 1 .. Len(heap) /\ heap[states[a]].account = a
           /\ heap[states[a]].driftCount \in Nat /\ Cardinality(InFlight(a)) \in Nat
           /\ missed[a] \in Nat /\ raised[a] \in Nat
           /\ heap[states[a]].driftCount + Cardinality(InFlight(a)) + missed[a] = raised[a]
  <1>1. states[a] \in 1 .. Len(heap) /\ heap[states[a]].account = a
    BY DEF WatcherInv, Mapped
  <1>2. heap[states[a]] \in Objects
    BY <1>1 DEF WatcherInv, WatcherTyped
  <1>3. heap[states[a]].driftCount \in Nat
    BY <1>2 DEF Objects
  <1>4. QED
    BY <1>1, <1>3, InFlightFinite DEF WatcherInv, WatcherTyped, Counted

(* The next account of the Map, if there is one, and its object. *)
LEMMA VisitHolds ==
    ASSUME WatcherInv, NEW p \in Nat \ {0}
    PROVE  /\ Visit(p) \in SyncRecords /\ Visit(p).at # "alert"
           /\ Visit(p).at # "none" => HoldsObject(Visit(p).object)
  <1>1. CASE p <= Len(order)
    <2>1. order[p] \in Accounts /\ states[order[p]] # 0
      BY <1>1 DEF WatcherInv, WatcherTyped, OrderRegistered
    <2>2. PICK o : o = states[order[p]]
      OBVIOUS
    <2>3. o \in 1 .. Len(heap) /\ heap[o].account = order[p] /\ o \in Nat
      BY <2>1, <2>2 DEF WatcherInv, Mapped, WatcherTyped
    <2>4. Visit(p) = [at |-> "query", pos |-> p, object |-> o, drift |-> 0, chain |-> 0]
      BY <1>1, <2>2 DEF Visit
    <2>5. HoldsObject(o)
      BY <2>1, <2>2, <2>3 DEF HoldsObject
    <2>6. QED
      BY <2>3, <2>4, <2>5 DEF SyncRecords
  <1>2. CASE ~(p <= Len(order))
    BY <1>2 DEF Visit, NotSyncing, SyncRecords
  <1>3. QED
    BY <1>1, <1>2

(* A synchronisation that is not delivering an alert goes on. *)
LEMMA MovesOn ==
    ASSUME WatcherInv, NEW s \in Syncs, NEW p \in Nat \ {0}, sync[s].at # "alert",
           sync' = [sync EXCEPT ![s] = Visit(p)],
           UNCHANGED <<heap, order, states, raised, missed>>
    PROVE  WatcherInv'
  <1>1. PICK v : v = Visit(p)
    OBVIOUS
  <1>2. /\ v \in SyncRecords /\ v.at # "alert"
        /\ v.at # "none" => HoldsObject(v.object)
    BY <1>1, VisitHolds
  <1>3. /\ sync' \in [Syncs -> SyncRecords] /\ sync'[s] = v
        /\ \A t \in Syncs \ {s} : sync'[t] = sync[t]
    BY <1>1, <1>2 DEF WatcherInv, WatcherTyped
  <1>4. Alerting' = Alerting /\ \A a : InFlight(a)' = InFlight(a)
    <2>1. Alerting' = Alerting
      BY <1>2, <1>3 DEF Alerting
    <2>2. \A t \in Alerting : sync'[t] = sync[t]
      BY <1>3 DEF Alerting
    <2>3. \A a : InFlight(a) = {t \in Alerting : heap[sync[t].object].account = a}
      BY DEF InFlight, Alerting
    <2>4. \A a : InFlight(a)' = {t \in Alerting' : heap[sync'[t].object].account = a}
      BY DEF InFlight, Alerting
    <2>5. QED
      BY <2>1, <2>2, <2>3, <2>4
  <1>5. WatcherTyped'
    BY <1>3, <1>4 DEF WatcherInv, WatcherTyped
  <1>6. Held'
    BY <1>2, <1>3 DEF WatcherInv, Held, HoldsObject
  <1>7. \A a \in Accounts : Mapped(a)' /\ Counted(a)'
    BY <1>4 DEF WatcherInv, Mapped, Counted
  <1>8. OrderRegistered'
    BY DEF WatcherInv, OrderRegistered
  <1>9. QED
    BY <1>5, <1>6, <1>7, <1>8 DEF WatcherInv

(* A drift is seen: the alert is raised before the state is updated. *)
LEMMA RaiseAlertKeeps ==
    ASSUME WatcherInv, NEW s \in Syncs, NEW chain \in Nonces, RaiseAlert(s, chain)
    PROVE  WatcherInv'
  <1>1. PICK o, b, d : /\ o = sync[s].object /\ b = heap[o].account
                       /\ d = Drift(heap[o].engineNonce, chain)
    OBVIOUS
  <1>2. sync[s].at = "query" /\ HoldsObject(o) /\ sync[s] \in SyncRecords
    BY <1>1 DEF RaiseAlert, WatcherInv, Held, WatcherTyped
  <1>3. o \in 1 .. Len(heap) /\ heap[o] \in Objects /\ b \in Accounts /\ states[b] # 0
    <2>1. o \in 1 .. Len(heap) /\ heap[o] \in Objects
      BY <1>2 DEF HoldsObject, WatcherInv, WatcherTyped
    <2>2. b \in Accounts /\ states[b] # 0
      BY <1>1, <1>2, <2>1 DEF HoldsObject, Objects
    <2>3. QED
      BY <2>1, <2>2
  <1>4. d \in Nat /\ chain \in Nat
    BY <1>1, <1>3, WatcherAssumption DEF Drift, Objects
  <1>5. /\ raised' = [raised EXCEPT ![b] = @ + 1]
        /\ sync' = [sync EXCEPT ![s].at = "alert", ![s].drift = d, ![s].chain = chain]
        /\ UNCHANGED <<heap, order, states, missed>>
    BY <1>1 DEF RaiseAlert
  <1>6. /\ sync' \in [Syncs -> SyncRecords]
        /\ sync'[s].at = "alert" /\ sync'[s].object = o
        /\ \A t \in Syncs \ {s} : sync'[t] = sync[t]
    BY <1>1, <1>2, <1>4, <1>5 DEF WatcherInv, WatcherTyped, SyncRecords
  <1>7. /\ raised' \in [Accounts -> Nat] /\ raised'[b] = raised[b] + 1
        /\ \A a \in Accounts \ {b} : raised'[a] = raised[a]
    BY <1>3, <1>5 DEF WatcherInv, WatcherTyped
  <1>8. Alerting' = Alerting \union {s} /\ s \notin Alerting
    BY <1>2, <1>6 DEF Alerting
  <1>9. IsFiniteSet(Alerting)'
    BY <1>8, FS_AddElement DEF WatcherInv, WatcherTyped
  <1>10. /\ InFlight(b)' = InFlight(b) \union {s} /\ s \notin InFlight(b)
         /\ \A a : a # b => InFlight(a)' = InFlight(a)
    <2>1. \A t \in Alerting : sync'[t] = sync[t]
      BY <1>6, <1>8 DEF Alerting
    <2>2. \A a : InFlight(a) = {t \in Alerting : heap[sync[t].object].account = a}
      BY DEF InFlight, Alerting
    <2>3. \A a : InFlight(a)' = {t \in Alerting' : heap[sync'[t].object].account = a}
      BY <1>5 DEF InFlight, Alerting
    <2>4. heap[sync'[s].object].account = b
      BY <1>1, <1>6
    <2>5. QED
      BY <1>8, <2>1, <2>2, <2>3, <2>4
  <1>11. WatcherTyped'
    BY <1>5, <1>6, <1>7, <1>9 DEF WatcherInv, WatcherTyped
  <1>12. Held'
    BY <1>2, <1>5, <1>6 DEF WatcherInv, Held, HoldsObject
  <1>13. ASSUME NEW a \in Accounts PROVE Mapped(a)'
    BY <1>3, <1>5, <1>7 DEF WatcherInv, Mapped
  <1>14. ASSUME NEW a \in Accounts, states[a] # 0 PROVE Counted(a)'
    <2>1. CASE a = b
      <3>1. Cardinality(InFlight(b)') = Cardinality(InFlight(b)) + 1
        BY <1>10, InFlightFinite, FS_AddElement DEF WatcherInv
      <3>2. PICK i, n, k, m, u : /\ i = states[b] /\ n = heap[i].driftCount
                                 /\ k = Cardinality(InFlight(b)) /\ m = missed[b] /\ u = raised[b]
        OBVIOUS
      <3>3. n \in Nat /\ k \in Nat /\ m \in Nat /\ u \in Nat /\ n + k + m = u
        BY <1>3, <3>2, CountedNumbers
      <3>4. heap'[states'[b]].driftCount = n /\ missed'[b] = m
        BY <1>5, <3>2
      <3>5. n + (k + 1) + m = u + 1
        BY <3>3
      <3>6. QED
        BY <1>7, <2>1, <3>1, <3>2, <3>4, <3>5 DEF Counted
    <2>2. CASE a # b
      BY <1>5, <1>7, <1>10, <1>14, <2>2, CountedNumbers DEF Counted
    <2>3. QED
      BY <2>1, <2>2
  <1>15. \A a \in Accounts : Counted(a)'
    BY <1>5, <1>14 DEF Counted
  <1>16. OrderRegistered'
    BY <1>5 DEF WatcherInv, OrderRegistered
  <1>17. QED
    BY <1>11, <1>12, <1>13, <1>15, <1>16 DEF WatcherInv

(* The update counts the alert, on the object of the synchronisation: in   *)
(* the Map, or missed there. *)
LEMMA UpdateStateKeeps ==
    ASSUME WatcherInv, NEW s \in Syncs, UpdateState(s)
    PROVE  WatcherInv'
  <1>1. PICK o, v, r : o = sync[s].object /\ v = Visit(sync[s].pos + 1) /\ r = Updated(s)
    OBVIOUS
  <1>2. sync[s].at = "alert" /\ HoldsObject(o) /\ sync[s] \in SyncRecords
    BY <1>1 DEF UpdateState, WatcherInv, Held, WatcherTyped
  <1>3. o \in 1 .. Len(heap) /\ heap[o] \in Objects
    BY <1>2 DEF HoldsObject, WatcherInv, WatcherTyped
  <1>4. sync[s].pos + 1 \in Nat \ {0}
    BY <1>2 DEF SyncRecords
  <1>5. /\ v \in SyncRecords /\ v.at # "alert"
        /\ v.at # "none" => HoldsObject(v.object)
    BY <1>1, <1>4, VisitHolds
  <1>6. r \in Objects /\ r.account = heap[o].account /\ r.driftCount = heap[o].driftCount + 1
    <2>1. PICK c, m, n : /\ c = sync[s].chain /\ n = heap[o].driftCount + 1
                         /\ m = IF sync[s].drift > heap[o].maxDrift THEN sync[s].drift
                                                                    ELSE heap[o].maxDrift
      OBVIOUS
    <2>2. c \in Nat /\ m \in Nat /\ n \in Nat
      BY <1>2, <1>3, <2>1 DEF SyncRecords, Objects
    <2>3. r = [heap[o] EXCEPT !.chainNonce = c, !.driftCount = n, !.maxDrift = m]
      BY <1>1, <2>1 DEF Updated
    <2>4. QED
      BY <1>3, <2>1, <2>2, <2>3 DEF Objects
  <1>7. PICK b \in Accounts :
           /\ b = heap[o].account
           /\ heap' = [heap EXCEPT ![o] = r] /\ sync' = [sync EXCEPT ![s] = v]
           /\ missed' = IF o = states[b] THEN missed ELSE [missed EXCEPT ![b] = @ + 1]
           /\ UNCHANGED <<order, states, raised>>
    BY <1>1, <1>3 DEF UpdateState, Objects
  <1>8. /\ heap' \in Seq(Objects) /\ Len(heap') = Len(heap) /\ heap'[o] = r
        /\ \A i \in 1 .. Len(heap) : i # o => heap'[i] = heap[i]
    BY <1>3, <1>6, <1>7 DEF WatcherInv, WatcherTyped
  <1>9. \A i \in 1 .. Len(heap) : heap'[i].account = heap[i].account
    BY <1>6, <1>8
  <1>10. /\ sync' \in [Syncs -> SyncRecords] /\ sync'[s] = v
         /\ \A t \in Syncs \ {s} : sync'[t] = sync[t]
    BY <1>5, <1>7 DEF WatcherInv, WatcherTyped
  <1>11. Alerting' = Alerting \ {s} /\ s \in Alerting
    BY <1>2, <1>5, <1>10 DEF Alerting
  <1>12. IsFiniteSet(Alerting)'
    BY <1>11, FS_Subset DEF WatcherInv, WatcherTyped
  <1>13. /\ InFlight(b)' = InFlight(b) \ {s} /\ s \in InFlight(b)
         /\ \A a : a # b => InFlight(a)' = InFlight(a)
    <2>1. \A t \in Alerting \ {s} : sync'[t] = sync[t] /\ sync[t].object \in 1 .. Len(heap)
      BY <1>10 DEF Alerting, WatcherInv, Held, HoldsObject
    <2>2. \A t \in Alerting \ {s} :
             heap'[sync'[t].object].account = heap[sync[t].object].account
      BY <1>9, <2>1
    <2>3. \A a : InFlight(a) = {t \in Alerting : heap[sync[t].object].account = a}
      BY DEF InFlight, Alerting
    <2>4. \A a : InFlight(a)' = {t \in Alerting' : heap'[sync'[t].object].account = a}
      BY DEF InFlight, Alerting
    <2>5. heap[sync[s].object].account = b
      BY <1>1, <1>7
    <2>6. QED
      BY <1>11, <2>2, <2>3, <2>4, <2>5
  <1>14. missed' \in [Accounts -> Nat] /\ \A a \in Accounts \ {b} : missed'[a] = missed[a]
    BY <1>7 DEF WatcherInv, WatcherTyped
  <1>15. WatcherTyped'
    BY <1>7, <1>8, <1>10, <1>12, <1>14 DEF WatcherInv, WatcherTyped
  <1>16. \A i : HoldsObject(i) => HoldsObject(i)'
    BY <1>7, <1>8, <1>9 DEF HoldsObject
  <1>17. Held'
    BY <1>5, <1>10, <1>16 DEF WatcherInv, Held
  <1>18. states[b] # 0
    BY <1>2, <1>7 DEF HoldsObject
  <1>19. ASSUME NEW a \in Accounts PROVE Mapped(a)'
    <2>1. states[a] # 0 => states[a] \in 1 .. Len(heap) /\ heap[states[a]].account = a
      BY DEF WatcherInv, Mapped
    <2>2. states[a] = 0 => raised'[a] = 0 /\ missed'[a] = 0
      BY <1>7, <1>14, <1>18 DEF WatcherInv, Mapped
    <2>3. QED
      BY <1>7, <1>8, <1>9, <2>1, <2>2 DEF Mapped
  <1>20. ASSUME NEW a \in Accounts, states[a] # 0 PROVE Counted(a)'
    <2>1. CASE a = b
      <3>1. Cardinality(InFlight(b)') = Cardinality(InFlight(b)) - 1
        BY <1>13, InFlightFinite, FS_RemoveElement DEF WatcherInv
      <3>2. PICK n, k, m : /\ n = heap[states[b]].driftCount
                           /\ k = Cardinality(InFlight(b)) /\ m = missed[b]
        OBVIOUS
      <3>3. n \in Nat /\ k \in Nat /\ m \in Nat /\ n + k + m = raised[b]
        BY <1>18, <3>2, CountedNumbers
      <3>4. states'[b] = states[b] /\ raised'[b] = raised[b]
        BY <1>7
      <3>5. CASE o = states[b]
        <4>1. heap'[states[b]].driftCount = n + 1 /\ missed'[b] = m
          BY <1>6, <1>7, <1>8, <3>2, <3>5
        <4>2. (n + 1) + (k - 1) + m = raised[b]
          BY <3>3
        <4>3. QED
          BY <2>1, <3>1, <3>2, <3>4, <4>1, <4>2 DEF Counted
      <3>6. CASE o # states[b]
        <4>1. heap'[states[b]].driftCount = n
          BY <1>8, <1>18, <3>2, <3>6, CountedNumbers
        <4>2. missed'[b] = m + 1
          BY <1>7, <3>2, <3>6 DEF WatcherInv, WatcherTyped
        <4>3. n + (k - 1) + (m + 1) = raised[b]
          BY <3>3
        <4>4. QED
          BY <2>1, <3>1, <3>2, <3>4, <4>1, <4>2, <4>3 DEF Counted
      <3>7. QED
        BY <3>5, <3>6
    <2>2. CASE a # b
      <3>1. heap'[states[a]] = heap[states[a]]
        BY <1>7, <1>8, <1>20, <2>2, CountedNumbers
      <3>2. QED
        BY <1>7, <1>13, <1>14, <1>20, <2>2, <3>1, CountedNumbers DEF Counted
    <2>3. QED
      BY <2>1, <2>2
  <1>21. \A a \in Accounts : Counted(a)'
    BY <1>7, <1>20 DEF Counted
  <1>22. OrderRegistered'
    BY <1>7 DEF WatcherInv, OrderRegistered
  <1>23. QED
    BY <1>15, <1>17, <1>19, <1>21, <1>22 DEF WatcherInv

(* A registration puts a new object in the place of the account's. *)
LEMMA RegisterKeeps ==
    ASSUME WatcherInv, NEW a \in Accounts, NEW nonce \in Nonces, RegisterEngineNonce(a, nonce)
    PROVE  WatcherInv'
  <1>1. PICK r, n : r = Registered(a, nonce) /\ n = Len(heap) + 1
    OBVIOUS
  <1>2. /\ heap' = Append(heap, r) /\ states' = [states EXCEPT ![a] = n]
        /\ order' = IF states[a] = 0 THEN Append(order, a) ELSE order
        /\ UNCHANGED <<sync, raised, missed>>
    BY <1>1 DEF RegisterEngineNonce
  <1>3. /\ nonce \in Nat /\ heap \in Seq(Objects) /\ Len(heap) \in Nat
        /\ states \in [Accounts -> Nat] /\ raised \in [Accounts -> Nat]
        /\ Mapped(a) /\ Counted(a)
    BY WatcherAssumption DEF WatcherInv, WatcherTyped
  <1>4. /\ r \in Objects /\ r.account = a
        /\ states[a] = 0 => r.driftCount = 0
        /\ states[a] # 0 => r.driftCount = heap[states[a]].driftCount
    <2>1. CASE states[a] = 0
      BY <1>1, <1>3, <2>1 DEF Registered, Objects
    <2>2. CASE states[a] # 0
      <3>1. heap[states[a]] \in Objects /\ heap[states[a]].account = a
        BY <1>3, <2>2 DEF Mapped
      <3>2. QED
        BY <1>1, <1>3, <2>2, <3>1 DEF Registered, Objects
    <2>3. QED
      BY <2>1, <2>2
  <1>5. /\ heap' \in Seq(Objects) /\ Len(heap') = n /\ n \in Nat \ {0} /\ heap'[n] = r
        /\ \A i \in 1 .. Len(heap) : heap'[i] = heap[i] /\ i # n /\ i \in 1 .. n
    BY <1>1, <1>2, <1>3, <1>4
  <1>6. /\ states' \in [Accounts -> Nat] /\ states'[a] = n
        /\ \A b \in Accounts \ {a} : states'[b] = states[b]
    BY <1>2, <1>3, <1>5
  <1>7. Alerting' = Alerting /\ \A b : InFlight(b)' = InFlight(b)
    <2>1. Alerting' = Alerting
      BY <1>2 DEF Alerting
    <2>2. \A s \in Alerting : heap'[sync[s].object] = heap[sync[s].object]
      BY <1>5 DEF Alerting, WatcherInv, Held, HoldsObject
    <2>3. \A b : InFlight(b) = {s \in Alerting : heap[sync[s].object].account = b}
      BY DEF InFlight, Alerting
    <2>4. \A b : InFlight(b)' = {s \in Alerting' : heap'[sync'[s].object].account = b}
      BY DEF InFlight, Alerting
    <2>5. QED
      BY <1>2, <2>1, <2>2, <2>3, <2>4
  <1>8. OrderRegistered' /\ order' \in Seq(Accounts)
    <2>1. order \in Seq(Accounts) /\ \A i \in 1 .. Len(order) : states[order[i]] # 0
      BY DEF WatcherInv, WatcherTyped, OrderRegistered
    <2>2. \A b \in Accounts : b = a \/ states[b] # 0 => states'[b] # 0
      BY <1>5, <1>6
    <2>3. CASE states[a] = 0
      <3>1. order' \in Seq(Accounts) /\ Len(order') = Len(order) + 1 /\ order'[Len(order) + 1] = a
            /\ \A i \in 1 .. Len(order) : order'[i] = order[i]
        BY <1>2, <2>1, <2>3
      <3>2. \A i \in 1 .. Len(order') : i \in 1 .. Len(order) \/ i = Len(order) + 1
        BY <2>1, <3>1
      <3>3. QED
        BY <2>1, <2>2, <3>1, <3>2 DEF OrderRegistered
    <2>4. CASE states[a] # 0
      BY <1>2, <2>1, <2>2, <2>4 DEF OrderRegistered
    <2>5. QED
      BY <2>3, <2>4
  <1>9. WatcherTyped'
    BY <1>2, <1>5, <1>6, <1>7, <1>8 DEF WatcherInv, WatcherTyped
  <1>10. ASSUME NEW s \in Syncs, sync[s].at # "none" PROVE HoldsObject(sync[s].object)'
    <2>1. PICK o, b : o = sync[s].object /\ b = heap[o].account
      OBVIOUS
    <2>2. HoldsObject(o)
      BY <1>10, <2>1 DEF WatcherInv, Held
    <2>3. o \in 1 .. Len(heap) /\ heap[o] \in Objects /\ b \in Accounts
      <3>1. o \in 1 .. Len(heap) /\ heap[o] \in Objects
        BY <1>3, <2>2 DEF HoldsObject
      <3>2. QED
        BY <2>1, <3>1 DEF Objects
    <2>4. o \in 1 .. Len(heap') /\ heap'[o].account = b /\ o # 0
      BY <1>5, <2>1, <2>3
    <2>5. states'[b] # 0
      BY <1>5, <1>6, <2>1, <2>2, <2>3 DEF HoldsObject
    <2>6. sync'[s].object = o
      BY <1>2, <2>1
    <2>7. QED
      BY <2>4, <2>5, <2>6 DEF HoldsObject
  <1>11. Held'
    BY <1>2, <1>10 DEF Held
  <1>12. ASSUME NEW b \in Accounts PROVE Mapped(b)'
    <2>1. CASE b = a
      BY <1>4, <1>5, <1>6, <2>1 DEF Mapped
    <2>2. CASE b # a
      BY <1>2, <1>5, <1>6, <2>2 DEF WatcherInv, Mapped
    <2>3. QED
      BY <2>1, <2>2
  <1>13. Counted(a)'
    <2>1. r.driftCount + Cardinality(InFlight(a)) + missed[a] = raised[a]
      <3>1. CASE states[a] = 0
        <4>1. InFlight(a) = {}
          BY <3>1 DEF InFlight, WatcherInv, Held, HoldsObject
        <4>2. Cardinality(InFlight(a)) = 0
          BY <4>1, FS_EmptySet
        <4>3. QED
          BY <1>3, <1>4, <3>1, <4>2 DEF Mapped
      <3>2. CASE states[a] # 0
        BY <1>4, <3>2, CountedNumbers
      <3>3. QED
        BY <3>1, <3>2
    <2>2. heap'[states'[a]] = r /\ InFlight(a)' = InFlight(a)
      BY <1>5, <1>6, <1>7
    <2>3. QED
      BY <1>2, <2>1, <2>2 DEF Counted
  <1>14. ASSUME NEW b \in Accounts, b # a PROVE Counted(b)'
    <2>1. states[b] # 0 => heap'[states[b]] = heap[states[b]]
      BY <1>5 DEF WatcherInv, Mapped
    <2>2. states'[b] = states[b] /\ InFlight(b)' = InFlight(b)
      BY <1>6, <1>7, <1>14
    <2>3. QED
      BY <1>2, <2>1, <2>2 DEF WatcherInv, Counted
  <1>15. QED
    BY <1>8, <1>9, <1>11, <1>12, <1>13, <1>14 DEF WatcherInv

(* For any number of accounts and of overlapping synchronisations: every   *)
(* alert raised for an account is in its driftCount, is being delivered,   *)
(* or updated an object that a registration had replaced.                  *)
THEOREM DriftIsAccounted == WatcherSpec => []DriftAccounted
  <1>1. WatcherInit => WatcherInv
    <2> SUFFICES ASSUME WatcherInit PROVE WatcherInv
      OBVIOUS
    <2>1. \A s \in Syncs : sync[s].at = "none"
      BY DEF WatcherInit, NotSyncing
    <2>2. Alerting = {}
      BY <2>1 DEF Alerting
    <2>3. heap \in Seq(Objects) /\ order \in Seq(Accounts) /\ Len(order) = 0
      BY DEF WatcherInit
    <2>4. NotSyncing \in SyncRecords
      BY DEF NotSyncing, SyncRecords
    <2>5. WatcherTyped
      BY <2>2, <2>3, <2>4, FS_EmptySet DEF WatcherInit, WatcherTyped
    <2>6. OrderRegistered /\ Held
      BY <2>1, <2>3 DEF OrderRegistered, Held
    <2>7. \A a \in Accounts : Mapped(a) /\ Counted(a)
      BY DEF WatcherInit, Mapped, Counted
    <2>8. QED
      BY <2>5, <2>6, <2>7 DEF WatcherInv
  <1>2. WatcherInv /\ [WatcherNext]_watcherVars => WatcherInv'
    <2> SUFFICES ASSUME WatcherInv, [WatcherNext]_watcherVars PROVE WatcherInv'
      OBVIOUS
    <2>1. ASSUME NEW s \in Syncs, Start(s) \/ IntervalFires(s) PROVE WatcherInv'
      BY <2>1, MovesOn DEF Start, IntervalFires, BeginSync
    <2>2. ASSUME NEW s \in Syncs, NoDrift(s) PROVE WatcherInv'
      <3>1. sync[s].pos + 1 \in Nat \ {0}
        BY DEF WatcherInv, WatcherTyped, SyncRecords
      <3>2. QED
        BY <2>2, <3>1, MovesOn DEF NoDrift
    <2>3. CASE Stop \/ UNCHANGED watcherVars
      <3>1. UNCHANGED <<heap, order, states, sync, raised, missed>>
        BY <2>3 DEF Stop, watcherVars
      <3>2. QED
        BY <3>1 DEF WatcherInv, WatcherTyped, OrderRegistered, Held, HoldsObject, Mapped,
                    Counted, InFlight, Alerting
    <2>4. QED
      BY <2>1, <2>2, <2>3, RegisterKeeps, RaiseAlertKeeps, UpdateStateKeeps DEF WatcherNext
  <1>3. WatcherInv => DriftAccounted
    BY DEF WatcherInv, Counted, DriftAccounted
  <1>4. QED
    BY <1>1, <1>2, <1>3, PTL DEF WatcherSpec
=============================================================================
