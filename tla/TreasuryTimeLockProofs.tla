----------------------- MODULE TreasuryTimeLockProofs -----------------------
(***************************************************************************)
(* Proofs about the treasury time lock, for every configuration that       *)
(* new() accepts, every number of requests and every word size.            *)
(***************************************************************************)
EXTENDS TreasuryTimeLock, FiniteSetTheorems, TLAPS

(* What holds of one stored record between calls.  NeverCorrupt alone is   *)
(* not inductive: that an executed record carries no reason follows only   *)
(* because unsettled records carry none, and the upper end of the window   *)
(* is something the sweep never looks at.                                  *)
RecordOK(r) ==
    /\ RequestValid(r.amount, r.created_at, r.execute_after)
    /\ r.expires_at = WrappingAdd(r.execute_after, Grace)
    /\ r.status \in {"Pending", "Ready", "Expired"} =>
          /\ r.executed_at = None
          /\ r.cancelled_at = None
          /\ r.cancellation_reason = None
    /\ r.status = "Executed" =>
          /\ r.execute_after <= r.executed_at
          /\ r.executed_at <= r.expires_at
          /\ r.cancelled_at = None
          /\ r.cancellation_reason = None
    /\ r.status = "Cancelled" =>
          /\ r.executed_at = None
          /\ r.cancelled_at # None
          /\ r.cancellation_reason >= 5

RecordsOK == \A id \in DOMAIN requests : RecordOK(requests[id])

-----------------------------------------------------------------------------
(* The wrapped sum of two u64 values is a u64 value. *)
LEMMA WrappingAddType ==
    ASSUME NEW a \in Word, NEW b \in Word
    PROVE  WrappingAdd(a, b) \in Word
  BY TreasuryAssumption DEF WrappingAdd, Word

(* The only written value of a time transition is one of the five statuses. *)
LEMMA TimedStatusType ==
    ASSUME NEW r \in Outflow, NEW now \in Word
    PROVE  TimedStatus(r, now) \in Statuses
  BY DEF TimedStatus, Outflow, Statuses

(* A time transition keeps settled requests settled and open ones open. *)
LEMMA TimedStatusSettled ==
    ASSUME NEW r \in Outflow, NEW now \in Word
    PROVE  /\ r.status \in {"Executed", "Cancelled"} => TimedStatus(r, now) = r.status
           /\ r.status \in {"Pending", "Ready", "Expired"} =>
                 TimedStatus(r, now) \in {"Pending", "Ready", "Expired"}
  BY DEF TimedStatus, Outflow, Statuses

(* "Ready" is computed only inside the window. *)
LEMMA ReadyMeansInWindow ==
    ASSUME NEW r \in Outflow, NEW now \in Word, TimedStatus(r, now) = "Ready"
    PROVE  /\ r.status \in {"Pending", "Ready", "Expired"}
           /\ r.execute_after <= now
           /\ now <= r.expires_at
  BY DEF TimedStatus, Outflow, Statuses, Word

(* The record schedule_outflow inserts. *)
NewOutflow(amount, created, after) ==
    [amount |-> amount, created_at |-> created, execute_after |-> after,
     expires_at |-> WrappingAdd(after, Grace),
     status |-> "Pending", executed_at |-> None,
     cancelled_at |-> None, cancellation_reason |-> None]

(* A request that passes validation is a consistent record. *)
LEMMA NewOutflowOK ==
    ASSUME NEW amount \in Amounts, NEW created \in Word, NEW after \in Word,
           RequestValid(amount, created, after)
    PROVE  /\ NewOutflow(amount, created, after) \in Outflow
           /\ RecordOK(NewOutflow(amount, created, after))
  <1>1. WrappingAdd(after, Grace) \in Word
    BY WrappingAddType, TreasuryAssumption
  <1>2. amount \in Word
    BY TreasuryAssumption
  <1>3. NewOutflow(amount, created, after) \in Outflow
    BY <1>1, <1>2 DEF NewOutflow, Outflow, Statuses, None
  <1>4. QED
    BY <1>3 DEF NewOutflow, RecordOK

-----------------------------------------------------------------------------
(* Each call, seen through the one record it writes: the record changes    *)
(* from r to q, and all other records stay.                                *)
WritesRecord(id, q) ==
    /\ id \in DOMAIN requests
    /\ requests' = [requests EXCEPT ![id] = q]

(* What release_outflow() does to the record, transition included. *)
LEMMA ReleaseWrites ==
    ASSUME TypeOK, NEW id \in RequestIds, NEW now \in Word, ReleaseOutflow(id, now)
    PROVE  \E q \in Outflow :
              /\ WritesRecord(id, q)
              /\ RecordOK(requests[id]) => RecordOK(q)
              /\ ~Stale(q, now)
              /\ lastCall' = [ids |-> {id}, now |-> now]
              /\ \/ /\ requests[id].status \in {"Pending", "Ready", "Expired"}
                    /\ q.status = "Executed"
                    /\ settled' = [settled EXCEPT ![id] = settled[id] + 1]
                 \/ /\ requests[id].status \in {"Pending", "Ready", "Expired"}
                    /\ q.status \in {"Pending", "Ready", "Expired"}
                    /\ settled' = settled
                 \/ /\ requests[id].status \in {"Executed", "Cancelled"}
                    /\ q = requests[id]
                    /\ settled' = settled
  <1> DEFINE r == requests[id]
             s == TimedStatus(r, now)
  <1>1. r \in Outflow /\ id \in DOMAIN requests
    BY DEF TypeOK, ReleaseOutflow
  <1>2. CASE s = "Ready"
    <2> DEFINE q == [r EXCEPT !.status = "Executed", !.executed_at = now]
    <2>1. q \in Outflow
      BY <1>1 DEF Outflow, Statuses
    <2>2. /\ requests' = [requests EXCEPT ![id] = q]
          /\ settled' = [settled EXCEPT ![id] = settled[id] + 1]
      BY <1>2 DEF ReleaseOutflow
    <2>3. /\ r.status \in {"Pending", "Ready", "Expired"}
          /\ r.execute_after <= now /\ now <= r.expires_at
      BY <1>1, <1>2, ReadyMeansInWindow
    <2>4. RecordOK(r) => RecordOK(q)
      BY <1>1, <2>3 DEF RecordOK, Outflow
    <2>5. ~Stale(q, now) /\ q.status = "Executed"
      BY <1>1 DEF Stale, Outflow
    <2>6. QED
      BY <1>1, <2>1, <2>2, <2>3, <2>4, <2>5 DEF WritesRecord, ReleaseOutflow
  <1>3. CASE s # "Ready"
    <2> DEFINE q == [r EXCEPT !.status = s]
    <2>1. s \in Statuses
      BY <1>1, TimedStatusType
    <2>2. q \in Outflow /\ q.status = s
      BY <1>1, <2>1 DEF Outflow
    <2>3. requests' = [requests EXCEPT ![id] = q] /\ settled' = settled
      BY <1>3 DEF ReleaseOutflow
    <2>4. CASE r.status \in {"Executed", "Cancelled"}
      <3>1. s = r.status
        BY <1>1, <2>4, TimedStatusSettled
      <3>2. q = r
        BY <1>1, <3>1 DEF Outflow
      <3>3. ~Stale(q, now)
        BY <2>4, <3>2 DEF Stale
      <3>4. QED
        BY <1>1, <2>2, <2>3, <2>4, <3>2, <3>3 DEF WritesRecord, ReleaseOutflow
    <2>5. CASE r.status \in {"Pending", "Ready", "Expired"}
      <3>1. s \in {"Pending", "Ready", "Expired"}
        BY <1>1, <2>5, TimedStatusSettled
      <3>2. RecordOK(r) => RecordOK(q)
        BY <1>1, <2>1, <2>5, <3>1 DEF RecordOK, Outflow
      <3>3. ~Stale(q, now)
        BY <1>1, <2>5 DEF Stale, TimedStatus, Outflow, Word
      <3>4. QED
        BY <1>1, <2>2, <2>3, <2>5, <3>1, <3>2, <3>3 DEF WritesRecord, ReleaseOutflow
    <2>6. QED
      BY <1>1, <2>4, <2>5 DEF Outflow, Statuses
  <1>4. QED
    BY <1>2, <1>3

(* What cancel_outflow() does to the record, transition included. *)
LEMMA CancelWrites ==
    ASSUME TypeOK, NEW id \in RequestIds, NEW n \in ReasonLengths, NEW now \in Word,
           CancelOutflow(id, n, now)
    PROVE  \E q \in Outflow :
              /\ WritesRecord(id, q)
              /\ RecordOK(requests[id]) => RecordOK(q)
              /\ ~Stale(q, now)
              /\ lastCall' = [ids |-> {id}, now |-> now]
              /\ \/ /\ requests[id].status \in {"Pending", "Ready", "Expired"}
                    /\ q.status = "Cancelled"
                    /\ settled' = [settled EXCEPT ![id] = settled[id] + 1]
                 \/ /\ requests[id].status \in {"Executed", "Cancelled"}
                    /\ q = requests[id]
                    /\ settled' = settled
  <1> DEFINE r == requests[id]
  <1>1. r \in Outflow /\ id \in DOMAIN requests /\ n \in Nat /\ n >= 5
    BY TreasuryAssumption DEF TypeOK, CancelOutflow
  <1>2. CASE r.status \in {"Pending", "Ready", "Expired"}
    <2> DEFINE q == [r EXCEPT !.status = "Cancelled", !.cancelled_at = now,
                              !.cancellation_reason = n]
    <2>1. TimedStatus(r, now) \in {"Pending", "Ready", "Expired"}
      BY <1>1, <1>2, TimedStatusSettled
    <2>2. /\ requests' = [requests EXCEPT ![id] = q]
          /\ settled' = [settled EXCEPT ![id] = settled[id] + 1]
      BY <2>1 DEF CancelOutflow
    <2>3. q \in Outflow /\ q.status = "Cancelled"
      BY <1>1 DEF Outflow, Statuses
    <2>4. RecordOK(r) => RecordOK(q)
      BY <1>1, <1>2 DEF RecordOK, Outflow, None, Word
    <2>5. ~Stale(q, now)
      BY <2>3 DEF Stale
    <2>6. QED
      BY <1>1, <1>2, <2>2, <2>3, <2>4, <2>5 DEF WritesRecord, CancelOutflow
  <1>3. CASE r.status \in {"Executed", "Cancelled"}
    <2>1. TimedStatus(r, now) = r.status
      BY <1>1, <1>3, TimedStatusSettled
    <2>2. requests' = requests /\ settled' = settled
      BY <1>3, <2>1 DEF CancelOutflow
    <2>3. requests' = [requests EXCEPT ![id] = r]
      BY <1>1, <2>2 DEF TypeOK
    <2>4. ~Stale(r, now)
      BY <1>3 DEF Stale
    <2>5. QED
      BY <1>1, <1>3, <2>2, <2>3, <2>4 DEF WritesRecord, CancelOutflow
  <1>4. QED
    BY <1>1, <1>2, <1>3 DEF Outflow, Statuses

-----------------------------------------------------------------------------
(* The inductive invariant. *)
IInv ==
    /\ TypeOK
    /\ RecordsOK
    /\ TouchedIsFresh
    /\ SettledAtMostOnce
    /\ WithinPendingLimit

(* The table starts empty. *)
LEMMA InitIInv == Init => IInv
  <1> SUFFICES ASSUME Init PROVE IInv
    OBVIOUS
  <1>1. DOMAIN requests = {}
    BY DEF Init
  <1>2. TypeOK
    BY <1>1, TreasuryAssumption DEF Init, TypeOK, Word
  <1>3. RecordsOK /\ TouchedIsFresh
    BY <1>1 DEF Init, RecordsOK, TouchedIsFresh
  <1>4. SettledAtMostOnce
    BY <1>1 DEF Init, SettledAtMostOnce
  <1>5. WithinPendingLimit
    <2>1. {id \in DOMAIN requests :
              requests[id].status \in {"Pending", "Ready", "Expired"}} = {}
      BY <1>1
    <2>2. QED
      BY <2>1, FS_EmptySet, TreasuryAssumption DEF WithinPendingLimit
  <1>6. QED
    BY <1>2, <1>3, <1>4, <1>5 DEF IInv

(* The set schedule_outflow counts is the one WithinPendingLimit bounds,   *)
(* and it is finite.                                                       *)
LEMMA ActiveIdsFinite ==
    ASSUME TypeOK
    PROVE  /\ ActiveIds = {id \in DOMAIN requests :
                  requests[id].status \in {"Pending", "Ready", "Expired"}}
           /\ IsFiniteSet(ActiveIds)
  <1>1. \A id \in DOMAIN requests : requests[id].status \in Statuses
    BY DEF TypeOK, Outflow
  <1>2. ActiveIds \subseteq RequestIds
    BY DEF ActiveIds, TypeOK
  <1>3. IsFiniteSet(ActiveIds)
    BY <1>2, FS_Subset, TreasuryAssumption
  <1>4. QED
    BY <1>1, <1>3 DEF ActiveIds, Statuses

(* schedule_outflow() adds a consistent record within the limit. *)
LEMMA ScheduleIInv ==
    ASSUME IInv, NEW id \in RequestIds, NEW amount \in Amounts,
           NEW created \in Word, NEW after \in Word,
           ScheduleOutflow(id, amount, created, after)
    PROVE  IInv'
  <1> DEFINE q == NewOutflow(amount, created, after)
  <1>1. q \in Outflow /\ RecordOK(q) /\ q.status = "Pending"
    BY NewOutflowOK DEF ScheduleOutflow, NewOutflow
  <1>2. /\ id \notin DOMAIN requests
        /\ DOMAIN requests' = DOMAIN requests \cup {id}
        /\ requests'[id] = q
        /\ \A i \in DOMAIN requests : requests'[i] = requests[i]
        /\ requests' = [i \in DOMAIN requests' |-> requests'[i]]
        /\ lastCall' = lastCall /\ settled' = settled
    BY DEF ScheduleOutflow, NewOutflow
  <1>3. TypeOK'
    <2>1. \A i \in DOMAIN requests' : requests'[i] \in Outflow
      BY <1>1, <1>2 DEF IInv, TypeOK
    <2>2. requests' \in [DOMAIN requests' -> Outflow]
      BY <1>2, <2>1
    <2>3. QED
      BY <1>2, <2>2 DEF IInv, TypeOK
  <1>4. RecordsOK'
    BY <1>1, <1>2 DEF IInv, RecordsOK
  <1>5. TouchedIsFresh'
    BY <1>2 DEF IInv, TypeOK, TouchedIsFresh
  <1>6. SettledAtMostOnce'
    BY <1>1, <1>2 DEF IInv, SettledAtMostOnce
  <1>7. WithinPendingLimit'
    <2> DEFINE A == {i \in DOMAIN requests' :
                        requests'[i].status \in {"Pending", "Ready", "Expired"}}
    <2>1. ActiveIds = {i \in DOMAIN requests :
                        requests[i].status \in {"Pending", "Ready", "Expired"}}
      BY ActiveIdsFinite DEF IInv
    <2>2. A = ActiveIds \cup {id} /\ id \notin ActiveIds
      BY <1>1, <1>2, <2>1
    <2>3. IsFiniteSet(ActiveIds)
      BY ActiveIdsFinite DEF IInv
    <2>4. Cardinality(A) = Cardinality(ActiveIds) + 1
      BY <2>2, <2>3, FS_AddElement
    <2>5. Cardinality(ActiveIds) \in Nat /\ Cardinality(ActiveIds) < MaxPending
      BY <2>3, FS_CardinalityType DEF ScheduleOutflow
    <2>6. Cardinality(A) <= MaxPending
      BY <2>4, <2>5, TreasuryAssumption
    <2>7. QED
      BY <2>6 DEF WithinPendingLimit
  <1>8. QED
    BY <1>3, <1>4, <1>5, <1>6, <1>7 DEF IInv

(* release_outflow and cancel_outflow: both write one record as ReleaseWrites *)
(* and CancelWrites describe.                                              *)
LEMMA WriteIInv ==
    ASSUME IInv, NEW id \in RequestIds, NEW now \in Word, NEW q \in Outflow,
           WritesRecord(id, q),
           RecordOK(requests[id]) => RecordOK(q),
           ~Stale(q, now),
           lastCall' = [ids |-> {id}, now |-> now],
           \/ /\ requests[id].status \in {"Pending", "Ready", "Expired"}
              /\ q.status \in {"Executed", "Cancelled"}
              /\ settled' = [settled EXCEPT ![id] = settled[id] + 1]
           \/ /\ requests[id].status \in {"Pending", "Ready", "Expired"}
              /\ q.status \in {"Pending", "Ready", "Expired"}
              /\ settled' = settled
           \/ /\ requests[id].status \in {"Executed", "Cancelled"}
              /\ q = requests[id]
              /\ settled' = settled
    PROVE  IInv'
  <1>1. /\ id \in DOMAIN requests
        /\ DOMAIN requests' = DOMAIN requests
        /\ requests'[id] = q
        /\ \A i \in DOMAIN requests \ {id} : requests'[i] = requests[i]
        /\ requests' \in [DOMAIN requests -> Outflow]
    BY DEF WritesRecord, IInv, TypeOK
  <1>2. TypeOK'
    BY <1>1 DEF IInv, TypeOK
  <1>3. RecordsOK'
    BY <1>1 DEF IInv, RecordsOK
  <1>4. TouchedIsFresh'
    BY <1>1 DEF TouchedIsFresh
  <1>5. SettledAtMostOnce'
    <2> SUFFICES ASSUME NEW i \in RequestIds
                 PROVE  settled'[i] =
                          IF /\ i \in DOMAIN requests'
                             /\ requests'[i].status \in {"Executed", "Cancelled"}
                          THEN 1 ELSE 0
      BY DEF SettledAtMostOnce
    <2>1. CASE i # id
      BY <1>1, <2>1 DEF IInv, TypeOK, SettledAtMostOnce
    <2>2. CASE i = id
      BY <1>1, <2>2 DEF IInv, TypeOK, SettledAtMostOnce
    <2>3. QED
      BY <2>1, <2>2
  <1>6. WithinPendingLimit'
    <2> DEFINE A == {i \in DOMAIN requests' :
                        requests'[i].status \in {"Pending", "Ready", "Expired"}}
    <2>1. A \subseteq ActiveIds
      BY <1>1 DEF ActiveIds
    <2>2. /\ IsFiniteSet(ActiveIds)
          /\ Cardinality(ActiveIds) <= MaxPending
      BY ActiveIdsFinite DEF IInv, WithinPendingLimit
    <2>3. Cardinality(A) <= Cardinality(ActiveIds) /\ IsFiniteSet(A)
      BY <2>1, <2>2, FS_Subset
    <2>4. Cardinality(A) <= MaxPending
      BY <2>2, <2>3, FS_CardinalityType, TreasuryAssumption
    <2>5. QED
      BY <2>4 DEF WithinPendingLimit
  <1>7. QED
    BY <1>2, <1>3, <1>4, <1>5, <1>6 DEF IInv

(* Every call keeps the invariant. *)
LEMMA NextIInv == IInv /\ [Next]_vars => IInv'
  <1> SUFFICES ASSUME IInv, [Next]_vars PROVE IInv'
    OBVIOUS
  <1> USE DEF IInv
  <1>1. CASE \E id \in RequestIds, amount \in Amounts, created \in Word, after \in Word :
               ScheduleOutflow(id, amount, created, after)
    BY <1>1, ScheduleIInv
  <1>2. ASSUME NEW id \in RequestIds, NEW now \in Word, ReleaseOutflow(id, now)
        PROVE  IInv'
    <2>1. TypeOK
      OBVIOUS
    <2>2. QED
      BY <1>2, <2>1, ReleaseWrites, WriteIInv
  <1>3. ASSUME NEW id \in RequestIds, NEW n \in ReasonLengths, NEW now \in Word,
               CancelOutflow(id, n, now)
        PROVE  IInv'
    <2>1. TypeOK
      OBVIOUS
    <2>2. QED
      BY <1>3, <2>1, CancelWrites, WriteIInv
  <1>4. CASE UNCHANGED vars
    BY <1>4 DEF vars, TypeOK, RecordsOK, TouchedIsFresh, SettledAtMostOnce,
                WithinPendingLimit
  <1>5. QED
    BY <1>1, <1>2, <1>3, <1>4 DEF Next

-----------------------------------------------------------------------------
(* The strengthened invariant holds in every reachable state. *)
THEOREM Invariance == Spec => []IInv
  BY InitIInv, NextIInv, PTL DEF Spec

(* Every stored field keeps its Rust type: in particular expires_at stays  *)
(* a u64 although the addition that computes it is unchecked.              *)
THEOREM TypeCorrect == Spec => []TypeOK
  <1>1. IInv => TypeOK
    BY DEF IInv
  <1>2. QED
    BY <1>1, Invariance, PTL

(* The time lock itself: a released outflow was released inside its window *)
(* and not before created_at + min_delay_secs.                             *)
THEOREM TimeLockHolds == Spec => []ReleasedOnlyInWindow
  <1>1. IInv => ReleasedOnlyInWindow
    <2> SUFFICES ASSUME IInv, NEW id \in DOMAIN requests,
                        requests[id].status = "Executed"
                 PROVE  /\ requests[id].execute_after <= requests[id].executed_at
                        /\ requests[id].executed_at <= requests[id].expires_at
                        /\ MinDelay > 0 =>
                             requests[id].executed_at >= requests[id].created_at + MinDelay
      BY DEF ReleasedOnlyInWindow
    <2>1. requests[id] \in Outflow /\ RecordOK(requests[id])
      BY DEF IInv, TypeOK, RecordsOK
    <2>2. QED
      BY <2>1, TreasuryAssumption
         DEF RecordOK, RequestValid, SaturatingSub, Outflow, Word, None
  <1>2. QED
    BY <1>1, Invariance, PTL

(* An outflow is settled at most once: never paid twice, never both paid   *)
(* and cancelled.                                                          *)
THEOREM SettlesOnce == Spec => []SettledAtMostOnce
  <1>1. IInv => SettledAtMostOnce
    BY DEF IInv
  <1>2. QED
    BY <1>1, Invariance, PTL

(* The number of unsettled requests never exceeds max_pending_requests. *)
THEOREM PendingBounded == Spec => []WithinPendingLimit
  <1>1. IInv => WithinPendingLimit
    BY DEF IInv
  <1>2. QED
    BY <1>1, Invariance, PTL

(* verify_state_integrity can never report contradictory fields, and never *)
(* calls a request stale at the time of the call that just touched it.     *)
THEOREM SweepReportsOnlyStaleness == Spec => [](NeverCorrupt /\ TouchedIsFresh)
  <1>1. IInv => NeverCorrupt /\ TouchedIsFresh
    <2> SUFFICES ASSUME IInv, NEW id \in DOMAIN requests
                 PROVE  ~Corrupt(requests[id])
      BY DEF IInv, NeverCorrupt
    <2>1. requests[id] \in Outflow /\ RecordOK(requests[id])
      BY DEF IInv, TypeOK, RecordsOK
    <2>2. QED
      BY <2>1 DEF RecordOK, Corrupt, Outflow, Word, None
  <1>2. QED
    BY <1>1, Invariance, PTL

(* A settled record is never written again and no request leaves the table. *)
THEOREM SettlementIsFinal == Spec => SettledIsFinal
  <1> DEFINE Final == \A id \in DOMAIN requests :
                 /\ id \in DOMAIN requests'
                 /\ requests[id].status \in {"Executed", "Cancelled"} =>
                       requests'[id] = requests[id]
  <1>1. IInv /\ [Next]_vars => [Final]_vars
    <2> SUFFICES ASSUME IInv, Next PROVE Final
      OBVIOUS
    <2>1. ASSUME NEW id \in RequestIds, NEW amount \in Amounts,
                 NEW created \in Word, NEW after \in Word,
                 ScheduleOutflow(id, amount, created, after)
          PROVE  Final
      BY <2>1 DEF ScheduleOutflow
    <2>2. ASSUME NEW id \in RequestIds, NEW q \in Outflow, WritesRecord(id, q),
                 requests[id].status \in {"Executed", "Cancelled"} => q = requests[id]
          PROVE  Final
      BY <2>2 DEF WritesRecord
    <2>3. ASSUME NEW id \in RequestIds, NEW now \in Word, ReleaseOutflow(id, now)
          PROVE  Final
      <3>1. TypeOK
        BY DEF IInv
      <3>2. PICK q \in Outflow :
                /\ WritesRecord(id, q)
                /\ requests[id].status \in {"Executed", "Cancelled"} => q = requests[id]
        BY <2>3, <3>1, ReleaseWrites
      <3>3. QED
        BY <2>2, <3>2
    <2>4. ASSUME NEW id \in RequestIds, NEW n \in ReasonLengths, NEW now \in Word,
                 CancelOutflow(id, n, now)
          PROVE  Final
      <3>1. TypeOK
        BY DEF IInv
      <3>2. PICK q \in Outflow :
                /\ WritesRecord(id, q)
                /\ requests[id].status \in {"Executed", "Cancelled"} => q = requests[id]
        BY <2>4, <3>1, CancelWrites
      <3>3. QED
        BY <2>2, <3>2
    <2>5. QED
      BY <2>1, <2>3, <2>4 DEF Next
  <1>2. QED
    BY <1>1, Invariance, PTL DEF Spec, SettledIsFinal

-----------------------------------------------------------------------------
(* The refinement: an id is open in the contract exactly when               *)
(* active_request_count counts it.                                         *)
LEMMA OpenAreActive ==
    ASSUME TypeOK
    PROVE  {id \in RequestIds : Phase(id) = "open"} = ActiveIds
  <1>1. ActiveIds \subseteq RequestIds
    BY DEF ActiveIds, TypeOK
  <1>2. \A id \in RequestIds : Phase(id) = "open" <=> id \in ActiveIds
    BY DEF Phase, ActiveIds
  <1>3. QED
    BY <1>1, <1>2

(* An empty table is an empty contract. *)
LEMMA InitContract == Init => Contract!Init
  <1> SUFFICES ASSUME Init PROVE Contract!Init
    OBVIOUS
  <1>1. \A id \in RequestIds : Phase(id) = "unknown"
    BY DEF Init, Phase
  <1>2. QED
    BY <1>1 DEF Init, Phases, Contract!Init

(* A step that changes the record of one request only, as a caller sees it. *)
LEMMA PhaseOfOthers ==
    ASSUME NEW id \in RequestIds,
           \A i \in RequestIds \ {id} : Phase(i)' = Phase(i)
    PROVE  Phases' = [Phases EXCEPT ![id] = Phase(id)']
  BY DEF Phases

(* schedule_outflow opens the request in the contract. *)
LEMMA ScheduleAccepts ==
    ASSUME TypeOK, NEW id \in RequestIds, NEW amount \in Amounts,
           NEW created \in Word, NEW after \in Word,
           ScheduleOutflow(id, amount, created, after)
    PROVE  Contract!Accept(id)
  <1>1. /\ id \notin DOMAIN requests
        /\ DOMAIN requests' = DOMAIN requests \cup {id}
        /\ requests'[id].status = "Pending"
        /\ \A i \in DOMAIN requests : requests'[i] = requests[i]
        /\ settled' = settled
    BY DEF ScheduleOutflow
  <1>2. Phase(id) = "unknown" /\ Phase(id)' = "open"
    BY <1>1 DEF Phase
  <1>3. \A i \in RequestIds \ {id} : Phase(i)' = Phase(i)
    BY <1>1 DEF Phase
  <1>4. Cardinality({i \in RequestIds : Phase(i) = "open"}) < MaxPending
    BY OpenAreActive DEF ScheduleOutflow
  <1>5. {i \in RequestIds : Phases[i] = "open"}
          = {i \in RequestIds : Phase(i) = "open"}
    BY DEF Phases
  <1>6. Contract!Cardinality(Contract!Open) = Cardinality(Contract!Open)
    BY DEF Cardinality, Contract!Cardinality
  <1>7. QED
    BY <1>1, <1>2, <1>3, <1>4, <1>5, <1>6, PhaseOfOthers DEF Phases, Contract!Accept, Contract!Open

(* A release or cancel call settles the request, or shows callers nothing. *)
LEMMA WriteSettles ==
    ASSUME TypeOK, NEW id \in RequestIds, NEW q \in Outflow, WritesRecord(id, q),
           \/ /\ requests[id].status \in {"Pending", "Ready", "Expired"}
              /\ q.status \in {"Executed", "Cancelled"}
              /\ settled' = [settled EXCEPT ![id] = settled[id] + 1]
           \/ /\ requests[id].status \in {"Pending", "Ready", "Expired"}
              /\ q.status \in {"Pending", "Ready", "Expired"}
              /\ settled' = settled
           \/ /\ requests[id].status \in {"Executed", "Cancelled"}
              /\ q = requests[id]
              /\ settled' = settled
    PROVE  \/ \E outcome \in {"paid", "void"} : Contract!Settle(id, outcome)
           \/ UNCHANGED Contract!contractVars
  <1>1. /\ id \in DOMAIN requests
        /\ DOMAIN requests' = DOMAIN requests
        /\ requests'[id] = q
        /\ \A i \in DOMAIN requests \ {id} : requests'[i] = requests[i]
    BY DEF WritesRecord, TypeOK
  <1>2. \A i \in RequestIds \ {id} : Phase(i)' = Phase(i)
    BY <1>1 DEF Phase
  <1>3. CASE /\ requests[id].status \in {"Pending", "Ready", "Expired"}
             /\ q.status \in {"Executed", "Cancelled"}
             /\ settled' = [settled EXCEPT ![id] = settled[id] + 1]
    <2>1. Phase(id) = "open" /\ Phase(id)' \in {"paid", "void"}
      BY <1>1, <1>3 DEF Phase
    <2>2. Contract!Settle(id, Phase(id)')
      BY <1>2, <1>3, <2>1, PhaseOfOthers DEF Phases, Contract!Settle
    <2>3. QED
      BY <2>1, <2>2
  <1>4. CASE settled' = settled /\ Phase(id)' = Phase(id)
    <2>1. \A i \in RequestIds : Phase(i)' = Phase(i)
      BY <1>2, <1>4
    <2>2. QED
      BY <1>4, <2>1 DEF Phases, Contract!contractVars
  <1>5. QED
    BY <1>1, <1>3, <1>4 DEF Phase

(* The time lock implements the contract its callers rely on: a request is *)
(* opened once and within the limit and settled by exactly one             *)
(* announcement, paid or void for good.                                    *)
THEOREM ImplementsContract == Spec => MeetsContract
  <1>1. IInv /\ [Next]_vars => [Contract!Next]_(Contract!contractVars)
    <2> SUFFICES ASSUME IInv, [Next]_vars,
                        ~ UNCHANGED Contract!contractVars
                 PROVE  Contract!Next
      OBVIOUS
    <2>1. TypeOK
      BY DEF IInv
    <2>2. ASSUME NEW id \in RequestIds, NEW amount \in Amounts,
                 NEW created \in Word, NEW after \in Word,
                 ScheduleOutflow(id, amount, created, after)
          PROVE  Contract!Next
      BY <2>1, <2>2, ScheduleAccepts DEF Contract!Next
    <2>3. ASSUME NEW id \in RequestIds, NEW now \in Word, ReleaseOutflow(id, now)
          PROVE  Contract!Next
      BY <2>1, <2>3, ReleaseWrites, WriteSettles DEF Contract!Next
    <2>4. ASSUME NEW id \in RequestIds, NEW n \in ReasonLengths, NEW now \in Word,
                 CancelOutflow(id, n, now)
          PROVE  Contract!Next
      BY <2>1, <2>4, CancelWrites, WriteSettles DEF Contract!Next
    <2>5. CASE UNCHANGED vars
      BY <2>5 DEF vars, Phase, Phases, Contract!contractVars
    <2>6. QED
      BY <2>2, <2>3, <2>4, <2>5 DEF Next
  <1>2. QED
    BY <1>1, InitContract, Invariance, PTL DEF Spec, MeetsContract, Contract!Spec
=============================================================================
