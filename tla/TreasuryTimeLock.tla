-------------------------- MODULE TreasuryTimeLock --------------------------
(***************************************************************************)
(* The treasury outflow time lock of the audit-guard crate: a table of     *)
(* outflow requests that unlock after a delay, expire after a grace period *)
(* and settle at most once (released or cancelled).                        *)
(*                                                                         *)
(* The lock has no clock of its own.  Every call carries the caller's      *)
(* `now`, and nothing forces two calls to agree, so each call here takes   *)
(* an arbitrary time: clocks that jump back and forth are included.  Times *)
(* are u64; execute_after + grace_period_secs is an unchecked addition     *)
(* that wraps in a release build.  (A debug build panics before the table  *)
(* is touched, which is a stuttering step.)                                *)
(***************************************************************************)
EXTENDS Integers, FiniteSets

CONSTANTS
    RequestIds,     \* request_id values
    WordSize,       \* 2^64 in the code: u64 values are 0 .. WordSize - 1
    MinDelay,       \* config.min_delay_secs
    MaxDelay,       \* config.max_delay_secs
    MaxAmount,      \* config.max_amount
    Grace,          \* config.grace_period_secs
    MaxPending,     \* config.max_pending_requests
    Amounts,        \* request amounts offered by callers
    ReasonLengths   \* lengths of the trimmed cancellation reasons offered

Word == 0 .. WordSize - 1

\* new() refuses a configuration that fails config.validate().
ConfigValid == MinDelay <= MaxDelay /\ MaxAmount # 0

ASSUME TreasuryAssumption ==
    /\ IsFiniteSet(RequestIds)
    /\ WordSize \in Nat \ {0}
    /\ {MinDelay, MaxDelay, MaxAmount, Grace} \subseteq Word
    /\ MaxPending \in Nat
    /\ Amounts \subseteq Word
    /\ ReasonLengths \subseteq Nat
    /\ ConfigValid

VARIABLES
    requests,   \* self.requests: a function on the ids scheduled so far
    lastCall,   \* the request and time of the latest release or cancel call
    settled     \* settled[id]: calls that told a caller "released"/"cancelled"

vars == <<requests, lastCall, settled>>

None == -1      \* Option::None; every u64 and every length is non-negative

Statuses == {"Pending", "Ready", "Executed", "Cancelled", "Expired"}

Outflow ==
    [amount : Word, created_at : Word, execute_after : Word, expires_at : Word,
     status : Statuses, executed_at : Word \cup {None},
     cancelled_at : Word \cup {None},
     cancellation_reason : Nat \cup {None}]

-----------------------------------------------------------------------------
(* Arithmetic of the code's u64 values. *)

WrappingAdd(a, b) == IF a + b < WordSize THEN a + b ELSE a + b - WordSize

SaturatingSub(a, b) == IF a < b THEN 0 ELSE a - b

(* request.validate(config) *)
RequestValid(amount, created, after) ==
    /\ amount <= MaxAmount
    /\ SaturatingSub(after, created) >= MinDelay
    /\ SaturatingSub(after, created) <= MaxDelay

\* Slip: expired requests give their slot back, though nothing settled them.
ActiveIdsWithoutExpired ==
    {id \in DOMAIN requests :
        requests[id].status \notin {"Executed", "Cancelled", "Expired"}}

(* active_request_count() is the size of this set. *)
ActiveIds ==
    {id \in DOMAIN requests : requests[id].status \notin {"Executed", "Cancelled"}}

\* Slip: the early return for settled requests is missing.
TimedStatusNoEarlyReturn(r, now) ==
    IF now > r.expires_at THEN "Expired"
    ELSE IF now >= r.execute_after THEN "Ready"
    ELSE "Pending"

\* Slip: the unlock test comes before the expiry test.
TimedStatusUnlockFirst(r, now) ==
    IF r.status \in {"Executed", "Cancelled"} THEN r.status
    ELSE IF now >= r.execute_after THEN "Ready"
    ELSE IF now > r.expires_at THEN "Expired"
    ELSE "Pending"

(* ScheduledTreasuryOutflow::apply_time_transition *)
TimedStatus(r, now) ==
    IF r.status \in {"Executed", "Cancelled"} THEN r.status
    ELSE IF now > r.expires_at THEN "Expired"
    ELSE IF now >= r.execute_after THEN "Ready"
    ELSE "Pending"

-----------------------------------------------------------------------------
(* verify_state_integrity, one request at a time: what the sweep at time   *)
(* `now` would report about record r.  "corrupt" stands for the checks of  *)
(* fields against each other, "stale" for those of the status against now. *)

Corrupt(r) ==
    \/ ~RequestValid(r.amount, r.created_at, r.execute_after)
    \/ r.expires_at # WrappingAdd(r.execute_after, Grace)
    \/ /\ r.status \in {"Pending", "Ready", "Expired"}
       /\ r.executed_at # None \/ r.cancelled_at # None
    \/ /\ r.status = "Executed"
       /\ \/ r.executed_at = None
          \/ r.executed_at < r.execute_after
          \/ r.cancelled_at # None
          \/ r.cancellation_reason # None
    \/ /\ r.status = "Cancelled"
       /\ \/ r.executed_at # None
          \/ r.cancelled_at = None
          \/ r.cancellation_reason \in {None, 0}

Stale(r, now) ==
    \/ r.status = "Pending" /\ now >= r.execute_after
    \/ r.status = "Ready" /\ (now < r.execute_after \/ now > r.expires_at)
    \/ r.status = "Expired" /\ now <= r.expires_at

-----------------------------------------------------------------------------
Init ==
    /\ requests = [id \in {} |-> None]
    /\ lastCall = [ids |-> {}, now |-> 0]
    /\ settled = [id \in RequestIds |-> 0]

ScheduleOutflow(id, amount, created, after) ==
    /\ RequestValid(amount, created, after)
    /\ id \notin DOMAIN requests
    /\ Cardinality(ActiveIds) < MaxPending
    /\ requests' =
         [i \in DOMAIN requests \cup {id} |->
            IF i = id
            THEN [amount |-> amount, created_at |-> created,
                  execute_after |-> after,
                  expires_at |-> WrappingAdd(after, Grace),
                  status |-> "Pending", executed_at |-> None,
                  cancelled_at |-> None, cancellation_reason |-> None]
            ELSE requests[i]]
    /\ UNCHANGED <<lastCall, settled>>

\* The time transition is stored even when the call then returns an error.
ReleaseOutflow(id, now) ==
    /\ id \in DOMAIN requests
    /\ lastCall' = [ids |-> {id}, now |-> now]
    /\ LET r == requests[id]
           s == TimedStatus(r, now)
       IN  IF s = "Ready"
           THEN /\ requests' = [requests EXCEPT
                      ![id] = [r EXCEPT !.status = "Executed", !.executed_at = now]]
                /\ settled' = [settled EXCEPT ![id] = settled[id] + 1]
           ELSE /\ requests' = [requests EXCEPT ![id] = [r EXCEPT !.status = s]]
                /\ UNCHANGED settled

\* Slip: an executed request can still be cancelled.
CancelOutflowOfExecuted(id, reasonLength, now) ==
    /\ reasonLength >= 5
    /\ id \in DOMAIN requests
    /\ lastCall' = [ids |-> {id}, now |-> now]
    /\ requests[id].status # "Cancelled"
    /\ requests' = [requests EXCEPT
          ![id] = [requests[id] EXCEPT !.status = "Cancelled",
                                       !.cancelled_at = now,
                                       !.cancellation_reason = reasonLength]]
    /\ settled' = [settled EXCEPT ![id] = settled[id] + 1]

CancelOutflow(id, reasonLength, now) ==
    /\ reasonLength >= 5
    /\ id \in DOMAIN requests
    /\ lastCall' = [ids |-> {id}, now |-> now]
    /\ LET r == requests[id]
       IN  IF TimedStatus(r, now) \in {"Pending", "Ready", "Expired"}
           THEN /\ requests' = [requests EXCEPT
                      ![id] = [r EXCEPT !.status = "Cancelled",
                                        !.cancelled_at = now,
                                        !.cancellation_reason = reasonLength]]
                /\ settled' = [settled EXCEPT ![id] = settled[id] + 1]
           ELSE UNCHANGED <<requests, settled>>

Next ==
    \/ \E id \in RequestIds, amount \in Amounts, created \in Word, after \in Word :
         ScheduleOutflow(id, amount, created, after)
    \/ \E id \in RequestIds, now \in Word : ReleaseOutflow(id, now)
    \/ \E id \in RequestIds, n \in ReasonLengths, now \in Word :
         CancelOutflow(id, n, now)

Spec == Init /\ [][Next]_vars

-----------------------------------------------------------------------------
(* Every stored field has its Rust type, and a call is recorded for a      *)
(* request of the table.                                                   *)
TypeOK ==
    /\ DOMAIN requests \subseteq RequestIds
    /\ requests \in [DOMAIN requests -> Outflow]
    /\ lastCall \in [ids : SUBSET RequestIds, now : Word]
    /\ lastCall.ids \subseteq DOMAIN requests
    /\ settled \in [RequestIds -> Nat]

(* A released outflow was released inside its window [execute_after,       *)
(* expires_at], and with a non-zero minimum delay never earlier than       *)
(* created_at + min_delay_secs -- whatever clocks the callers passed,      *)
(* status changes stored by earlier failed calls and a wrapped expires_at  *)
(* included.                                                               *)
ReleasedOnlyInWindow ==
    \A id \in DOMAIN requests :
        requests[id].status = "Executed" =>
            /\ requests[id].execute_after <= requests[id].executed_at
            /\ requests[id].executed_at <= requests[id].expires_at
            /\ MinDelay > 0 =>
                  requests[id].executed_at >= requests[id].created_at + MinDelay

(* No sequence of release and cancel calls tells callers twice that the    *)
(* same request was settled: an outflow is paid at most once and never     *)
(* both paid and cancelled.                                                *)
SettledAtMostOnce ==
    \A id \in RequestIds :
        settled[id] = IF /\ id \in DOMAIN requests
                         /\ requests[id].status \in {"Executed", "Cancelled"}
                      THEN 1 ELSE 0

(* schedule_outflow's check keeps the number of requests that are neither  *)
(* executed nor cancelled within max_pending_requests.                     *)
WithinPendingLimit ==
    Cardinality({id \in DOMAIN requests :
                    requests[id].status \in {"Pending", "Ready", "Expired"}})
        <= MaxPending

(* verify_state_integrity never finds fields that contradict each other:   *)
(* what it can report about a table built by these calls is staleness.     *)
NeverCorrupt == \A id \in DOMAIN requests : ~Corrupt(requests[id])

(* A request that release_outflow or cancel_outflow just touched passes    *)
(* the integrity sweep at the time of that call, the failed calls too.     *)
TouchedIsFresh ==
    \A id \in lastCall.ids : ~Stale(requests[id], lastCall.now)

(* Executed and Cancelled are final: the record is never written again,    *)
(* and no request ever leaves the table.                                   *)
SettledIsFinal ==
    [][\A id \in DOMAIN requests :
          /\ id \in DOMAIN requests'
          /\ requests[id].status \in {"Executed", "Cancelled"} =>
                requests'[id] = requests[id]]_vars

-----------------------------------------------------------------------------
(* A request as its callers see it. *)
Phase(id) ==
    IF id \notin DOMAIN requests THEN "unknown"
    ELSE CASE requests[id].status = "Executed" -> "paid"
           [] requests[id].status = "Cancelled" -> "void"
           [] OTHER -> "open"

Phases == [id \in RequestIds |-> Phase(id)]

Contract == INSTANCE OutflowContract WITH phase <- Phases, told <- settled

(* The table implements the callers' contract: behind every schedule,      *)
(* release and cancel call, at whatever times and with whatever statuses   *)
(* earlier failed calls stored, a request is opened once and within the    *)
(* limit, and settled by exactly one announcement, paid or void for good.  *)
MeetsContract == Contract!Spec
=============================================================================
