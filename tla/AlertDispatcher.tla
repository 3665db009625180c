-------------------------- MODULE AlertDispatcher ---------------------------
(***************************************************************************)
(* AnomalyAlertDispatcher (anomaly-alert-dispatcher.ts) in front of        *)
(* DashboardClient (dashboard-client.ts): batches of alerts are dispatched *)
(* one after the other, each batch waiting for the dashboard at every      *)
(* alert, while other batches run and the dispatcher may be shut down.     *)
(*                                                                         *)
(* An alert is "ok", "invalid" (validateAlert() throws its typed error) or *)
(* "broken" (null, or a value whose property access throws something       *)
(* else).  A single dispatch() is a batch of one whose error is thrown     *)
(* instead of returned.                                                    *)
(***************************************************************************)
EXTENDS Integers, Sequences, FiniteSets

CONSTANTS
    DispatchBatches,    \* the calls of dispatchBatch()
    MaxInputs           \* bound on the alerts of a batch

ASSUME DispatcherAssumption == MaxInputs \in Nat

VARIABLES
    nonBlocking, hasClient,         \* the configuration
    isShutdown,
    deliveredCount, failedCount,
    inputs,                         \* the alerts of each batch
    results,                        \* what each batch has collected so far
    stage,                          \* "idle", "run", "sending", "done", "rejected"
    onDashboard                     \* history: the sends the dashboard took

dispatcherVars ==
    <<nonBlocking, hasClient, isShutdown, deliveredCount, failedCount, inputs, results,
      stage, onDashboard>>

Config == <<nonBlocking, hasClient, inputs>>

DispatcherInit ==
    /\ nonBlocking \in BOOLEAN /\ hasClient \in BOOLEAN
    /\ isShutdown = FALSE
    /\ deliveredCount = 0 /\ failedCount = 0
    /\ inputs \in [DispatchBatches -> UNION {[1 .. n -> {"ok", "invalid", "broken"}] : n \in 0 .. MaxInputs}]
    /\ results = [b \in DispatchBatches |-> <<>>]
    /\ stage = [b \in DispatchBatches |-> "idle"]
    /\ onDashboard = 0

Current(b) == inputs[b][Len(results[b]) + 1]

(* One more result of a batch. *)
Result(b, delivered, error) ==
    /\ results' = [results EXCEPT ![b] = Append(@, [delivered |-> delivered, error |-> error])]
    /\ stage' = [stage EXCEPT ![b] = "run"]

(* dispatchBatch() is called. *)
BeginBatch(b) ==
    /\ stage[b] = "idle"
    /\ stage' = [stage EXCEPT ![b] = IF isShutdown THEN "rejected" ELSE "run"]
    /\ UNCHANGED <<Config, isShutdown, deliveredCount, failedCount, results, onDashboard>>

(* What dispatch() counts before anything is sent: AlertValidationError    *)
(* and a missing client, not an error of another type.                     *)
CountsAsFailed(alert) == alert \in {"ok", "invalid"}

(* dispatch() throws after shutdown(), also in the middle of a batch. *)
MayDispatch == ~isShutdown

(* dispatch() of the next alert ends before anything is sent: the          *)
(* dispatcher was shut down, the alert is bad, or there is no client.      *)
DispatchUnsent(b) ==
    /\ stage[b] = "run" /\ Len(results[b]) < Len(inputs[b])
    /\ ~MayDispatch \/ Current(b) # "ok" \/ ~hasClient
    /\ IF ~MayDispatch
          THEN Result(b, FALSE, "DISPATCHER_SHUTDOWN") /\ UNCHANGED failedCount
          ELSE /\ Result(b, FALSE, IF Current(b) = "ok" THEN "" ELSE Current(b))
               /\ failedCount' = failedCount + (IF CountsAsFailed(Current(b)) THEN 1 ELSE 0)
    /\ UNCHANGED <<Config, isShutdown, deliveredCount, onDashboard>>

(* dispatch() calls sendAlert() and waits. *)
DispatchSend(b) ==
    /\ stage[b] = "run" /\ Len(results[b]) < Len(inputs[b])
    /\ MayDispatch /\ Current(b) = "ok" /\ hasClient
    /\ stage' = [stage EXCEPT ![b] = "sending"]
    /\ UNCHANGED <<Config, isShutdown, deliveredCount, failedCount, results, onDashboard>>

(* DashboardClient.sendAlert() returns true. *)
SendDelivered(b) ==
    /\ stage[b] = "sending"
    /\ deliveredCount' = deliveredCount + 1
    /\ onDashboard' = onDashboard + 1
    /\ Result(b, TRUE, "")
    /\ UNCHANGED <<Config, isShutdown, failedCount>>

\* Slip: the error thrown in blocking mode is counted again where it is caught.
SendFailureCountTwice == IF nonBlocking THEN 1 ELSE 2

(* It is counted before it is thrown; the catch clause re-throws it. *)
SendFailureCount == 1

(* sendAlert() returns false: an error answer, a timeout, or an answer     *)
(* that was lost after the dashboard took the alert (arrived).  An         *)
(* injected client that throws ends alike.                                 *)
SendFails(b, arrived) ==
    /\ stage[b] = "sending"
    /\ failedCount' = failedCount + SendFailureCount
    /\ onDashboard' = onDashboard + (IF arrived THEN 1 ELSE 0)
    /\ Result(b, FALSE, "DASHBOARD_DELIVERY_FAILED")
    /\ UNCHANGED <<Config, isShutdown, deliveredCount>>

EndBatch(b) ==
    /\ stage[b] = "run" /\ Len(results[b]) = Len(inputs[b])
    /\ stage' = [stage EXCEPT ![b] = "done"]
    /\ UNCHANGED <<Config, isShutdown, deliveredCount, failedCount, results, onDashboard>>

Shutdown ==
    /\ ~isShutdown
    /\ isShutdown' = TRUE
    /\ UNCHANGED <<Config, deliveredCount, failedCount, results, stage, onDashboard>>

DispatcherProgress ==
    \E b \in DispatchBatches :
        \/ DispatchUnsent(b) \/ DispatchSend(b)
        \/ SendDelivered(b) \/ (\E arrived \in BOOLEAN : SendFails(b, arrived))
        \/ EndBatch(b)

DispatcherNext ==
    \/ \E b \in DispatchBatches : BeginBatch(b)
    \/ Shutdown
    \/ DispatcherProgress

DispatcherSpec ==
    DispatcherInit /\ [][DispatcherNext]_dispatcherVars /\ WF_dispatcherVars(DispatcherProgress)

-----------------------------------------------------------------------------
(* The results of all batches so far: each is a batch and a position. *)
BatchResults ==
    {x \in DispatchBatches \X (1 .. MaxInputs) : x[2] <= Len(results[x[1]])}

ResultAt(x) == results[x[1]][x[2]]

Delivered == {x \in BatchResults : ResultAt(x).delivered}

(* Refused by the shutdown or broken is not what failedCount counts. *)
CountedFailed ==
    {x \in BatchResults : /\ ~ResultAt(x).delivered
                     /\ ResultAt(x).error \notin {"DISPATCHER_SHUTDOWN", "broken"}}

(* The two counters tell the same story as the results, across batches and *)
(* a shutdown in the middle of them: an alert that was tried is counted    *)
(* once, as delivered or as failed; one refused by the shutdown, or broken *)
(* in a way the validation does not foresee, in neither.  What is counted  *)
(* as delivered is on the dashboard.                                       *)
CountersAddUp ==
    /\ deliveredCount = Cardinality(Delivered)
    /\ failedCount = Cardinality(CountedFailed)
    /\ deliveredCount <= onDashboard

(* Every batch that was accepted returns, also when the dispatcher is shut *)
(* down in the middle of it.                                               *)
EveryBatchReturns == \A b \in DispatchBatches : stage[b] = "run" ~> stage[b] = "done"
=============================================================================
