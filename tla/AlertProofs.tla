---------------------------- MODULE AlertProofs -----------------------------
(***************************************************************************)
(* Proofs about the three ways an alert takes: the webhook and its relay   *)
(* log, the dispatcher in front of the dashboard, and the signers with the *)
(* on-call roster behind them; for any number of calls.  At the end, about *)
(* the emergency exit engine, which an alert may lead to.                  *)
(***************************************************************************)
EXTENDS EmergencyExit, WebhookAlert, AlertDispatcher, SignerNotification, FiniteSetTheorems, TLAPS

-----------------------------------------------------------------------------
(* sendAlert() and the relay log.                                          *)

Stages == {"idle", "mkdir", "fetch", "log", "log2", "returned", "rejected"}

SendStatuses == {"none", "NO_WEBHOOK_CONFIGURED", "FETCH_UNAVAILABLE", "NETWORK_ERROR",
                 "TIMEOUT", "200", "500"}

LogEntries == [send : Sends, delivered : BOOLEAN]

(* An answer of the endpoint is what the call is about to log or has       *)
(* returned; what is logged has returned.                                  *)
WebhookInv ==
    /\ at \in [Sends -> Stages]
    /\ status \in [Sends -> SendStatuses]
    /\ relayLog \in Seq(LogEntries)
    /\ \A s \in Sends : status[s] = "200" => s \in acked /\ at[s] \in {"log", "returned"}
    /\ \A s \in Sends : at[s] \in {"mkdir", "fetch", "log", "log2"} =>
                            status[s] # "NO_WEBHOOK_CONFIGURED"
    /\ \A i \in DOMAIN relayLog :
          /\ at[relayLog[i].send] = "returned"
          /\ relayLog[i].delivered => relayLog[i].send \in acked
    /\ \A s \in Sends :
          at[s] = "returned" /\ status[s] # "NO_WEBHOOK_CONFIGURED" =>
              \E i \in DOMAIN relayLog :
                  /\ relayLog[i].delivered = (status[s] = "200")
                  /\ \A j \in DOMAIN relayLog : relayLog[j].send = s <=> j = i

(* A call moves on to a stage where it has not returned, or returns        *)
(* without a request, and logs nothing.                                    *)
LEMMA GoKeeps ==
    ASSUME WebhookInv, NEW s \in Sends, NEW where \in Stages, NEW what \in SendStatuses,
           Go(s, where, what), at[s] # "returned", relayLog' = relayLog,
           acked \subseteq acked',
           what = "200" => s \in acked' /\ where = "log",
           what = "NO_WEBHOOK_CONFIGURED" <=> where = "returned"
    PROVE  WebhookInv'
  <1>1. /\ at' = [at EXCEPT ![s] = where] /\ status' = [status EXCEPT ![s] = what]
        /\ at'[s] = where /\ status'[s] = what
        /\ \A r \in Sends \ {s} : at'[r] = at[r] /\ status'[r] = status[r]
    BY DEF Go, WebhookInv
  <1>2. at' \in [Sends -> Stages] /\ status' \in [Sends -> SendStatuses]
    BY <1>1 DEF WebhookInv
  <1>3. \A i \in DOMAIN relayLog : relayLog[i] \in LogEntries /\ relayLog[i].send \in Sends \ {s}
    <2>1. \A i \in DOMAIN relayLog : relayLog[i] \in LogEntries
      BY DEF WebhookInv
    <2>2. \A i \in DOMAIN relayLog : at[relayLog[i].send] = "returned"
      BY DEF WebhookInv
    <2>3. QED
      BY <2>1, <2>2 DEF LogEntries
  <1>4. QED
    BY <1>1, <1>2, <1>3 DEF WebhookInv

(* The log entry ends the call and says what the call returns. *)
LEMMA LogWrittenKeeps ==
    ASSUME WebhookInv, NEW s \in Sends, LogWritten(s) PROVE WebhookInv'
  <1> DEFINE d == status[s] = "200"
             e == Entry(s)
             n == Len(relayLog) + 1
  <1>1. /\ at' = [at EXCEPT ![s] = "returned"] /\ status' = status /\ acked' = acked
        /\ at[s] \in {"log", "log2"} /\ relayLog' = Append(relayLog, e)
    BY DEF LogWritten, Go, WebhookInv
  <1>2. e.send = s /\ e.delivered = d /\ d \in BOOLEAN /\ e \in LogEntries
    BY DEF Entry, LogEntries
  <1> HIDE DEF e, d
  <1>3. /\ relayLog' \in Seq(LogEntries) /\ n \in DOMAIN relayLog'
        /\ DOMAIN relayLog' = DOMAIN relayLog \union {n} /\ n \notin DOMAIN relayLog
        /\ \A i \in DOMAIN relayLog : relayLog'[i] = relayLog[i]
        /\ relayLog'[n] = e
    BY <1>1, <1>2 DEF WebhookInv
  <1>4. \A i \in DOMAIN relayLog : relayLog[i] \in LogEntries /\ relayLog[i].send \in Sends \ {s}
    <2>1. \A i \in DOMAIN relayLog : relayLog[i] \in LogEntries
      BY DEF WebhookInv
    <2>2. \A i \in DOMAIN relayLog : at[relayLog[i].send] = "returned"
      BY DEF WebhookInv
    <2>3. QED
      BY <1>1, <2>1, <2>2 DEF LogEntries
  <1>5. d => s \in acked
    BY DEF d, WebhookInv
  <1>6. \A i \in DOMAIN relayLog' :
          /\ at'[relayLog'[i].send] = "returned"
          /\ relayLog'[i].delivered => relayLog'[i].send \in acked'
    BY <1>1, <1>2, <1>3, <1>4, <1>5 DEF WebhookInv
  <1>7. \A r \in Sends :
          at'[r] = "returned" /\ status'[r] # "NO_WEBHOOK_CONFIGURED" =>
              \E i \in DOMAIN relayLog' :
                  /\ relayLog'[i].delivered = (status'[r] = "200")
                  /\ \A j \in DOMAIN relayLog' : relayLog'[j].send = r <=> j = i
    <2> SUFFICES ASSUME NEW r \in Sends, at'[r] = "returned",
                        status'[r] # "NO_WEBHOOK_CONFIGURED"
                 PROVE  \E i \in DOMAIN relayLog' :
                          /\ relayLog'[i].delivered = (status'[r] = "200")
                          /\ \A j \in DOMAIN relayLog' : relayLog'[j].send = r <=> j = i
      OBVIOUS
    <2>1. CASE r = s
      <3>1. relayLog'[n].delivered = (status'[r] = "200")
        BY <2>1, <1>1, <1>2, <1>3 DEF d
      <3>2. \A j \in DOMAIN relayLog' : relayLog'[j].send = r <=> j = n
        BY <2>1, <1>2, <1>3, <1>4
      <3>3. QED
        BY <3>1, <3>2, <1>3
    <2>2. CASE r # s
      <3>1. at[r] = "returned" /\ status[r] = status'[r]
        BY <2>2, <1>1 DEF WebhookInv
      <3>2. PICK i \in DOMAIN relayLog :
               /\ relayLog[i].delivered = (status[r] = "200")
               /\ \A j \in DOMAIN relayLog : relayLog[j].send = r <=> j = i
        BY <3>1 DEF WebhookInv
      <3>3. \A j \in DOMAIN relayLog' : relayLog'[j].send = r <=> j = i
        BY <2>2, <3>2, <1>2, <1>3
      <3>4. QED
        BY <3>1, <3>2, <3>3, <1>3
    <2>3. QED
      BY <2>1, <2>2
  <1>8. \A r \in Sends : status'[r] = "200" => r \in acked' /\ at'[r] \in {"log", "returned"}
    BY <1>1 DEF WebhookInv
  <1>9. at' \in [Sends -> Stages] /\ status' \in [Sends -> SendStatuses]
    BY <1>1 DEF WebhookInv, Stages
  <1>10. \A r \in Sends : at'[r] \in {"mkdir", "fetch", "log", "log2"} =>
                            status'[r] # "NO_WEBHOOK_CONFIGURED"
    BY <1>1 DEF WebhookInv
  <1>11. QED
    BY <1>3, <1>6, <1>7, <1>8, <1>9, <1>10 DEF WebhookInv

(* For any number of concurrent calls, lost answers, timeouts and errors   *)
(* of the log: "delivered" is claimed only of an alert the endpoint took,  *)
(* and result and log agree.                                               *)
THEOREM WebhookReports == WebhookSpec => []ReportedAsSent
  <1>1. WebhookInit => WebhookInv
    <2> SUFFICES ASSUME WebhookInit PROVE WebhookInv
      OBVIOUS
    <2>1. relayLog \in Seq(LogEntries) /\ DOMAIN relayLog = {}
      BY DEF WebhookInit
    <2>2. QED
      BY <2>1 DEF WebhookInit, WebhookInv, Stages, SendStatuses
  <1>2. WebhookInv /\ [WebhookNext]_webhookVars => WebhookInv'
    <2> SUFFICES ASSUME WebhookInv, [WebhookNext]_webhookVars PROVE WebhookInv'
      OBVIOUS
    <2>1. ASSUME NEW s \in Sends, NotConfigured(s) PROVE WebhookInv'
      BY <2>1, GoKeeps DEF NotConfigured, Stages, SendStatuses
    <2>2. ASSUME NEW s \in Sends, SendAlert(s) PROVE WebhookInv'
      BY <2>2, GoKeeps DEF SendAlert, Stages, SendStatuses
    <2>3. ASSUME NEW s \in Sends, EndpointAcks(s) PROVE WebhookInv'
      BY <2>3 DEF EndpointAcks, WebhookInv
    <2>4. ASSUME NEW s \in Sends, FetchAnswers(s) PROVE WebhookInv'
      <3>1. PICK answer \in Answers(s) : Go(s, "log", answer)
        BY <2>4 DEF FetchAnswers
      <3>2. answer \in SendStatuses /\ answer # "NO_WEBHOOK_CONFIGURED" /\ (answer = "200" => s \in acked)
        BY <3>1 DEF Answers, SendStatuses
      <3>3. QED
        BY <2>4, <3>1, <3>2, GoKeeps DEF FetchAnswers, Stages
    <2>5. ASSUME NEW s \in Sends, NetworkFails(s) \/ TimerAborts(s) PROVE WebhookInv'
      BY <2>5, GoKeeps DEF NetworkFails, TimerAborts, Stages, SendStatuses
    <2>6. ASSUME NEW s \in Sends, DirectoryMade(s) PROVE WebhookInv'
      BY <2>6, GoKeeps DEF DirectoryMade, Stages, SendStatuses
    <2>7. ASSUME NEW s \in Sends, LogFails(s) PROVE WebhookInv'
      <3>1. at[s] = "log2" => status[s] # "200" /\ status[s] # "NO_WEBHOOK_CONFIGURED"
        BY DEF WebhookInv
      <3>2. status[s] \in SendStatuses
        BY DEF WebhookInv
      <3>3. CASE at[s] = "log"
        BY <2>7, <3>3, GoKeeps DEF LogFails, Stages, SendStatuses
      <3>4. CASE at[s] = "log2"
        BY <2>7, <3>1, <3>2, <3>4, GoKeeps DEF LogFails, Stages
      <3>5. QED
        BY <2>7, <3>3, <3>4 DEF LogFails
    <2>8. CASE UNCHANGED webhookVars
      BY <2>8 DEF webhookVars, WebhookInv
    <2>9. QED
      BY <2>1, <2>2, <2>3, <2>4, <2>5, <2>6, <2>7, <2>8, LogWrittenKeeps
         DEF WebhookNext, WebhookProgress
  <1>3. WebhookInv => ReportedAsSent
    BY DEF WebhookInv, ReportedAsSent
  <1>4. QED
    BY <1>1, <1>2, <1>3, PTL DEF WebhookSpec

-----------------------------------------------------------------------------
(* dispatchBatch() and its counters.                                       *)

Alerts == {"ok", "invalid", "broken"}

ResultRecords ==
    [delivered : BOOLEAN,
     error : {"", "invalid", "broken", "DISPATCHER_SHUTDOWN", "DASHBOARD_DELIVERY_FAILED"}]

(* A batch has a result for every alert it is done with, and none for the  *)
(* alert it is sending.                                                    *)
BatchesOK ==
    /\ results \in [DispatchBatches -> Seq(ResultRecords)]
    /\ DOMAIN stage = DispatchBatches
    /\ \A b \in DispatchBatches :
          /\ inputs[b] \in Seq(Alerts) /\ Len(inputs[b]) <= MaxInputs
          /\ Len(results[b]) <= Len(inputs[b])
          /\ stage[b] = "sending" => Len(results[b]) < Len(inputs[b])

CountersOK ==
    /\ deliveredCount \in Nat /\ failedCount \in Nat /\ onDashboard \in Nat
    /\ IsFiniteSet(Delivered) /\ IsFiniteSet(CountedFailed)
    /\ CountersAddUp

DispatcherInv == BatchesOK /\ CountersOK

(* The counts of a result: what it adds to the two sets that are counted. *)
AsFailed(r) == ~r.delivered /\ r.error \notin {"DISPATCHER_SHUTDOWN", "broken"}

(* A result lengthens the list of its batch alone. *)
LEMMA OneMoreResult ==
    ASSUME BatchesOK, NEW b \in DispatchBatches, NEW r \in ResultRecords,
           Len(results[b]) < Len(inputs[b]),
           results' = [results EXCEPT ![b] = Append(@, r)]
    PROVE  /\ results' \in [DispatchBatches -> Seq(ResultRecords)]
           /\ \A c \in DispatchBatches :
                 Len(results'[c]) = IF c = b THEN Len(results[b]) + 1 ELSE Len(results[c])
           /\ \E x : /\ x \notin Delivered \union CountedFailed
                     /\ Delivered' = IF r.delivered THEN Delivered \union {x} ELSE Delivered
                     /\ CountedFailed' = IF AsFailed(r) THEN CountedFailed \union {x}
                                                        ELSE CountedFailed
  <1>0. PICK n : n = Len(results[b]) + 1
    OBVIOUS
  <1> DEFINE x == <<b, n>>
             old == results[b]
             new == Append(results[b], r)
  <1>1. /\ \A c \in DispatchBatches : results[c] \in Seq(ResultRecords) /\ Len(results[c]) \in Nat
        /\ old \in Seq(ResultRecords)
    BY DEF BatchesOK
  <1>2. /\ new \in Seq(ResultRecords) /\ Len(new) = n /\ new[n] = r
        /\ \A i \in 1 .. Len(old) : new[i] = old[i]
    BY <1>0, <1>1
  <1>3. /\ results'[b] = new
        /\ \A c \in DispatchBatches \ {b} : results'[c] = results[c]
        /\ results' \in [DispatchBatches -> Seq(ResultRecords)]
    BY <1>2 DEF BatchesOK
  <1>4. n \in 1 .. MaxInputs
    BY <1>0, <1>1, DispatcherAssumption DEF BatchesOK
  <1> HIDE DEF new
  <1>5. x \notin BatchResults
    BY <1>0, <1>1 DEF BatchResults
  <1>6. BatchResults' = BatchResults \union {x}
    <2>1. \A y \in DispatchBatches \X (1 .. MaxInputs) :
            y \in BatchResults' <=> y \in BatchResults \/ y = x
      <3> TAKE y \in DispatchBatches \X (1 .. MaxInputs)
      <3>1. PICK c \in DispatchBatches, i \in 1 .. MaxInputs : y = <<c, i>>
        OBVIOUS
      <3>2. y \in BatchResults <=> i <= Len(results[c])
        BY <3>1 DEF BatchResults
      <3>3. y \in BatchResults' <=> i <= Len(results'[c])
        BY <3>1 DEF BatchResults
      <3>4. CASE c = b
        BY <3>1, <3>2, <3>3, <3>4, <1>0, <1>1, <1>2, <1>3
      <3>5. CASE c # b
        BY <3>1, <3>2, <3>3, <3>5, <1>3
      <3>6. QED
        BY <3>4, <3>5
    <2>2. x \in DispatchBatches \X (1 .. MaxInputs)
      BY <1>4
    <2>3. QED
      BY <2>1, <2>2 DEF BatchResults
  <1>7. ResultAt(x)' = r
    BY <1>2, <1>3 DEF ResultAt
  <1>8. \A y \in BatchResults : ResultAt(y)' = ResultAt(y)
    <2> TAKE y \in BatchResults
    <2>1. PICK c \in DispatchBatches, i \in 1 .. MaxInputs : y = <<c, i>>
      BY DEF BatchResults
    <2>2. i \in 1 .. Len(results[c])
      BY <2>1, <1>1 DEF BatchResults
    <2>3. results'[c][i] = results[c][i]
      BY <2>2, <1>2, <1>3
    <2>4. QED
      BY <2>1, <2>3 DEF ResultAt
  <1> HIDE DEF x
  <1>9. Delivered' = IF r.delivered THEN Delivered \union {x} ELSE Delivered
    BY <1>6, <1>7, <1>8 DEF Delivered
  <1>10. CountedFailed' = IF AsFailed(r) THEN CountedFailed \union {x} ELSE CountedFailed
    BY <1>6, <1>7, <1>8 DEF CountedFailed, AsFailed
  <1>11. x \notin Delivered \union CountedFailed
    BY <1>5 DEF Delivered, CountedFailed
  <1>12. \A c \in DispatchBatches :
            Len(results'[c]) = IF c = b THEN Len(results[b]) + 1 ELSE Len(results[c])
    BY <1>0, <1>2, <1>3
  <1>13. QED
    BY <1>3, <1>9, <1>10, <1>11, <1>12

(* What every step that adds result r to batch b does to the counters. *)
AddsResult(b, r) ==
    /\ Len(results[b]) < Len(inputs[b]) /\ inputs' = inputs
    /\ results' = [results EXCEPT ![b] = Append(@, r)]
    /\ stage' = [stage EXCEPT ![b] = "run"]
    /\ deliveredCount' = IF r.delivered THEN deliveredCount + 1 ELSE deliveredCount
    /\ failedCount' = IF AsFailed(r) THEN failedCount + 1 ELSE failedCount
    /\ onDashboard' \in {onDashboard, onDashboard + 1}
    /\ r.delivered => onDashboard' = onDashboard + 1

(* A step that adds one result counts it once. *)
LEMMA CountedResult ==
    ASSUME DispatcherInv, NEW b \in DispatchBatches, NEW r \in ResultRecords, AddsResult(b, r)
    PROVE  DispatcherInv'
  <1>0. /\ Len(results[b]) < Len(inputs[b]) /\ inputs' = inputs
        /\ results' = [results EXCEPT ![b] = Append(@, r)]
    BY DEF AddsResult
  <1>1. PICK x : /\ x \notin Delivered \union CountedFailed
                 /\ Delivered' = IF r.delivered THEN Delivered \union {x} ELSE Delivered
                 /\ CountedFailed' = IF AsFailed(r) THEN CountedFailed \union {x}
                                                    ELSE CountedFailed
    BY <1>0, OneMoreResult DEF DispatcherInv
  <1>2. IsFiniteSet(Delivered') /\ deliveredCount' = Cardinality(Delivered')
    <2>1. CASE r.delivered
      BY <1>1, <2>1, FS_AddElement DEF DispatcherInv, CountersOK, CountersAddUp, AddsResult
    <2>2. CASE ~r.delivered
      BY <1>1, <2>2 DEF DispatcherInv, CountersOK, CountersAddUp, AddsResult
    <2>3. QED
      BY <2>1, <2>2
  <1>3. IsFiniteSet(CountedFailed') /\ failedCount' = Cardinality(CountedFailed')
    <2>1. CASE AsFailed(r)
      BY <1>1, <2>1, FS_AddElement DEF DispatcherInv, CountersOK, CountersAddUp, AddsResult
    <2>2. CASE ~AsFailed(r)
      BY <1>1, <2>2 DEF DispatcherInv, CountersOK, CountersAddUp, AddsResult
    <2>3. QED
      BY <2>1, <2>2
  <1>4. CountersOK'
    <2>1. deliveredCount \in Nat /\ failedCount \in Nat /\ onDashboard \in Nat
          /\ deliveredCount <= onDashboard
      BY DEF DispatcherInv, CountersOK, CountersAddUp
    <2>2. deliveredCount' \in Nat /\ failedCount' \in Nat /\ onDashboard' \in Nat
      BY <2>1 DEF AddsResult
    <2>3. deliveredCount' <= onDashboard'
      <3>1. CASE r.delivered
        BY <2>1, <3>1 DEF AddsResult
      <3>2. CASE ~r.delivered
        BY <2>1, <3>2 DEF AddsResult
      <3>3. QED
        BY <3>1, <3>2
    <2>4. QED
      BY <1>2, <1>3, <2>2, <2>3 DEF CountersOK, CountersAddUp
  <1>5. BatchesOK'
    <2>1. /\ results' \in [DispatchBatches -> Seq(ResultRecords)]
          /\ \A c \in DispatchBatches :
                Len(results'[c]) = IF c = b THEN Len(results[b]) + 1 ELSE Len(results[c])
      BY <1>0, OneMoreResult DEF DispatcherInv
    <2>2. DOMAIN stage' = DispatchBatches /\ stage'[b] = "run"
          /\ \A c \in DispatchBatches \ {b} : stage'[c] = stage[c]
      BY DEF DispatcherInv, BatchesOK, AddsResult
    <2>3. Len(results[b]) \in Nat /\ Len(inputs[b]) \in Nat
      BY DEF DispatcherInv, BatchesOK
    <2>4. QED
      BY <1>0, <2>1, <2>2, <2>3 DEF DispatcherInv, BatchesOK
  <1>6. QED
    BY <1>4, <1>5 DEF DispatcherInv

(* A step that adds no result. *)
LEMMA NoResult ==
    ASSUME DispatcherInv, results' = results, inputs' = inputs,
           UNCHANGED <<deliveredCount, failedCount, onDashboard>>,
           DOMAIN stage' = DispatchBatches,
           \A b \in DispatchBatches : stage'[b] = "sending" => Len(results[b]) < Len(inputs[b])
    PROVE  DispatcherInv'
  <1>1. BatchesOK'
    BY DEF DispatcherInv, BatchesOK
  <1>2. CountersOK'
    BY DEF DispatcherInv, CountersOK, CountersAddUp, Delivered, CountedFailed, BatchResults, ResultAt
  <1>3. QED
    BY <1>1, <1>2 DEF DispatcherInv

(* A batch with results to come has an alert to send. *)
LEMMA CurrentIsAlert ==
    ASSUME BatchesOK, NEW b \in DispatchBatches, Len(results[b]) < Len(inputs[b])
    PROVE  Current(b) \in Alerts
  <1>1. inputs[b] \in Seq(Alerts) /\ results[b] \in Seq(ResultRecords)
    BY DEF BatchesOK
  <1>2. Len(results[b]) + 1 \in 1 .. Len(inputs[b])
    BY <1>1
  <1>3. QED
    BY <1>1, <1>2 DEF Current

(* An alert that is not sent: invalid, broken, or after shutdown(). *)
LEMMA DispatchUnsentKeeps ==
    ASSUME DispatcherInv, NEW b \in DispatchBatches, DispatchUnsent(b)
    PROVE  DispatcherInv'
  <1>1. /\ Len(results[b]) < Len(inputs[b]) /\ inputs' = inputs
        /\ deliveredCount' = deliveredCount /\ onDashboard' = onDashboard
    BY DEF DispatchUnsent, Config
  <1>2. Current(b) \in Alerts
    BY <1>1, CurrentIsAlert DEF DispatcherInv
  <1>3. CASE ~MayDispatch
    <2>1. PICK r : r = [delivered |-> FALSE, error |-> "DISPATCHER_SHUTDOWN"]
      OBVIOUS
    <2>2. r \in ResultRecords /\ ~r.delivered /\ ~AsFailed(r)
      BY <2>1 DEF ResultRecords, AsFailed
    <2>3. /\ results' = [results EXCEPT ![b] = Append(@, r)]
          /\ stage' = [stage EXCEPT ![b] = "run"] /\ failedCount' = failedCount
      BY <1>3, <2>1 DEF DispatchUnsent, Result
    <2>4. AddsResult(b, r)
      BY <1>1, <2>2, <2>3 DEF AddsResult
    <2>5. QED
      BY <2>2, <2>4, CountedResult
  <1>4. CASE MayDispatch
    <2>1. PICK e : e = IF Current(b) = "ok" THEN "" ELSE Current(b)
      OBVIOUS
    <2>2. PICK r : r = [delivered |-> FALSE, error |-> e]
      OBVIOUS
    <2>3. e \in {"", "invalid", "broken"} /\ (e = "broken" <=> ~CountsAsFailed(Current(b)))
      <3>1. CASE Current(b) = "ok"
        BY <2>1, <3>1 DEF CountsAsFailed
      <3>2. CASE Current(b) = "invalid"
        BY <2>1, <3>2 DEF CountsAsFailed
      <3>3. CASE Current(b) = "broken"
        BY <2>1, <3>3 DEF CountsAsFailed
      <3>4. QED
        BY <1>2, <3>1, <3>2, <3>3 DEF Alerts
    <2>4. r \in ResultRecords /\ ~r.delivered /\ (AsFailed(r) <=> CountsAsFailed(Current(b)))
      <3>1. r \in ResultRecords
        BY <2>2, <2>3 DEF ResultRecords
      <3>2. ~r.delivered /\ r.error = e
        BY <2>2
      <3>3. AsFailed(r) <=> e # "broken"
        BY <2>3, <3>2 DEF AsFailed
      <3>4. QED
        BY <2>3, <3>1, <3>2, <3>3
    <2>5. failedCount \in Nat
      BY DEF DispatcherInv, CountersOK
    <2>6. /\ results' = [results EXCEPT ![b] = Append(@, r)]
          /\ stage' = [stage EXCEPT ![b] = "run"]
      BY <1>4, <2>1, <2>2 DEF DispatchUnsent, Result
    <2>7. failedCount' = failedCount + (IF CountsAsFailed(Current(b)) THEN 1 ELSE 0)
      BY <1>4 DEF DispatchUnsent
    <2>8. failedCount' = IF AsFailed(r) THEN failedCount + 1 ELSE failedCount
      BY <2>4, <2>5, <2>7
    <2>9. AddsResult(b, r)
      BY <1>1, <2>4, <2>6, <2>8 DEF AddsResult
    <2>10. QED
      BY <2>4, <2>9, CountedResult
  <1>5. QED
    BY <1>3, <1>4

(* A send that is answered or fails. *)
LEMMA SendEndsKeeps ==
    ASSUME DispatcherInv, NEW b \in DispatchBatches,
           SendDelivered(b) \/ \E arrived \in BOOLEAN : SendFails(b, arrived)
    PROVE  DispatcherInv'
  <1>1. Len(results[b]) < Len(inputs[b]) /\ inputs' = inputs
    BY DEF SendDelivered, SendFails, Config, DispatcherInv, BatchesOK
  <1>2. CASE SendDelivered(b)
    <2>1. PICK r : r = [delivered |-> TRUE, error |-> ""]
      OBVIOUS
    <2>2. r \in ResultRecords /\ r.delivered /\ ~AsFailed(r)
      BY <2>1 DEF ResultRecords, AsFailed
    <2>3. /\ results' = [results EXCEPT ![b] = Append(@, r)]
          /\ stage' = [stage EXCEPT ![b] = "run"] /\ failedCount' = failedCount
          /\ deliveredCount' = deliveredCount + 1 /\ onDashboard' = onDashboard + 1
      BY <1>2, <2>1 DEF SendDelivered, Result
    <2>4. AddsResult(b, r)
      BY <1>1, <2>2, <2>3 DEF AddsResult
    <2>5. QED
      BY <2>2, <2>4, CountedResult
  <1>3. ASSUME NEW arrived \in BOOLEAN, SendFails(b, arrived) PROVE DispatcherInv'
    <2>1. PICK r : r = [delivered |-> FALSE, error |-> "DASHBOARD_DELIVERY_FAILED"]
      OBVIOUS
    <2>2. r \in ResultRecords /\ ~r.delivered /\ AsFailed(r)
      BY <2>1 DEF ResultRecords, AsFailed
    <2>3. /\ results' = [results EXCEPT ![b] = Append(@, r)]
          /\ stage' = [stage EXCEPT ![b] = "run"] /\ failedCount' = failedCount + 1
          /\ deliveredCount' = deliveredCount
          /\ onDashboard' = onDashboard + (IF arrived THEN 1 ELSE 0)
      BY <1>3, <2>1 DEF SendFails, SendFailureCount, Result
    <2>4. onDashboard' \in {onDashboard, onDashboard + 1}
      BY <2>3 DEF DispatcherInv, CountersOK
    <2>5. AddsResult(b, r)
      BY <1>1, <2>2, <2>3, <2>4 DEF AddsResult
    <2>6. QED
      BY <2>2, <2>5, CountedResult
  <1>4. QED
    BY <1>2, <1>3

(* For any number of batches and alerts, shut down anywhere: the counters  *)
(* of the dispatcher agree with the results it returned, and what counts   *)
(* as delivered is on the dashboard.                                       *)
THEOREM DispatcherCounts == DispatcherSpec => []CountersAddUp
  <1>1. DispatcherInit => DispatcherInv
    <2> SUFFICES ASSUME DispatcherInit PROVE DispatcherInv
      OBVIOUS
    <2>1. \A b \in DispatchBatches : inputs[b] \in Seq(Alerts) /\ Len(inputs[b]) <= MaxInputs
      <3> TAKE b \in DispatchBatches
      <3>1. PICK n \in 0 .. MaxInputs : inputs[b] \in [1 .. n -> Alerts]
        BY DEF DispatcherInit, Alerts
      <3>2. n \in Nat /\ inputs[b] \in Seq(Alerts) /\ Len(inputs[b]) = n
        BY <3>1, DispatcherAssumption
      <3>3. QED
        BY <3>1, <3>2
    <2>2. results \in [DispatchBatches -> Seq(ResultRecords)]
          /\ \A b \in DispatchBatches : results[b] = <<>> /\ Len(results[b]) = 0
      BY DEF DispatcherInit
    <2>3. BatchResults = {}
      BY <2>2 DEF BatchResults
    <2>4. Delivered = {} /\ CountedFailed = {}
      BY <2>3 DEF Delivered, CountedFailed
    <2>5. BatchesOK
      BY <2>1, <2>2 DEF DispatcherInit, BatchesOK
    <2>6. CountersOK
      BY <2>4, FS_EmptySet DEF DispatcherInit, CountersOK, CountersAddUp
    <2>7. QED
      BY <2>5, <2>6 DEF DispatcherInv
  <1>2. DispatcherInv /\ [DispatcherNext]_dispatcherVars => DispatcherInv'
    <2> SUFFICES ASSUME DispatcherInv, [DispatcherNext]_dispatcherVars PROVE DispatcherInv'
      OBVIOUS
    <2>0. /\ DOMAIN stage = DispatchBatches
          /\ \A b \in DispatchBatches : stage[b] = "sending" => Len(results[b]) < Len(inputs[b])
      BY DEF DispatcherInv, BatchesOK
    <2>1. ASSUME NEW b \in DispatchBatches, BeginBatch(b) \/ DispatchSend(b) \/ EndBatch(b)
          PROVE  DispatcherInv'
      <3>1. /\ results' = results /\ inputs' = inputs
            /\ UNCHANGED <<deliveredCount, failedCount, onDashboard>>
        BY <2>1 DEF BeginBatch, DispatchSend, EndBatch, Config
      <3>2. /\ DOMAIN stage' = DispatchBatches
            /\ \A c \in DispatchBatches \ {b} : stage'[c] = stage[c]
            /\ stage'[b] = "sending" => Len(results[b]) < Len(inputs[b])
        <4>1. CASE BeginBatch(b)
          BY <2>0, <4>1 DEF BeginBatch
        <4>2. CASE DispatchSend(b)
          BY <2>0, <4>2 DEF DispatchSend
        <4>3. CASE EndBatch(b)
          BY <2>0, <4>3 DEF EndBatch
        <4>4. QED
          BY <2>1, <4>1, <4>2, <4>3
      <3>3. \A c \in DispatchBatches : stage'[c] = "sending" => Len(results[c]) < Len(inputs[c])
        BY <3>2, <2>0
      <3>4. QED
        BY <3>1, <3>2, <3>3, NoResult
    <2>2. CASE Shutdown \/ UNCHANGED dispatcherVars
      BY <2>0, <2>2, NoResult DEF Shutdown, dispatcherVars, Config
    <2>3. QED
      BY <2>1, <2>2, DispatchUnsentKeeps, SendEndsKeeps DEF DispatcherNext, DispatcherProgress
  <1>3. DispatcherInv => CountersAddUp
    BY DEF DispatcherInv, CountersOK
  <1>4. QED
    BY <1>1, <1>2, <1>3, PTL DEF DispatcherSpec

-----------------------------------------------------------------------------
(* The signer notifications: one call at a time.                           *)

(* What a call can have paged when it looked up rotation k. *)
PagedOf(k) ==
    LET o == OnCall(k) IN {<<>>, <<o[1]>>, <<o[1], o[2]>>, <<o[1], o[2], o[3]>>}

(* The pages of a call are the first contacts of one rotation, the one it  *)
(* looked up when it began to page.                                        *)
OneRotation(c) ==
    /\ call[c] \in {"idle", "posting", "refused"} => pages[c] = <<>>
    /\ \E k : /\ pages[c] \in PagedOf(k)
              /\ call[c] = "paging" \/ pages[c] # <<>> => onCall[c] = OnCall(k)

(* Where a notification is tells whether an endpoint can still answer,     *)
(* and whether one has failed.                                             *)
FailureFollowed(c) ==
    /\ DOMAIN outcome[c] = Endpoints
    /\ \A e \in Endpoints : outcome[c][e] = "pending" => call[c] = "posting"
    /\ call[c] = "paging" \/ pages[c] # <<>> => Failures(c) # {}
    /\ call[c] \in {"idle", "refused"} => Failures(c) = {}
    /\ call[c] \in {"returned", "threw"} /\ Failures(c) # {} =>
          Len(pages[c]) = 3 \/ c \in rosterLogged

SignerDomains ==
    DOMAIN call = Calls /\ DOMAIN pages = Calls /\ DOMAIN onCall = Calls
    /\ DOMAIN outcome = NotifyCalls

SignerInv ==
    /\ SignerDomains
    /\ \A c \in Calls : OneRotation(c)
    /\ \A c \in NotifyCalls : FailureFollowed(c)

(* The pages of one rotation are its contacts in their order. *)
LEMMA RotationIsOne ==
    ASSUME NEW k, NEW p \in PagedOf(k)
    PROVE  \A i \in DOMAIN p : p[i] = OnCall(p[1].rotation)[i]
  <1>1. PICK o : o = OnCall(k)
    OBVIOUS
  <1>2. o[1].rotation = k
    BY <1>1 DEF OnCall
  <1>3. p \in {<<>>, <<o[1]>>, <<o[1], o[2]>>, <<o[1], o[2], o[3]>>}
    BY <1>1 DEF PagedOf
  <1>4. p = <<>> \/ (p # <<>> /\ p[1] = o[1])
    BY <1>3
  <1>5. CASE p = <<>>
    BY <1>5
  <1>6. CASE p # <<>>
    <2>1. OnCall(p[1].rotation) = o
      BY <1>1, <1>2, <1>4, <1>6
    <2>2. \A i \in DOMAIN p : p[i] = o[i]
      BY <1>3
    <2>3. QED
      BY <2>1, <2>2
  <1>7. QED
    BY <1>5, <1>6

(* Lists of up to three. *)
LEMMA ExtendTuples ==
    ASSUME NEW x, NEW y, NEW z
    PROVE  /\ Append(<<x>>, y) = <<x, y>> /\ Len(<<x>>) = 1
           /\ Append(<<x, y>>, z) = <<x, y, z>> /\ Len(<<x, y>>) = 2
           /\ Len(<<x, y, z>>) = 3
  <1> DEFINE s == Append(<<x>>, y)
             t == Append(<<x, y>>, z)
  <1>1. /\ <<x>> \in Seq({x, y, z}) /\ Len(<<x>>) = 1
        /\ <<x, y>> \in Seq({x, y, z}) /\ Len(<<x, y>>) = 2
        /\ <<x, y, z>> \in Seq({x, y, z}) /\ Len(<<x, y, z>>) = 3
    OBVIOUS
  <1>2. s \in Seq({x, y, z}) /\ Len(s) = 2 /\ s[1] = x /\ s[2] = y
    BY <1>1
  <1>3. t \in Seq({x, y, z}) /\ Len(t) = 3 /\ t[1] = x /\ t[2] = y /\ t[3] = z
    BY <1>1
  <1> HIDE DEF s, t
  <1>4. s = <<x, y>>
    BY <1>1, <1>2
  <1>5. t = <<x, y, z>>
    BY <1>1, <1>3
  <1>6. QED
    BY <1>1, <1>4, <1>5 DEF s, t

(* One more page of the rotation already under way. *)
LEMMA NextOfRotation ==
    ASSUME NEW k, NEW p \in PagedOf(k), Len(p) < 3
    PROVE  /\ Append(p, OnCall(k)[Len(p) + 1]) \in PagedOf(k)
           /\ Append(p, OnCall(k)[Len(p) + 1]) # <<>>
  <1>1. PICK x, y, z : x = OnCall(k)[1] /\ y = OnCall(k)[2] /\ z = OnCall(k)[3]
    OBVIOUS
  <1>2. PagedOf(k) = {<<>>, <<x>>, <<x, y>>, <<x, y, z>>}
    BY <1>1 DEF PagedOf
  <1>3. CASE p = <<>>
    <2>1. Append(p, x) = <<x>> /\ Len(p) + 1 = 1
      BY <1>3
    <2>2. QED
      BY <1>1, <1>2, <2>1
  <1>4. CASE p = <<x>>
    <2>1. Append(p, y) = <<x, y>> /\ Len(p) = 1
      BY <1>4, ExtendTuples, Zenon
    <2>2. Len(p) + 1 = 2
      BY <2>1
    <2>3. QED
      BY <1>1, <1>2, <2>1, <2>2
  <1>5. CASE p = <<x, y>>
    <2>1. Append(p, z) = <<x, y, z>> /\ Len(p) = 2
      BY <1>5, ExtendTuples, Zenon
    <2>2. Len(p) + 1 = 3
      BY <2>1
    <2>3. QED
      BY <1>1, <1>2, <2>1, <2>2
  <1>6. p # <<x, y, z>>
    BY ExtendTuples
  <1>7. QED
    BY <1>2, <1>3, <1>4, <1>5, <1>6

(* A step that leaves a call alone. *)
LEMMA CallUntouched ==
    ASSUME NEW c \in Calls, call'[c] = call[c], pages'[c] = pages[c], onCall'[c] = onCall[c],
           rosterLogged \subseteq rosterLogged'
    PROVE  /\ OneRotation(c) => OneRotation(c)'
           /\ outcome'[c] = outcome[c] /\ FailureFollowed(c) => FailureFollowed(c)'
  <1>1. OneRotation(c) => OneRotation(c)'
    BY DEF OneRotation
  <1>2. outcome'[c] = outcome[c] /\ FailureFollowed(c) => FailureFollowed(c)'
    BY DEF FailureFollowed, Failures
  <1>3. QED
    BY <1>1, <1>2

(* A step of one call. *)
LEMMA OneCallSteps ==
    ASSUME SignerInv, NEW c \in Calls, SignerDomains',
           \A d \in Calls \ {c} : /\ call'[d] = call[d] /\ pages'[d] = pages[d]
                                  /\ onCall'[d] = onCall[d],
           \A d \in NotifyCalls \ {c} : outcome'[d] = outcome[d],
           rosterLogged \subseteq rosterLogged',
           OneRotation(c)', c \in NotifyCalls => FailureFollowed(c)'
    PROVE  SignerInv'
  <1>1. \A d \in Calls : OneRotation(d)'
    BY CallUntouched DEF SignerInv
  <1>2. \A d \in NotifyCalls : FailureFollowed(d)'
    BY CallUntouched DEF SignerInv, Calls
  <1>3. QED
    BY <1>1, <1>2 DEF SignerInv

(* notify() up to its endpoints' answers. *)
LEMMA PostingKeeps ==
    ASSUME SignerInv, NEW c \in NotifyCalls,
           Refuse(c) \/ Notify(c)
           \/ \E e \in Endpoints, result \in Results : EndpointSettles(c, e, result)
    PROVE  SignerInv'
  <1>0. c \in Calls /\ OneRotation(c) /\ FailureFollowed(c) /\ SignerDomains
    BY DEF SignerInv, Calls
  <1>1. CASE Refuse(c)
    <2>1. /\ call[c] = "idle" /\ pages[c] = <<>> /\ Failures(c) = {}
          /\ call' = [call EXCEPT ![c] = "refused"]
          /\ UNCHANGED <<outcome, pages, rosterLogged, onCall>>
      BY <1>0, <1>1 DEF Refuse, OneRotation, FailureFollowed
    <2>2. call'[c] = "refused" /\ \A d \in Calls \ {c} : call'[d] = call[d]
      BY <1>0, <2>1 DEF SignerDomains
    <2>3. SignerDomains'
      BY <1>0, <2>1 DEF SignerDomains
    <2>4. OneRotation(c)'
      BY <1>0, <2>1, <2>2 DEF OneRotation
    <2>5. FailureFollowed(c)'
      BY <1>0, <2>1, <2>2 DEF FailureFollowed, Failures
    <2>6. QED
      BY <1>0, <2>1, <2>2, <2>3, <2>4, <2>5, OneCallSteps
  <1>2. CASE Notify(c)
    <2>1. /\ call[c] = "idle" /\ pages[c] = <<>>
          /\ call' = [call EXCEPT ![c] = "posting"]
          /\ outcome' = [outcome EXCEPT ![c] = [e \in Endpoints |-> "pending"]]
          /\ UNCHANGED <<pages, rosterLogged, onCall>>
      BY <1>0, <1>2 DEF Notify, OneRotation
    <2>2. /\ call'[c] = "posting" /\ \A d \in Calls \ {c} : call'[d] = call[d]
          /\ outcome'[c] = [e \in Endpoints |-> "pending"]
          /\ \A d \in NotifyCalls \ {c} : outcome'[d] = outcome[d]
      BY <1>0, <2>1 DEF SignerDomains
    <2>3. SignerDomains'
      BY <1>0, <2>1 DEF SignerDomains
    <2>4. OneRotation(c)'
      BY <1>0, <2>1, <2>2 DEF OneRotation
    <2>5. FailureFollowed(c)'
      BY <1>0, <2>1, <2>2 DEF FailureFollowed, Failures
    <2>6. QED
      BY <1>0, <2>1, <2>2, <2>3, <2>4, <2>5, OneCallSteps
  <1>3. ASSUME NEW e \in Endpoints, NEW result \in Results, EndpointSettles(c, e, result)
        PROVE  SignerInv'
    <2>1. /\ outcome[c][e] = "pending" /\ outcome' = [outcome EXCEPT ![c][e] = result]
          /\ UNCHANGED <<call, pages, rosterLogged, onCall>>
      BY <1>3 DEF EndpointSettles
    <2>2. call[c] = "posting" /\ pages[c] = <<>>
      BY <1>0, <2>1 DEF FailureFollowed, OneRotation
    <2>3. /\ DOMAIN outcome'[c] = Endpoints
          /\ \A d \in NotifyCalls \ {c} : outcome'[d] = outcome[d]
      BY <1>0, <2>1 DEF FailureFollowed, SignerDomains
    <2>4. SignerDomains'
      BY <1>0, <2>1 DEF SignerDomains
    <2>5. OneRotation(c)'
      BY <1>0, <2>1 DEF OneRotation
    <2>6. FailureFollowed(c)'
      BY <1>0, <2>1, <2>2, <2>3 DEF FailureFollowed
    <2>7. QED
      BY <1>0, <2>1, <2>3, <2>4, <2>5, <2>6, OneCallSteps
  <1>4. QED
    BY <1>1, <1>2, <1>3

(* The roster is looked up, once. *)
LEMMA BeginPagingKeeps ==
    ASSUME SignerInv, NEW c \in Calls, call[c] \in {"idle", "posting"}, BeginPaging(c),
           UNCHANGED <<outcome, pages, rosterLogged>>,
           c \in NotifyCalls => AllAnswered(c) /\ MustPage(c)
    PROVE  SignerInv'
  <1>0. OneRotation(c) /\ SignerDomains /\ (c \in NotifyCalls => FailureFollowed(c))
    BY DEF SignerInv
  <1>1. pages[c] = <<>>
    BY <1>0 DEF OneRotation
  <1>2. PICK k : /\ call' = [call EXCEPT ![c] = "paging"]
                 /\ onCall' = [onCall EXCEPT ![c] = OnCall(k)]
    BY DEF BeginPaging
  <1>3. /\ call'[c] = "paging" /\ onCall'[c] = OnCall(k)
        /\ \A d \in Calls \ {c} : call'[d] = call[d] /\ onCall'[d] = onCall[d]
    BY <1>0, <1>2 DEF SignerDomains
  <1>4. SignerDomains'
    BY <1>0, <1>2 DEF SignerDomains
  <1>5. OneRotation(c)'
    <2>1. pages'[c] = <<>> /\ <<>> \in PagedOf(k)
      BY <1>1 DEF PagedOf
    <2>2. QED
      BY <1>3, <2>1 DEF OneRotation
  <1>6. ASSUME c \in NotifyCalls PROVE FailureFollowed(c)'
    BY <1>0, <1>1, <1>3, <1>6 DEF FailureFollowed, Failures, AllAnswered, MustPage
  <1>7. QED
    BY <1>3, <1>4, <1>5, <1>6, OneCallSteps

(* A page is delivered or fails, or there is nobody left. *)
LEMMA PagingKeeps ==
    ASSUME SignerInv, NEW c \in Calls, DeliverPage(c) \/ PageFails(c) \/ PagingEnds(c)
    PROVE  SignerInv'
  <1>0. /\ OneRotation(c) /\ SignerDomains /\ (c \in NotifyCalls => FailureFollowed(c))
        /\ call[c] = "paging"
    BY DEF SignerInv, DeliverPage, PageFails, PagingEnds
  <1>1. CASE DeliverPage(c)
    <2>1. PICK k : pages[c] \in PagedOf(k) /\ onCall[c] = OnCall(k)
      BY <1>0 DEF OneRotation
    <2>2. /\ Len(pages[c]) < 3
          /\ pages' = [pages EXCEPT ![c] = Append(@, OnCall(k)[Len(pages[c]) + 1])]
          /\ UNCHANGED <<call, outcome, rosterLogged, onCall>>
      BY <1>1, <2>1 DEF DeliverPage, NextContact
    <2>3. /\ pages'[c] \in PagedOf(k) /\ pages'[c] # <<>>
          /\ \A d \in Calls \ {c} : pages'[d] = pages[d]
      BY <1>0, <2>1, <2>2, NextOfRotation DEF SignerDomains
    <2>4. SignerDomains'
      BY <1>0, <2>2 DEF SignerDomains
    <2>5. OneRotation(c)'
      BY <1>0, <2>1, <2>2, <2>3 DEF OneRotation
    <2>6. ASSUME c \in NotifyCalls PROVE FailureFollowed(c)'
      BY <1>0, <2>2, <2>3, <2>6 DEF FailureFollowed, Failures
    <2>7. QED
      BY <2>2, <2>3, <2>4, <2>5, <2>6, OneCallSteps
  <1>2. CASE PageFails(c) \/ PagingEnds(c)
    <2>1. PICK w \in {"returned", "threw"} : call' = [call EXCEPT ![c] = w]
      BY <1>2 DEF PageFails, PagingEnds, Ending
    <2>2. /\ UNCHANGED <<outcome, pages, onCall>> /\ rosterLogged \subseteq rosterLogged'
          /\ c \in NotifyCalls => Len(pages[c]) = 3 \/ c \in rosterLogged'
      BY <1>2 DEF PageFails, PagingEnds
    <2>3. call'[c] = w /\ \A d \in Calls \ {c} : call'[d] = call[d]
      BY <1>0, <2>1 DEF SignerDomains
    <2>4. SignerDomains'
      BY <1>0, <2>1, <2>2 DEF SignerDomains
    <2>5. OneRotation(c)'
      BY <1>0, <2>1, <2>2, <2>3 DEF OneRotation
    <2>6. ASSUME c \in NotifyCalls PROVE FailureFollowed(c)'
      BY <1>0, <2>1, <2>2, <2>3, <2>6 DEF FailureFollowed, Failures
    <2>7. QED
      BY <2>2, <2>3, <2>4, <2>5, <2>6, OneCallSteps
  <1>3. QED
    BY <1>1, <1>2

(* For any number of endpoints, calls and contacts, and however rotations, *)
(* restarts of the incident roster and torn state files come in between: a *)
(* notification that ends after a failed delivery has paged the whole      *)
(* rotation it looked up, or has logged that it could not.                 *)
THEOREM SignersHear == SignerSpec => []NoSilentFailure
  <1>1. SignerInit => SignerInv
    <2> SUFFICES ASSUME SignerInit PROVE SignerInv
      OBVIOUS
    <2>1. SignerDomains
      BY DEF SignerInit, SignerDomains
    <2>2. ASSUME NEW c \in Calls PROVE OneRotation(c)
      <3>1. call[c] = "idle" /\ pages[c] = <<>>
        BY DEF SignerInit
      <3>2. QED
        BY <3>1 DEF OneRotation, PagedOf
    <2>3. ASSUME NEW c \in NotifyCalls PROVE FailureFollowed(c)
      <3>1. c \in Calls /\ call[c] = "idle" /\ pages[c] = <<>> /\ outcome[c] = [e \in Endpoints |-> "none"]
        BY DEF SignerInit, Calls
      <3>2. QED
        BY <3>1 DEF FailureFollowed, Failures
    <2>4. QED
      BY <2>1, <2>2, <2>3 DEF SignerInv
  <1>2. SignerInv /\ [SignerNext]_signerVars => SignerInv'
    <2> SUFFICES ASSUME SignerInv, [SignerNext]_signerVars PROVE SignerInv'
      OBVIOUS
    <2>1. ASSUME UNCHANGED <<call, onCall, outcome, pages, rosterLogged>> PROVE SignerInv'
      BY <2>1, CallUntouched DEF SignerInv, SignerDomains, Calls
    <2>2. CASE (\E r \in Rosters : Rotate(r)) \/ ResetRoster \/ DayPasses \/ UNCHANGED signerVars
      BY <2>1, <2>2 DEF Rotate, ResetRoster, DayPasses, signerVars
    <2>3. ASSUME NEW c \in NotifyCalls, Evaluate(c) PROVE SignerInv'
      <3>0. c \in Calls /\ OneRotation(c) /\ FailureFollowed(c) /\ SignerDomains
        BY DEF SignerInv, Calls
      <3>1. CASE MustPage(c) /\ BeginPaging(c)
        BY <2>3, <3>0, <3>1, BeginPagingKeeps DEF Evaluate
      <3>2. CASE ~MustPage(c)
        <4>1. /\ call[c] = "posting" /\ AllAnswered(c) /\ Failures(c) = {}
              /\ call' = [call EXCEPT ![c] = "returned"]
              /\ UNCHANGED <<onCall, outcome, pages, rosterLogged>>
          BY <2>3, <3>2 DEF Evaluate, MustPage
        <4>2. call'[c] = "returned" /\ \A d \in Calls \ {c} : call'[d] = call[d]
          BY <3>0, <4>1 DEF SignerDomains
        <4>3. SignerDomains'
          BY <3>0, <4>1 DEF SignerDomains
        <4>4. OneRotation(c)'
          BY <3>0, <4>1, <4>2 DEF OneRotation
        <4>5. FailureFollowed(c)'
          BY <3>0, <4>1, <4>2 DEF FailureFollowed, Failures, AllAnswered
        <4>6. QED
          BY <3>0, <4>1, <4>2, <4>3, <4>4, <4>5, OneCallSteps
      <3>3. QED
        BY <2>3, <3>1, <3>2 DEF Evaluate
    <2>4. ASSUME NEW c \in IncidentCalls, Escalate(c) PROVE SignerInv'
      <3>1. c \in Calls /\ c \notin NotifyCalls
        BY RosterAssumption DEF Calls
      <3>2. QED
        BY <2>4, <3>1, BeginPagingKeeps DEF Escalate
    <2>5. QED
      BY <2>2, <2>3, <2>4, PostingKeeps, PagingKeeps DEF SignerNext, SignerProgress
  <1>3. SignerInv => NoSilentFailure
    <2> SUFFICES ASSUME SignerInv PROVE NoSilentFailure
      OBVIOUS
    <2>1. \A c \in NotifyCalls :
            /\ call[c] \in {"returned", "threw"} /\ Failures(c) # {} =>
                  Len(pages[c]) = 3 \/ c \in rosterLogged
            /\ pages[c] # <<>> => Failures(c) # {}
      BY DEF SignerInv, FailureFollowed
    <2>2. \A c \in Calls : \E k : pages[c] \in PagedOf(k)
      BY DEF SignerInv, OneRotation
    <2>3. \A c \in Calls : \A i \in DOMAIN pages[c] :
            pages[c][i] = OnCall(pages[c][1].rotation)[i]
      BY <2>2, RotationIsOne
    <2>4. QED
      BY <2>1, <2>3 DEF NoSilentFailure
  <1>4. QED
    BY <1>1, <1>2, <1>3, PTL DEF SignerSpec

-----------------------------------------------------------------------------
(* The emergency exit engine, for any set of signed payloads, any window   *)
(* and any bounds.  The properties are inductive together.                 *)

ExitInv == TypeOK /\ ReceiptsChain /\ AnnouncedInOrder /\ WithdrawnWhileHalted

-----------------------------------------------------------------------------
(* A new engine has no receipts. *)
LEMMA InitExitInv == Init => ExitInv
  <1> SUFFICES ASSUME Init PROVE ExitInv
    OBVIOUS
  <1>1. state = [status |-> "ACTIVE", stateVersion |-> 0] /\ base = state /\ receipts = <<>>
    BY DEF Init
  <1>2. TypeOK
    <2>1. receipts \in Seq(ReceiptStates)
      BY <1>1
    <2>2. QED
      BY <2>1 DEF Init, TypeOK, Snapshots, Statuses
  <1>3. ReceiptsChain
    BY <1>1 DEF ReceiptsChain, Halting
  <1>4. AnnouncedInOrder /\ WithdrawnWhileHalted
    BY DEF Init, AnnouncedInOrder, WithdrawnWhileHalted
  <1>5. QED
    BY <1>2, <1>3, <1>4 DEF ExitInv

(* A transition that changes whether the engine is halted keeps the        *)
(* invariant.                                                              *)
LEMMA CommitExitInv ==
    ASSUME NEW a \in Auths, NEW action \in {"HALT", "RECOVERY"}, NEW st \in Statuses,
           ExitInv, ~locked, Commit(a, action, st),
           (st = "HALTED") = (action = "HALT"),
           (state.status = "HALTED") = (action # "HALT")
    PROVE  ExitInv'
  <1> DEFINE n == Len(receipts) + 1
             v == state.stateVersion + 1
             r == [auth |-> a, action |-> action, at |-> now,
                   priorStateVersion |-> state.stateVersion, newStateVersion |-> v]
  <1>0. /\ receipts \in Seq(ReceiptStates) /\ state \in Snapshots /\ base \in Snapshots
        /\ now \in Nat /\ state.stateVersion \in Nat /\ base.stateVersion \in Nat
        /\ Len(receipts) \in Nat
    BY DEF ExitInv, TypeOK, Snapshots
  <1>1. /\ state' = [status |-> st, stateVersion |-> v]
        /\ receipts' = Append(receipts, r)
        /\ locked' = HasNotifyHook
        /\ notifying' = notifying \cup (IF HasNotifyHook THEN {n} ELSE {})
        /\ UNCHANGED <<now, persisted, base, withdrawals>>
    BY DEF Commit
  <1>2. v \in Nat /\ n \in Nat /\ n > 0 /\ v = base.stateVersion + n
    BY <1>0 DEF ExitInv, ReceiptsChain
  <1>3. r \in ReceiptStates
    BY <1>0, <1>2 DEF ReceiptStates
  <1>4. /\ r.action = action /\ r.priorStateVersion = state.stateVersion
        /\ r.newStateVersion = v
    OBVIOUS
  <1> HIDE DEF r
  <1>5. /\ receipts' \in Seq(ReceiptStates) /\ Len(receipts') = n /\ receipts'[n] = r
        /\ \A i \in 1 .. Len(receipts) : receipts'[i] = receipts[i]
    BY <1>0, <1>1, <1>3
  <1>6. notifying = {}
    BY DEF ExitInv, AnnouncedInOrder
  <1>7. TypeOK'
    <2>1. state' \in Snapshots
      BY <1>1, <1>2 DEF Snapshots
    <2>2. notifying' \subseteq Nat
      BY <1>1, <1>2, <1>6
    <2>3. QED
      BY <1>1, <1>5, <2>1, <2>2, ExitAssumption DEF ExitInv, TypeOK
  <1>8. \A i \in 0 .. Len(receipts) : Halting(i)' = Halting(i)
    BY <1>1, <1>5 DEF Halting
  <1>9. receipts'[n].action = action /\ n # 0
    BY <1>2, <1>4, <1>5
  <1>10. ReceiptsChain'
    <2>1. /\ state'.stateVersion = base'.stateVersion + Len(receipts')
          /\ (state'.status = "HALTED") = (receipts'[Len(receipts')].action = "HALT")
      BY <1>1, <1>2, <1>5, <1>9
    <2>2. ASSUME NEW i \in 1 .. Len(receipts')
          PROVE  /\ receipts'[i].priorStateVersion = base.stateVersion + i - 1
                 /\ receipts'[i].newStateVersion = base.stateVersion + i
                 /\ Halting(i)' # Halting(i - 1)'
      <3>1. CASE i \in 1 .. Len(receipts)
        <4>1. i - 1 \in 0 .. Len(receipts) /\ i \in 0 .. Len(receipts)
          BY <1>0, <3>1
        <4>2. Halting(i)' # Halting(i - 1)'
          BY <1>8, <3>1, <4>1 DEF ExitInv, ReceiptsChain
        <4>3. QED
          BY <1>5, <3>1, <4>2 DEF ExitInv, ReceiptsChain
      <3>2. CASE i = n
        <4>1. i - 1 = Len(receipts) /\ i - 1 \in 0 .. Len(receipts)
          BY <1>0, <3>2
        <4>2. (Halting(i - 1)') = (state.status = "HALTED")
          <5>1. (Halting(i - 1)') = Halting(i - 1)
            BY <1>8, <4>1
          <5>2. Halting(i - 1) = (state.status = "HALTED")
            BY <4>1 DEF ExitInv, ReceiptsChain
          <5>3. QED
            BY <5>1, <5>2
        <4>3. receipts'[i] = r
          BY <1>5, <3>2
        <4>4. (Halting(i)') = (action = "HALT")
          BY <1>4, <1>9, <3>2, <4>3 DEF Halting
        <4>5. Halting(i)' # Halting(i - 1)'
          BY <3>2, <4>2, <4>4
        <4>6. base.stateVersion + i - 1 = state.stateVersion /\ base.stateVersion + i = v
          BY <1>0, <1>2, <3>2
        <4>7. QED
          BY <1>4, <4>3, <4>5, <4>6
      <3>3. QED
        BY <1>0, <1>5, <3>1, <3>2
    <2>3. QED
      BY <1>1, <1>5, <1>9, <2>1, <2>2 DEF ReceiptsChain, Halting
  <1>11. AnnouncedInOrder'
    BY <1>1, <1>5, <1>6 DEF AnnouncedInOrder
  <1>12. WithdrawnWhileHalted'
    <2> SUFFICES ASSUME NEW w \in withdrawals
                 PROVE  /\ w.version - base.stateVersion \in 0 .. Len(receipts')
                        /\ Halting(w.version - base.stateVersion)'
                        /\ w.at - AuthTime[w.auth] <= AuthWindow
      BY <1>1 DEF WithdrawnWhileHalted
    <2>1. /\ w.version - base.stateVersion \in 0 .. Len(receipts)
          /\ Halting(w.version - base.stateVersion)
          /\ w.at - AuthTime[w.auth] <= AuthWindow
      BY DEF ExitInv, WithdrawnWhileHalted
    <2>2. Halting(w.version - base.stateVersion)'
      BY <1>1, <1>5, <2>1 DEF Halting
    <2>3. QED
      BY <1>0, <1>5, <2>1, <2>2
  <1>13. QED
    BY <1>7, <1>10, <1>11, <1>12 DEF ExitInv

(* A withdrawal is recorded with the version at which it was approved. *)
LEMMA WithdrawExitInv == ASSUME NEW a \in Auths, ExitInv, WithdrawFunds(a) PROVE ExitInv'
  <1> DEFINE w == [version |-> state.stateVersion, auth |-> a, at |-> now]
  <1>0. /\ state.stateVersion \in Nat /\ base.stateVersion \in Nat /\ Len(receipts) \in Nat
        /\ now \in Nat /\ AuthTime[a] \in Nat
    BY ExitAssumption DEF ExitInv, TypeOK, Snapshots
  <1>1. /\ withdrawals' = withdrawals \cup {w}
        /\ UNCHANGED <<now, state, locked, notifying, persisted, base, receipts>>
    BY DEF WithdrawFunds
  <1>2. TypeOK'
    BY <1>0, <1>1 DEF ExitInv, TypeOK
  <1>3. ReceiptsChain' /\ AnnouncedInOrder'
    BY <1>1 DEF ExitInv, ReceiptsChain, Halting, AnnouncedInOrder
  <1>4. /\ w.version - base.stateVersion = Len(receipts)
        /\ Halting(Len(receipts))
        /\ w.at - AuthTime[w.auth] <= AuthWindow
    <2>1. w.version = state.stateVersion /\ w.auth = a /\ w.at = now
      OBVIOUS
    <2>2. state.stateVersion = base.stateVersion + Len(receipts)
      BY DEF ExitInv, ReceiptsChain
    <2>3. Halting(Len(receipts))
      BY DEF ExitInv, ReceiptsChain, WithdrawFunds
    <2>4. now - AuthTime[a] <= AuthWindow
      BY DEF WithdrawFunds, RequireAuth
    <2> HIDE DEF w
    <2>5. QED
      BY <1>0, <2>1, <2>2, <2>3, <2>4
  <1> HIDE DEF w
  <1>5. WithdrawnWhileHalted'
    BY <1>0, <1>1, <1>4 DEF ExitInv, WithdrawnWhileHalted, Halting
  <1>6. QED
    BY <1>2, <1>3, <1>5 DEF ExitInv

(* An engine that takes over a snapshot starts a new chain from it. *)
LEMMA RehydrateExitInv == ASSUME ExitInv, SetState \/ Restart PROVE ExitInv'
  <1>1. /\ state' = persisted /\ base' = persisted /\ receipts' = <<>> /\ withdrawals' = {}
        /\ now' = now /\ persisted' = persisted
    BY DEF SetState, Restart, Rehydrated
  <1>2. notifying' \subseteq {0} /\ locked' \in BOOLEAN /\ (notifying' # {} => locked')
    BY DEF SetState, Restart, ExitInv, TypeOK, AnnouncedInOrder
  <1>3. receipts' \in Seq(ReceiptStates) /\ Len(receipts') = 0
    BY <1>1
  <1>4. TypeOK'
    BY <1>1, <1>2, <1>3 DEF ExitInv, TypeOK
  <1>5. ReceiptsChain'
    BY <1>1, <1>3 DEF ExitInv, TypeOK, Snapshots, ReceiptsChain, Halting
  <1>6. AnnouncedInOrder' /\ WithdrawnWhileHalted'
    BY <1>1, <1>2 DEF AnnouncedInOrder, WithdrawnWhileHalted
  <1>7. QED
    BY <1>4, <1>5, <1>6 DEF ExitInv

(* Every step of the engine keeps the invariant. *)
LEMMA NextExitInv == ExitInv /\ [Next]_vars => ExitInv'
  <1> SUFFICES ASSUME ExitInv, [Next]_vars PROVE ExitInv'
    OBVIOUS
  <1>1. ASSUME NEW a \in Auths, TriggerEmergencyExit(a) PROVE ExitInv'
    BY <1>1, CommitExitInv DEF TriggerEmergencyExit, Statuses
  <1>2. ASSUME NEW a \in Auths, RecoverEngine(a) PROVE ExitInv'
    BY <1>2, CommitExitInv DEF RecoverEngine, Statuses
  <1>3. ASSUME NEW i \in notifying, NotifySettles(i) PROVE ExitInv'
    <2>1. /\ notifying' = notifying \ {i} /\ locked' = FALSE
          /\ UNCHANGED <<now, state, persisted, base, receipts, withdrawals>>
      BY <1>3 DEF NotifySettles
    <2>2. notifying' = {}
      BY <2>1 DEF ExitInv, AnnouncedInOrder
    <2>3. TypeOK' /\ AnnouncedInOrder'
      BY <2>1, <2>2 DEF ExitInv, TypeOK, AnnouncedInOrder
    <2>4. ReceiptsChain' /\ WithdrawnWhileHalted'
      BY <2>1 DEF ExitInv, ReceiptsChain, Halting, WithdrawnWhileHalted
    <2>5. QED
      BY <2>3, <2>4 DEF ExitInv
  <1>4. CASE Persist \/ Tick \/ UNCHANGED vars
    <2>1. /\ UNCHANGED <<state, locked, notifying, base, receipts, withdrawals>>
          /\ now' \in Nat /\ persisted' \in Snapshots
      BY <1>4 DEF Persist, Tick, vars, ExitInv, TypeOK
    <2>2. TypeOK' /\ AnnouncedInOrder'
      BY <2>1 DEF ExitInv, TypeOK, AnnouncedInOrder
    <2>3. ReceiptsChain' /\ WithdrawnWhileHalted'
      BY <2>1 DEF ExitInv, ReceiptsChain, Halting, WithdrawnWhileHalted
    <2>4. QED
      BY <2>2, <2>3 DEF ExitInv
  <1>5. QED
    BY <1>1, <1>2, <1>3, <1>4, WithdrawExitInv, RehydrateExitInv DEF Next

-----------------------------------------------------------------------------
(* The strengthened invariant holds in every reachable state. *)
THEOREM ExitInvariance == SafetySpec => []ExitInv
  BY InitExitInv, NextExitInv, PTL DEF SafetySpec

(* The engine stays within its types. *)
THEOREM ExitTypeCorrect == SafetySpec => []TypeOK
  BY ExitInvariance, PTL DEF ExitInv

(* Halts and recoveries alternate along a gapless chain of versions, also  *)
(* across rehydrations while a notification is outstanding.                *)
THEOREM ChainHolds == SafetySpec => []ReceiptsChain
  BY ExitInvariance, PTL DEF ExitInv

(* The lock serialises the announcements. *)
THEOREM AnnouncementsSerial == SafetySpec => []AnnouncedInOrder
  BY ExitInvariance, PTL DEF ExitInv

(* Withdrawals are approved only while the engine is halted. *)
THEOREM WithdrawalsGuarded == SafetySpec => []WithdrawnWhileHalted
  BY ExitInvariance, PTL DEF ExitInv

(* Receipts form a gapless alternating chain that is announced one         *)
(* transition at a time.                                                   *)
THEOREM TransitionsInSeries == SafetySpec => []TransitionsSerial
  BY ChainHolds, AnnouncementsSerial, PTL DEF TransitionsSerial

(* The lock is not left behind: whoever finds the engine locked, also      *)
(* after a rehydration, is waiting for a notification that has not settled *)
(* yet; and without a hook to wait for, the engine is never locked.        *)
LockIsHeldByHook ==
    /\ locked => notifying # {}
    /\ locked => HasNotifyHook

(* One settling hook releases the lock and is the only one there is.       *)
(* LockIsReleased, that the hook does settle, rests on fairness.           *)
THEOREM NoLockLeftBehind == SafetySpec => []LockIsHeldByHook
  <1>1. Init => LockIsHeldByHook
    BY DEF Init, LockIsHeldByHook
  <1>2. ExitInv /\ LockIsHeldByHook /\ [Next]_vars => LockIsHeldByHook'
    <2> SUFFICES ASSUME ExitInv, LockIsHeldByHook, [Next]_vars PROVE LockIsHeldByHook'
      OBVIOUS
    <2>0. locked \in BOOLEAN /\ HasNotifyHook \in BOOLEAN
      BY ExitAssumption DEF ExitInv, TypeOK
    <2>1. ASSUME NEW a \in Auths, NEW action, NEW st, Commit(a, action, st)
          PROVE  LockIsHeldByHook'
      <3>1. locked' = HasNotifyHook /\ (HasNotifyHook => Len(receipts) + 1 \in notifying')
        BY <2>1 DEF Commit
      <3>2. QED
        BY <2>0, <3>1 DEF LockIsHeldByHook
    <2>2. CASE SetState
      BY <2>2 DEF SetState, LockIsHeldByHook
    <2>3. CASE Restart
      BY <2>3 DEF Restart, LockIsHeldByHook
    <2>4. ASSUME NEW a \in Auths, WithdrawFunds(a) PROVE LockIsHeldByHook'
      BY <2>4 DEF WithdrawFunds, LockIsHeldByHook
    <2>5. ASSUME NEW i \in notifying, NotifySettles(i) PROVE LockIsHeldByHook'
      BY <2>5 DEF NotifySettles, LockIsHeldByHook
    <2>6. CASE Persist \/ Tick \/ UNCHANGED vars
      BY <2>6 DEF Persist, Tick, vars, LockIsHeldByHook
    <2>7. QED
      BY <2>1, <2>2, <2>3, <2>4, <2>5, <2>6 DEF Next, TriggerEmergencyExit, RecoverEngine
  <1>3. QED
    BY <1>1, <1>2, ExitInvariance, PTL DEF SafetySpec
==============================================================================
