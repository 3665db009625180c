---------------------------- MODULE WebhookAlert ----------------------------
(***************************************************************************)
(* sendAlert() (webhook.ts): one POST with a timeout, and an entry for the *)
(* attempt in the relay log.  The nonce watcher and the audit guard send   *)
(* their alerts through it.                                                *)
(*                                                                         *)
(* acked is what the endpoint did, which the caller may never learn.       *)
(***************************************************************************)
EXTENDS Integers, Sequences

CONSTANT Sends          \* the calls of sendAlert()

VARIABLES
    at,                 \* "idle", "mkdir", "fetch", "log", "log2", "returned", "rejected"
    status,             \* the status the call is about to return
    acked,              \* the endpoint took the alert and answered 2xx
    relayLog            \* the entries of LOG_FILE, as [send, delivered]

webhookVars == <<at, status, acked, relayLog>>

WebhookInit ==
    /\ at = [s \in Sends |-> "idle"]
    /\ status = [s \in Sends |-> "none"]
    /\ acked = {}
    /\ relayLog = <<>>

Go(s, where, what) ==
    /\ at' = [at EXCEPT ![s] = where]
    /\ status' = [status EXCEPT ![s] = what]

(* Without WEBHOOK_URL nothing is sent and nothing is logged. *)
NotConfigured(s) ==
    /\ at[s] = "idle"
    /\ Go(s, "returned", "NO_WEBHOOK_CONFIGURED")
    /\ UNCHANGED <<acked, relayLog>>

SendAlert(s) ==
    /\ at[s] = "idle"
    /\ Go(s, "mkdir", "none")
    /\ UNCHANGED <<acked, relayLog>>

(* mkdir() of the log's directory, outside the try: its error is thrown.   *)
(* Then the request goes out, or there is no fetch to send it with.        *)
DirectoryMade(s) ==
    /\ at[s] = "mkdir"
    /\ \/ Go(s, "rejected", "none")
       \/ Go(s, "log2", "FETCH_UNAVAILABLE")
       \/ Go(s, "fetch", "none")
    /\ UNCHANGED <<acked, relayLog>>

(* The endpoint takes the alert; its answer is still on the way. *)
EndpointAcks(s) ==
    /\ at[s] = "fetch"
    /\ acked' = acked \union {s}
    /\ UNCHANGED <<at, status, relayLog>>

(* The status an answer of the endpoint can bear. *)
Answers(s) == IF s \in acked THEN {"200"} ELSE {"500"}

FetchAnswers(s) ==
    /\ at[s] = "fetch"
    /\ \E answer \in Answers(s) : Go(s, "log", answer)
    /\ UNCHANGED <<acked, relayLog>>

(* The network fails; the alert may have arrived all the same. *)
NetworkFails(s) ==
    /\ at[s] = "fetch"
    /\ Go(s, "log2", "NETWORK_ERROR")
    /\ UNCHANGED <<acked, relayLog>>

(* The timer aborts the request; the alert may have arrived all the same. *)
TimerAborts(s) ==
    /\ at[s] = "fetch"
    /\ Go(s, "log2", "TIMEOUT")
    /\ UNCHANGED <<acked, relayLog>>

Entry(s) == [send |-> s, delivered |-> status[s] = "200"]

(* The attempt is logged and the result returned. *)
LogWritten(s) ==
    /\ at[s] \in {"log", "log2"}
    /\ relayLog' = Append(relayLog, Entry(s))
    /\ Go(s, "returned", status[s])
    /\ UNCHANGED acked

\* Slip: an error of the log is ignored, and the answer stands.
LogFailsIgnored(s) ==
    /\ at[s] \in {"log", "log2"}
    /\ Go(s, "returned", status[s])
    /\ UNCHANGED <<acked, relayLog>>

(* An append that fails inside the try lands in its catch clause, where an *)
(* answer of any status becomes NETWORK_ERROR and is logged again; one     *)
(* that fails there rejects the call.                                      *)
LogFails(s) ==
    /\ at[s] \in {"log", "log2"}
    /\ IF at[s] = "log" THEN Go(s, "log2", "NETWORK_ERROR") ELSE Go(s, "rejected", status[s])
    /\ UNCHANGED <<acked, relayLog>>

(* What this process sees to; the endpoint need not answer. *)
WebhookProgress ==
    \E s \in Sends : DirectoryMade(s) \/ TimerAborts(s) \/ LogWritten(s) \/ LogFails(s)

WebhookNext ==
    \/ \E s \in Sends : NotConfigured(s)
    \/ \E s \in Sends : SendAlert(s)
    \/ \E s \in Sends : EndpointAcks(s)
    \/ \E s \in Sends : FetchAnswers(s)
    \/ \E s \in Sends : NetworkFails(s)
    \/ WebhookProgress

(* The timer bounds the request, and file operations end. *)
WebhookSpec == WebhookInit /\ [][WebhookNext]_webhookVars /\ WF_webhookVars(WebhookProgress)

-----------------------------------------------------------------------------
(* "delivered" is never claimed of an alert the endpoint did not take, not *)
(* in a result and not in the log; and the two agree: a call that returned *)
(* after it sent has exactly one entry, with the outcome it returned.  (An *)
(* alert that was taken may be reported as failed: the answer was lost, or *)
(* the log could not be written.)                                          *)
ReportedAsSent ==
    /\ \A s \in Sends : status[s] = "200" => s \in acked
    /\ \A i \in DOMAIN relayLog : relayLog[i].delivered => relayLog[i].send \in acked
    /\ \A s \in Sends :
          at[s] = "returned" /\ status[s] # "NO_WEBHOOK_CONFIGURED" =>
              \E i \in DOMAIN relayLog :
                  /\ relayLog[i].delivered = (status[s] = "200")
                  /\ \A j \in DOMAIN relayLog : relayLog[j].send = s <=> j = i

(* Every call of sendAlert() settles. *)
EverySendSettles == \A s \in Sends : at[s] # "idle" ~> at[s] \in {"returned", "rejected"}
=============================================================================
