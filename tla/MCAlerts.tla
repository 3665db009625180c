------------------------------ MODULE MCAlerts ------------------------------
(* The three ways an alert leaves the system.  They share no state: a      *)
(* behaviour is about one of them, and the others stay as they started.    *)
EXTENDS SignerNotification, AlertDispatcher, WebhookAlert

VARIABLE channel

alertVars == <<channel, signerVars, dispatcherVars, webhookVars>>

MCInit ==
    /\ channel \in {"signers", "dashboard", "webhook"}
    /\ SignerInit /\ DispatcherInit /\ WebhookInit
    /\ channel # "signers" => throwOnAnyFailure = FALSE /\ file = NoFile
    /\ channel # "dashboard" =>
          nonBlocking = TRUE /\ hasClient = TRUE /\ inputs = [b \in DispatchBatches |-> <<>>]

SignersOnly(A) == channel = "signers" /\ A /\ UNCHANGED <<channel, dispatcherVars, webhookVars>>
DashboardOnly(A) == channel = "dashboard" /\ A /\ UNCHANGED <<channel, signerVars, webhookVars>>
WebhookOnly(A) == channel = "webhook" /\ A /\ UNCHANGED <<channel, signerVars, dispatcherVars>>

MCNext == SignersOnly(SignerNext) \/ DashboardOnly(DispatcherNext) \/ WebhookOnly(WebhookNext)

MCSpec ==
    /\ MCInit /\ [][MCNext]_alertVars
    /\ WF_alertVars(SignersOnly(SignerProgress))
    /\ WF_alertVars(DashboardOnly(DispatcherProgress))
    /\ WF_alertVars(WebhookOnly(WebhookProgress))

(* Nothing that is sent is waited for without end: every notification,     *)
(* escalation, batch and webhook call settles, whichever endpoints, rosters *)
(* and logs fail.                                                          *)
AlertsSettle == EveryCallSettles /\ EveryBatchReturns /\ EverySendSettles
=============================================================================
