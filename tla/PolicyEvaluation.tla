-------------------------- MODULE PolicyEvaluation --------------------------
(***************************************************************************)
(* PolicyEngine.evaluate() (policy-engine.ts): every evaluation of a pull  *)
(* request reports its progress to the engine's one ProtocolStateMachine.  *)
(* evaluate() is async, so evaluations of one engine interleave at its two *)
(* awaits: the overflow checker, and the policy evaluator.  Between awaits *)
(* it runs without interruption; in particular the tail that applies       *)
(* SCAN_COMPLETED, REPORT_DELIVERED and RESET is one step.  Errors of the  *)
(* machine are logged and ignored.                                         *)
(***************************************************************************)
EXTENDS ProtocolStateMachine

CONSTANT Evaluations    \* calls of evaluate() on one engine

VARIABLE evals          \* evals[e]: the local state of call e

policyVars == <<machineVars, evals>>

Statuses == {"COMPLIANT", "WARNING", "NON_COMPLIANT"}

Running == {"checking", "evaluating"}

InFlight == {e \in Evaluations : evals[e].pc \in Running}

ScanEvent(type, s) == [type |-> type, scanId |-> s, skewed |-> FALSE]

ResetEvent == [type |-> "RESET", scanId |-> NoScan, skewed |-> FALSE]

\* Slip: a crash of the evaluator falls back to the bundle's verdict alone.
VerdictFailOpen(primary, bundle) ==
    IF bundle = "failed" THEN "WARNING"
    ELSE IF primary = "throws" THEN "COMPLIANT"
    ELSE primary

(* The verdict: `primary` is what the OPA or the fallback evaluator gave,  *)
(* `bundle` what applyPolicyBundleVerification found.  Either throwing     *)
(* fails closed; an unverified bundle turns COMPLIANT into WARNING.        *)
Verdict(primary, bundle) ==
    IF primary = "throws" \/ bundle = "throws" THEN "NON_COMPLIANT"
    ELSE IF bundle = "failed" /\ primary = "COMPLIANT" THEN "WARNING"
    ELSE primary

PolicyInit ==
    /\ MachineInit
    /\ evals = [e \in Evaluations |->
          [pc |-> "new", scanId |-> NoScan, started |-> FALSE, overlapped |-> FALSE,
           delivered |-> FALSE, earned |-> FALSE, status |-> "none"]]

(* Up to the first await.  The scan id is pr-<number>-<Date.now()>: two    *)
(* calls for one pull request in the same millisecond share it.            *)
Evaluate(e, s) ==
    LET event == ScanEvent("SCAN_STARTED", s)
    IN  /\ evals[e].pc = "new"
        /\ Becomes(ApplyEvent(Machine, event))
        /\ evals' = [f \in Evaluations |->
              IF f = e
              THEN [evals[e] EXCEPT !.pc = "checking", !.scanId = s,
                                    !.started = Refusal(Machine, event) = "none",
                                    !.overlapped = InFlight # {}]
              ELSE [evals[f] EXCEPT !.overlapped = @ \/ f \in InFlight]]

(* checkFiles() resolves. *)
FilesChecked(e) ==
    /\ evals[e].pc = "checking"
    /\ evals' = [evals EXCEPT ![e].pc = "evaluating"]
    /\ UNCHANGED machineVars

(* checkFiles() rejects; it is awaited outside the try block, so evaluate() *)
(* itself rejects and leaves the machine as it is.                         *)
FilesCheckThrows(e) ==
    /\ evals[e].pc = "checking"
    /\ evals' = [evals EXCEPT ![e].pc = "threw"]
    /\ UNCHANGED machineVars

(* The machines that tryApply(event) leads to from a machine of `from`. *)
Then(from, event) == {ApplyEvent(m, event) : m \in from}

\* Slip: the tail forgets to reset the machine.
ReportTailNoReset(m, s) ==
    LET completed == Then({m}, ScanEvent("SCAN_COMPLETED", s))
    IN  Then(completed, ScanEvent("REPORT_DELIVERED", s))

\* Slip: the report is delivered before the scan is marked complete.
ReportTailDeliverFirst(m, s) ==
    LET delivered == Then({m}, ScanEvent("REPORT_DELIVERED", s))
        completed == Then(delivered, ScanEvent("SCAN_COMPLETED", s))
    IN  Then(completed, ResetEvent)

(* The events evaluate() applies once it has its result; the set of the    *)
(* one machine they lead to.                                               *)
ReportTail(m, s) ==
    LET completed == Then({m}, ScanEvent("SCAN_COMPLETED", s))
        delivered == Then(completed, ScanEvent("REPORT_DELIVERED", s))
    IN  Then(delivered, ResetEvent)

(* What evaluate() can come to: the status it returns, and whether the     *)
(* evaluator called the pull request compliant under an accepted bundle.   *)
Outcomes ==
    {[status |-> Verdict(primary, bundle),
      earned |-> primary = "COMPLIANT" /\ bundle \in {"unconfigured", "verified"}] :
        primary \in Statuses \cup {"throws"},
        bundle \in {"unconfigured", "verified", "failed", "throws"}}

(* The evaluator answers or throws, and the rest of evaluate() runs. *)
Conclude(e, outcome) ==
    /\ evals[e].pc = "evaluating"
    /\ \E after \in ReportTail(Machine, evals[e].scanId) :
          /\ Becomes(after)
          /\ evals' = [evals EXCEPT
                ![e] = [@ EXCEPT !.pc = "returned", !.status = outcome.status,
                                 !.earned = outcome.earned,
                                 !.delivered = \E i \in 1 .. Len(after.history) :
                                      /\ after.history[i].seq > transitionCount
                                      /\ after.history[i].type = "REPORT_DELIVERED"
                                      /\ after.history[i].scanId = evals[e].scanId]]

(* A step of the running call e. *)
Progress(e) ==
    \/ FilesChecked(e)
    \/ FilesCheckThrows(e)
    \/ \E outcome \in Outcomes : Conclude(e, outcome)

PolicyNext ==
    \E e \in Evaluations : (\E s \in ScanIds : Evaluate(e, s)) \/ Progress(e)

PolicySafety == PolicyInit /\ [][PolicyNext]_policyVars

(* Promise callbacks of running evaluations are always run by the event    *)
(* loop; that a new evaluation is requested is not assumed.                *)
PolicySpec ==
    PolicySafety /\ WF_policyVars(\E e \in Evaluations : Progress(e))

-----------------------------------------------------------------------------
PolicyTypeOK ==
    /\ MachineTypeOK
    /\ evals \in [Evaluations ->
          [pc : {"new", "returned", "threw"} \cup Running,
           scanId : ScanIds \cup {NoScan}, started : BOOLEAN, overlapped : BOOLEAN,
           delivered : BOOLEAN, earned : BOOLEAN, status : Statuses \cup {"none"}]]

(* An evaluation whose SCAN_STARTED was accepted and that no other one     *)
(* overlapped has its report recorded as delivered: records go missing     *)
(* only through overlap.                                                   *)
SoloIsRecorded ==
    \A e \in Evaluations :
        /\ evals[e].pc = "returned"
        /\ evals[e].started
        /\ ~evals[e].overlapped
        => evals[e].delivered

(* Fail closed: a pull request is COMPLIANT only if the evaluator said so  *)
(* and no crash and no failed bundle signature was involved.               *)
FailsClosed ==
    \A e \in Evaluations :
        evals[e].status = "COMPLIANT" => evals[e].earned

(* Every session that evaluations opened ends: the machine returns to IDLE *)
(* unless an evaluation died in the overflow checker.                      *)
SessionsEnd ==
    (state # "IDLE" /\ InFlight # {}) ~>
        (state = "IDLE" \/ \E e \in Evaluations : evals[e].pc = "threw")
=============================================================================
