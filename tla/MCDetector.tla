----------------------------- MODULE MCDetector -----------------------------
(* The two halves of the anomaly detector: the nonce database that its     *)
(* processes share, and the polling loop of one process.  A poll uses the  *)
(* database between two awaits only, so a behaviour is about one of them.  *)
EXTENDS NonceStore, AnomalyDetector

CONSTANTS r1, r2

VARIABLE half

mcVars == <<half, vars, detectorVars>>

(* Polls that advance, repeat, lower or leave out a nonce. *)
MCBatches == {b \in NonceMaps : \A a \in Addrs : b[a] # 0}

(* Two feeds that agree on one of two addresses. *)
MCLists == [f \in 1 .. NumFeeds |-> IF f = 1 THEN {r1, r2} ELSE {r1}]

MCInit ==
    /\ half \in {"nonces", "polling"}
    /\ Init /\ DetectorInit
    /\ half = "nonces" => up = Nodes
    /\ half = "polling" => renameOverFails = FALSE

NoncesOnly(A) == half = "nonces" /\ A /\ UNCHANGED <<half, detectorVars>>
PollingOnly(A) == half = "polling" /\ A /\ UNCHANGED <<half, vars>>

MCNext == NoncesOnly(Next) \/ PollingOnly(DetectorNext)

(* As in Spec and DetectorSpec. *)
MCSpec ==
    /\ MCInit /\ [][MCNext]_mcVars
    /\ \A p \in Procs : WF_mcVars(NoncesOnly(Save(p)))
    /\ \A p \in Polls : WF_mcVars(PollingOnly(Tick(p))) /\ WF_mcVars(PollingOnly(PollStep(p)))
=============================================================================
