------------------------------ MODULE MCPolicy ------------------------------
(* The protocol state machine, driven by the policy engine's evaluations   *)
(* or, on its own, by every event its interface takes.                     *)
EXTENDS PolicyEvaluation

VARIABLE driver

drivenVars == <<driver, policyVars>>

MCInit == driver \in {"engine", "caller"} /\ PolicyInit

EngineOnly(A) == driver = "engine" /\ A /\ UNCHANGED driver

MCNext ==
    \/ EngineOnly(PolicyNext)
    \/ driver = "caller" /\ MachineNext /\ UNCHANGED <<driver, evals>>

(* The fairness of PolicySpec. *)
MCSpec ==
    /\ MCInit /\ [][MCNext]_drivenVars
    /\ WF_drivenVars(EngineOnly(\E e \in Evaluations : Progress(e)))
=============================================================================
