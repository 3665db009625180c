-------------------------- MODULE MCTelemetryQueue --------------------------
(* Small instances of TelemetryQueue: three producers, two shutdowns. *)
EXTENDS TelemetryQueue

CONSTANTS e1, e2, e3

MCEvents == {e1, e2, e3}

\* One event the sink ignores, one it may refuse and one it must refuse.
MCPayload == [e \in MCEvents |-> CASE e = e1 -> "drift" [] e = e2 -> "foreign"
                                   [] e = e3 -> "malformed"]
=============================================================================
