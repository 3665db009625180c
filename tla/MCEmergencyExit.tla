--------------------------- MODULE MCEmergencyExit ---------------------------
(* Two payloads signed at different times, one of an unknown caller. *)
EXTENDS EmergencyExit

CONSTANTS a1, a2, a3

MCAuths == {a1, a2, a3}

MCAuthTime == [a \in MCAuths |-> IF a = a2 THEN 2 ELSE 0]
==============================================================================
