--------------------------- MODULE MCAtomicBridge ---------------------------
(* Model-checking instance of AtomicBridge: a faulty endpoint `a` is       *)
(* configured twice with the highest priorities.                           *)
EXTENDS AtomicBridge, TLC

CONSTANTS a, b, c, get, post, nokey, truth, lie, junk

MCKind == (get :> "replayable") @@ (post :> "once") @@ (nokey :> "badKey")

MCRoute == [r \in Requests |-> IF r = get THEN <<a, a, b, c>> ELSE <<b, a, c>>]
=============================================================================
