------------------------- MODULE MCTreasuryTimeLock -------------------------
(* Model-checking instance of TreasuryTimeLock. *)
EXTENDS TreasuryTimeLock, TLC

Symmetry == Permutations(RequestIds)
=============================================================================
