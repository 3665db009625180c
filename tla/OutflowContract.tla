--------------------------- MODULE OutflowContract ---------------------------
(***************************************************************************)
(* What the treasury time lock promises its callers, without times,        *)
(* statuses or sweeps: a request is opened once, at most MaxPending are    *)
(* open, and an open request is settled by one announcement, paid or void, *)
(* after which nothing more is said about it.                              *)
(***************************************************************************)
EXTENDS Naturals, FiniteSets

CONSTANTS RequestIds, MaxPending

VARIABLES
    phase,      \* phase[id]: "unknown", "open", "paid" or "void"
    told        \* told[id]: settlements announced to callers

contractVars == <<phase, told>>

Open == {id \in RequestIds : phase[id] = "open"}

Init ==
    /\ phase = [id \in RequestIds |-> "unknown"]
    /\ told = [id \in RequestIds |-> 0]

Accept(id) ==
    /\ phase[id] = "unknown"
    /\ Cardinality(Open) < MaxPending
    /\ phase' = [phase EXCEPT ![id] = "open"]
    /\ UNCHANGED told

Settle(id, outcome) ==
    /\ phase[id] = "open"
    /\ phase' = [phase EXCEPT ![id] = outcome]
    /\ told' = [told EXCEPT ![id] = told[id] + 1]

Next ==
    \E id \in RequestIds :
        Accept(id) \/ \E outcome \in {"paid", "void"} : Settle(id, outcome)

Spec == Init /\ [][Next]_contractVars
=============================================================================
