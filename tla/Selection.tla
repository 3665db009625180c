----------------------------- MODULE Selection ------------------------------
(***************************************************************************)
(* sort() and filter() of JavaScript arrays, without recursion: an element *)
(* goes to the place that the number of elements before it gives.          *)
(***************************************************************************)
EXTENDS Integers, Sequences, FiniteSets

(* Those of S that do not come after x in the order R, x included. *)
UpTo(S, R, x) == {y \in S : <<y, x>> \in R}

(* The elements of the finite set S in the total order R. *)
Sorted(S, R) ==
    [k \in 1 .. Cardinality(S) |-> CHOOSE x \in S : Cardinality(UpTo(S, R, x)) = k]

NotAbove(S) == {r \in S \X S : r[1] <= r[2]}

(* The elements of s at the positions in P, in their order. *)
Kept(s, P) ==
    LET order == Sorted(P, NotAbove(P)) IN [k \in 1 .. Cardinality(P) |-> s[order[k]]]
=============================================================================
