------------------------------ MODULE Ranking ------------------------------
(* The elements of a finite set in an order, given as the pairs of which    *)
(* the first comes before the second: ORDER BY, and what is left of a list. *)

EXTENDS Naturals, FiniteSets

\* How many elements of S come before x.
Rank(x, S, before) == Cardinality({y \in S : <<y, x>> \in before})

\* The elements of S, each at the place its rank gives it.
Arranged(S, before) ==
    [k \in 1..Cardinality(S) |-> CHOOSE x \in S : Rank(x, S, before) = k - 1]

\* Of two elements of S one comes before the other.
Orders(before, S) ==
    /\ \A x \in S : <<x, x>> \notin before
    /\ \A x, y, z \in S :
          <<x, y>> \in before /\ <<y, z>> \in before => <<x, z>> \in before
    /\ \A x, y \in S : x = y \/ <<x, y>> \in before \/ <<y, x>> \in before
============================================================================
