-------------------------- MODULE MCTransaction --------------------------
(* Instances of Transaction for TLC. *)
EXTENDS Transaction, TLC

CONSTANTS m1, m2, u, c1, c2

MCTwoManaged == {m1, m2}
MCOneManaged == {m1}
MCManual == {u}
MCNobody == {}
MCConns == {c1, c2}
MCOneConn == {c1}

Sym == Permutations(MCTwoManaged) \cup Permutations(MCConns)
==========================================================================
