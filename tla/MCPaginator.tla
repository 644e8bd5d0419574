--------------------------- MODULE MCPaginator ---------------------------
(* Instances of Paginator for TLC. *)
EXTENDS Paginator

MCNone == {}
MCFirst == {1}
MCFour == 1..4
MCThree == 1..3
MCTwoVals == 1..2
MCOneVal == {1}
MCCounts == 0..2
==========================================================================
