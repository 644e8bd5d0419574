---------------------------- MODULE WindowScan ----------------------------
(* What a paginated traversal promises over a table nobody changes: the     *)
(* pages are windows of one sorted list; each starts at the row the one     *)
(* before ended with, and the last window reaches the end of the list.      *)

EXTENDS Naturals, Sequences

VARIABLES list,    \* the sorted rows
          size,    \* rows of a full window
          pos,     \* where the next window starts
          shown,   \* the last window
          phase    \* "new", "show", "move", "end" or "refused"

wvars == <<list, size, pos, shown, phase>>

WInit == list \in Seq(Nat) /\ size = 0 /\ pos = 1 /\ shown = <<>> /\ phase = "new"

\* A window of one row would never move.
Open == /\ phase = "new"
        /\ \/ phase' = "refused" /\ UNCHANGED size
           \/ phase' = "show" /\ size' \in Nat \ {0, 1}
        /\ UNCHANGED <<list, pos, shown>>

Window == SubSeq(list, pos, IF pos + size - 1 < Len(list)
                            THEN pos + size - 1 ELSE Len(list))

Show == /\ phase = "show"
        /\ shown' = Window
        /\ phase' = IF Window = <<>> THEN "end" ELSE "move"
        /\ UNCHANGED <<list, size, pos>>

Move == /\ phase = "move"
        /\ pos' = pos + Len(shown) - 1
        /\ phase' = IF Len(shown) < size THEN "end" ELSE "show"
        /\ UNCHANGED <<list, size, shown>>

WNext == Open \/ Show \/ Move

WSpec == WInit /\ [][WNext]_wvars
===========================================================================
