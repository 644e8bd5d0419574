------------------------------- MODULE MCDump -------------------------------
(* Instances of Dump for TLC: a reader and two dumps on two connections. *)
EXTENDS Dump

MCHandles == {1}
MCDumpers == {"first", "second"}

Col(name, type) == [name |-> name, type |-> type]
MCTables ==
    LET all == <<Col("Doc", "JSON"), Col("At", "DATETIME"), Col("Day", "DATE"),
                 Col("Born", "DATE"), Col("Old", "DATE"), Col("Tags", "SET"),
                 Col("Odd", "SET"), Col("Path", "SET"), Col("Note", "TEXT"),
                 Col("Text", "VARCHAR")>>
    IN  <<all, Tail(all)>>
MCStored ==
    <<[Doc |-> <<"n", "u", "l", "l">>, At |-> <<7, 3>>, Day |-> <<7, 0>>,
       Born |-> ZeroTime, Old |-> ZeroDate, Tags |-> <<"a", ",", "\\", "%">>,
       Odd |-> <<"o", "'">>, Path |-> <<"\\", "n">>, Note |-> Null,
       Text |-> <<"a", "bell">>]>>

\* As Connect writes it, and raw strings: for a location west of Greenwich, for
\* one to the east, and without parseTime.
Default == [parseTime |-> TRUE, loc |-> 0]
MCConnections ==
    {Default, [Default EXCEPT !.loc = -5], [Default EXCEPT !.loc = 8],
     [Default EXCEPT !.parseTime = FALSE]}
MCMaxDumps == [c \in MCConnections |-> IF c = Default THEN 2 ELSE 1]
=============================================================================
