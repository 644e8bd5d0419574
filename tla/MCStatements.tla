---------------------------- MODULE MCStatements ----------------------------
(* Instances of Statements for TLC. *)
EXTENDS Statements

a0 == C("a", "=", <<0>>)
b1 == C("b", ">=", <<1>>)
Leaves ==
    {None, a0, b1, C("a", "<>", <<1>>), C("b", "IS NULL", <<>>), C("b", "IS NOT NULL", <<>>),
     C("a", "IN", <<1, 0>>), C("a", "NOT IN", <<0, NULL>>), C("a", "IN", <<>>),
     C("b", "BETWEEN", <<1, 2>>), C("a", "NOT BETWEEN", <<0, 0>>), C("b", "=", <<NULL>>)}
Patterns == {NULL, <<"x", "%">>, <<"x", "_">>, <<"%", "x">>, <<"_">>, <<"\\", "x">>}
Likes == {C("s", op, <<p>>) : op \in {"LIKE", "NOT LIKE"}, p \in Patterns}

Few == {None, a0, b1, C("b", "BETWEEN", <<1, 2>>)}
Pairs(parts) == {<<op, <<x, y>>>> : op \in {"and", "or"}, x \in parts, y \in parts}
Single(parts) == {<<op, <<x>>>> : op \in {"and", "or"}, x \in parts}
Inner == Pairs(Few) \union {<<"and", <<>>>>, <<"or", <<a0>>>>}

Page(limit, skip, noLimit) == [limit |-> limit, skip |-> skip, noLimit |-> noLimit]
Whole == Page(0, 0, TRUE)
AllPages == {Whole, Page(0, 0, FALSE), Page(1, 1, FALSE), Page(0, 1, TRUE)}

Silent == <<"and", <<>>>>
b2 == <<"and", <<C("b", ">=", <<2>>)>>>>
a1 == <<"and", <<C("a", "=", <<1>>)>>>>
a0OrNoB == <<"or", <<a0, C("b", "IS NULL", <<>>)>>>>
Injected == {<<Silent>>, <<b2>>, <<a0OrNoB>>}

Room(nContexts, nFinds, nWrites, queries, pages) ==
    [contexts |-> nContexts, finds |-> nFinds, writes |-> nWrites,
     resolutions |-> queries, pages |-> pages]
Given(wheres, bounds) == {[where |-> w, room |-> bounds] : w \in wheres}

\* Every shape of condition once; a few with contexts; two with contexts
\* enough to share an array; two with finds at once.
MCPrograms ==
    Given({<<x, y>> : x \in Inner, y \in Inner} \union {<<x>> : x \in Pairs(Leaves) \union Single(Inner)}
          \union {<<x>> : x \in Likes} \union {<<>>} \union {<<x, y, b1>> : x \in Few, y \in Few},
          Room(0, 1, 0, {}, {Whole}))
    \union Given({<<x, y>> : x \in Few, y \in Few} \union {<<>>, <<C("a", "IN", <<>>)>>,
                  <<C("a", "NOT IN", <<0, NULL>>), C("s", "LIKE", <<<<"x", "_">>>>)>>},
                 Room(0, 1, 1, {}, AllPages))
    \union Given({<<>>, <<a0>>, <<a0, b1>>, <<<<"or", <<a0, b1>>>>>>, <<None>>},
                 Room(2, 1, 0, Injected \union {<<Silent, b2>>}, {Whole}))
    \union Given({<<>>, <<a0>>}, Room(5, 1, 0, {<<Silent>>, <<b2>>}, {Whole}))
    \union Given({<<a0>>, <<a0, b1>>}, Room(1, 2, 0, Injected, AllPages))
    \union Given({<<a0>>, <<a0, b1>>},
                 Room(2, 2, 0, {<<b2>>, <<a1>>, <<b2, a0OrNoB>>}, {Whole}))

Row(id, a, b, s) == [id |-> id, a |-> a, b |-> b, s |-> s]
MCRows ==
    {Row(1, 0, 0, <<"x">>), Row(2, 0, 2, <<"x", "y">>), Row(3, 0, NULL, <<"%", "x">>),
     Row(4, 1, 1, <<"x", "%">>), Row(5, 1, NULL, NULL), Row(6, NULL, 2, <<"\\", "x">>)}

MCSettings == {<<>>, <<<<"a", 1>>, <<"b", NULL>>>>, <<<<"b", 0>>, <<"b", 2>>>>}

Goroutines == Permutations(Callers)
=============================================================================
