------------------------------ MODULE MCRows ------------------------------
(* Instances of Rows for TLC. *)
EXTENDS Rows

CONSTANT Nested   \* the characters of strings inside arrays that are skipped

Chars == {"a", "n", Quote, Backslash, "]", "{", ",", "nl", "ff"}
Texts == {<<>>} \union {<<c>> : c \in Chars} \union {<<c, d>> : c \in Chars, d \in Chars}

Level(kind, name, int) == [space |-> "ns", kind |-> kind, name |-> name, int |-> int]
Root == Level(<<"K">>, <<>>, -7)
Child == Level(<<"C">>, <<"/", "'", Quote>>, 3)
Named == Level(<<"C">>, <<"a">>, 0)
MCKeys ==
    {<<Root>>, <<Child>>, <<Root, Child>>, <<Child, Root, Named>>, ZeroKey,
     <<Root, Level(<<"C">>, <<>>, 0)>>, <<Level(<<"C">>, <<>>, 0), Root>>,
     <<Level(<<"K", "/">>, <<>>, 1)>>, <<Level(<<"K">>, <<"%", ",", "nl">>, 0)>>}

k == <<"k">>
i == <<"i">>
p == <<"p">>
x == <<Quote, "nl">>

Leaf == {Null, <<"bool", TRUE>>, <<"bool", FALSE>>, <<"int", -5>>, <<"int", 0>>,
         <<"int", 7>>, <<"float", -5>>, <<"float", 7>>, NilSlice, NilMap}
        \union {<<"str", s>> : s \in Texts}
Small == {Null, <<"int", -5>>, <<"float", 7>>, <<"str", <<Quote, "{", "nl">>>>}
         \union {<<"str", <<c>>>> : c \in Nested}

Arrays(values) == {<<"arr", <<>>>>} \union {<<"arr", <<v>>>> : v \in values}
                  \union {<<"arr", <<v, w>>>> : v \in values, w \in values}
Objects(names, values) ==
    UNION {{<<"obj", f>> : f \in [some -> values]} : some \in SUBSET names}

Inner == Arrays(Small) \union Objects({k}, Small) \union Objects({k, x}, {Null, <<"int", 7>>})
Deep(inner) == {<<"arr", <<v>>>> : v \in inner} \union {<<"obj", k :> v>> : v \in inner}

Key1 == <<Root, Child>>
Slices(small, inner, deep) ==
    Arrays(small) \union {<<"arr", <<v, w>>>> : v \in Leaf, w \in small}
    \union Arrays(inner) \union {<<"arr", <<v>>>> : v \in deep} \union {NilSlice}
Maps(small, inner, deep) ==
    Objects({k}, Leaf) \union Objects({k, x}, small \union {<<"arr", <<>>>>})
    \union Objects({k, x}, inner) \union {<<"obj", k :> v>> : v \in deep}
    \union {<<"obj", (i :> <<"int", n>>) @@ (p :> <<"key", id>>) @@ (k :> v)>> :
               n \in {-5, 7}, id \in {Key1, ZeroKey}, v \in small}

Held(docs, type) == {[key |-> Key1, doc |-> d, into |-> type] : d \in docs}

\* Sets that are used more than once are arguments, which TLC evaluates once.
RecordsOf(small, inner, deep) ==
    Held(Slices(small, inner, deep), "slice")
    \union Held(Maps(small, inner, deep), "struct")
    \union Held(Maps(small, inner, deep), "map")
    \union Held({NilMap, <<"obj", <<"del">> :> Null>>}, "map")
    \union {[key |-> id, doc |-> <<"arr", <<>>>>, into |-> "slice"] : id \in MCKeys}

MCRecords == RecordsOf(Small, Inner, Deep(Inner))

MCNumeral == [n \in 0..9 |-> ToString(n)]

MCFieldTypes == (k :> "any") @@ (i :> "int") @@ (p :> "key")
==========================================================================
