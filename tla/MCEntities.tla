----------------------------- MODULE MCEntities -----------------------------
(* Instances of Entities for TLC: struct types, their records and calls. *)
EXTENDS Entities

T(of) == [of |-> of, ptr |-> FALSE]
P(of) == [of |-> of, ptr |-> TRUE]

\* A field is written as its name, its type and what else is not the default.
F(name, of) == <<name, of, <<>>>>
Fp(name, of) == <<name, of, [type |-> P(of)]>>
Fo(name, of, opts) == <<name, of, [opts |-> opts]>>
Embed(name, tag, type) == <<name, "", [tag |-> tag, type |-> type, anon |-> TRUE]>>

Field(d) ==
    d[3] @@ [name |-> d[1], tag |-> "", opts |-> <<>>, type |-> T(d[2]),
             anon |-> FALSE, exported |-> TRUE]
Structs_(types) == [s \in DOMAIN types |-> [i \in DOMAIN types[s] |-> Field(types[s][i])]]

Auto == Fo("ID", "int64", "auto_increment" :> "" @@ "primary_key" :> "")
Id == Fo("ID", "int64", "primary_key" :> "")

a == Chars(<<"a">>)
b == Chars(<<"b">>)
Pair(of, ptr) == <<Id, <<"N", of, [type |-> [of |-> of, ptr |-> ptr]]>>>>

MCStructs == Structs_(
    [Numbers |-> <<Auto, F("A", "int8"), F("B", "int"), F("C", "uint8"), F("F", "float64"),
                   F("G", "bool"), Fp("P", "int64"), Fo("U", "float64", "unsigned" :> "")>>,
     Texts |-> <<Id, F("S", "string"), Fo("H", "string", "char" :> 2),
                 Fo("E", "string", "enum" :> <<a, b>>), Fo("L", "string", "longtext" :> ""),
                 Fo("D", "string", "size" :> 1 @@ "default" :> b), Fp("Q", "string")>>,
     Moments |-> <<Id, F("T", "time"), Fo("Z", "time", "size" :> 9), F("D", "date"),
                   F("C", "clock"), Fp("V", "clock"), Fp("W", "time")>>,
     Blobs |-> <<Id, F("B", "bytes"), F("R", "raw"), F("L", "strings"), F("M", "map"), Fp("K", "bytes")>>,
     Names |-> <<Id, F("C", "currency"), F("L", "language"), F("Z", "location"), F("U", "uuid"), Fp("V", "uuid"), Fp("W", "currency")>>,
     Places |-> <<Id, F("P", "point"), Fp("Q", "point"), F("L", "line"), Fp("G", "polygon")>>,
     Counted |-> <<Auto, F("A", "int8")>>,
     Base |-> <<F("Name", "string"), F("Count", "int8"), F("note", "string")>>,
     Inner |-> <<F("X", "int8"), Embed("Deep", "", T("Deep"))>>,
     Deep |-> <<F("Y", "int8")>>,
     Embedded |-> <<Id, Embed("Base", "", P("Base")), <<"Skip", "int8", [tag |-> "-"]>>,
                    <<"own", "int8", [exported |-> FALSE]>>, Embed("Inner", "in", T("Inner")),
                    F("Note", "string"), F("Count", "int8"), Fp("Next", "Embedded")>>,
     Sub |-> <<Fo("Word", "string", "virtual_column" :> "W")>>,
     Doc |-> <<<<"Title", "", [type |-> P("string"), opts |-> "stored_column" :> ""]>>, F("Sub", "Sub"), F("Rest", "int64")>>,
     Computed |-> <<Id, F("Doc", "Doc"), Fo("W", "string", "generated_column" :> ""),
                    Fp("More", "Doc2"), Fo("Kind", "int8", "generated_column" :> ""), F("Last", "int8")>>,
     Doc2 |-> <<Fo("Kind", "int8", "stored_column" :> "Kind"), Fo("Own", "string", "virtual_column" :> "")>>,
     Ends |-> <<Id, F("Doc", "Doc2"), Fo("Kind", "int8", "generated_column" :> "")>>,
     Upserts |-> <<Id, F("N", "int8"), Fo("At", "time", "on_update" :> ""),
                   Fo("M", "int8", "default" :> <<"int", 1>>), F("Last", "int8")>>,
     Keyed |-> Pair("key", FALSE),
     Anything |-> Pair("any", FALSE),
     Negative |-> <<Id, Fo("N", "int8", "default" :> <<"int", -1>>)>>,
     Int |-> Pair("int64", FALSE), IntPtr |-> Pair("int64", TRUE), Small |-> Pair("int8", FALSE),
     Uint |-> Pair("uint64", FALSE), SmallUint |-> Pair("uint8", FALSE),
     Float |-> Pair("float64", FALSE), Bool |-> Pair("bool", FALSE), Text |-> Pair("string", FALSE),
     Time |-> Pair("time", FALSE), Date |-> Pair("date", FALSE), Clock |-> Pair("clock", FALSE),
     Bytes |-> Pair("bytes", FALSE), Raw |-> Pair("raw", FALSE), Money |-> Pair("currency", FALSE),
     Zone |-> Pair("location", FALSE), Uid |-> Pair("uuid", FALSE), Lists |-> Pair("strings", FALSE)])

\* The names that other cases of a letter are tried on, and the rest.
MCLower ==
    [Note |-> "note", ID |-> "id"]
    @@ [n \in {"A", "At", "B", "Base", "C", "Count", "D", "Deep", "Doc", "E", "F", "G", "H", "Inner",
               "K", "Kind", "L", "Last", "M", "More", "N", "Name", "Next", "Own", "P", "Q", "R", "Rest",
               "S", "Skip", "Sub", "T", "Title", "U", "V", "W", "Word", "X", "Y", "Z", "in", "note", "own"} |-> n]

Num(n) == <<"int", n>>

MCBits == [int8 |-> 2, uint8 |-> 2, int32 |-> 4, int |-> 6, uint |-> 6, int64 |-> 6, uint64 |-> 6]
MCKey == <<"ID">>

\* A processor that makes the least number of what has no 64 bits, as amd64
\* does; some four digits are base64, and some sixteen are taken for a UUID.
MCBeyond == [below |-> -32, above |-> -32, unsigned |-> 32]
MCMistaken == [bytes |-> {Num(15), <<"exp", 24>>}, uuid |-> {Num(31)}]

-----------------------------------------------------------------------------
(* Values, and records that differ from a plain one in one field or two.    *)

Str(s) == <<"string", Chars(s)>>
Struct(s) == <<"struct", s>>
Tick(n) == <<"time", n>>

Some ==
    [int8 |-> {Num(-2), Num(1)}, int |-> {Num(7), Num(-9)}, uint8 |-> {Num(3)},
     int64 |-> {Num(-32), Num(-1), Num(2), Num(15), Num(31)}, uint64 |-> {Num(1), Num(31), Num(63)},
     float64 |-> {<<"float", -3>>, <<"float", 4>>, <<"float", 24>>, <<"float", 160>>}, bool |-> {<<"bool", TRUE>>},
     string |-> {Str(<<"a">>), Str(<<"a", " ">>), Str(<<"b", "a", "a">>)},
     time |-> {Tick(50), Tick(52), Tick(53)}, date |-> {<<"date", 2>>},
     clock |-> {<<"clock", 1>>, <<"clock", 2>>, <<"clock", 26>>},
     bytes |-> {<<"bytes", <<>>>>, <<"bytes", <<1>>>>},
     raw |-> {<<"raw", <<"full">>>>, <<"raw", Nothing>>, <<"raw", JsonNull>>},
     strings |-> {<<"strings", "some">>}, map |-> {<<"map", "empty">>, <<"map", "some">>},
     currency |-> {<<"currency", "MYR">>}, language |-> {<<"language", "en">>},
     location |-> {<<"location", "UTC">>, <<"location", "KL">>}, uuid |-> {<<"uuid", 1>>},
     point |-> {<<"point", 1>>}, line |-> {<<"line", 1>>}, polygon |-> {<<"polygon", 1>>}]

\* The values that other records have where one deviates.
Plain(type) ==
    CASE type.ptr -> Nil
      [] ~type.ptr /\ type.of \in {"time", "date", "point", "line"} -> CHOOSE v \in Some[type.of] : TRUE
      [] OTHER -> Zero(type)

Values(type) ==
    IF type.of \notin DOMAIN Some THEN {Zero(type)}
    ELSE Some[type.of] \cup {Zero(T(type.of))} \cup IF type.ptr THEN {Nil} ELSE {}

Record(fields, id) ==
    Struct([i \in DOMAIN fields |-> IF i = 1 THEN Num(id) ELSE Plain(fields[i].type)])
Changed(fields, record) ==
    UNION {{[record EXCEPT ![2][i] = v] : v \in Values(fields[i].type)} : i \in 2..Len(fields)}

Call(batch, mode, omits) == [batch |-> batch, mode |-> mode, omits |-> omits]
One(records) == {Call(<<r>>, "insert", {}) : r \in records}
Two(first, second) == {Call(<<r, s>>, "insert", {}) : r \in first, s \in second}
Without1(records, names) == {Call(<<r>>, "insert", {<<n>>}) : r \in records, n \in names}

\* One record in every way, then a second one with others or fields left out.
Each1(fields, names) ==
    One(Changed(fields, Record(fields, 1)))
    \cup Without1({Record(fields, 2)}, names) \cup Two({Record(fields, 2)}, {Record(fields, 3)})

Omitted == [Numbers |-> {"A", "P", "F", "ID", "G"}, Texts |-> {"S", "E", "L", "D", "Q"},
            Moments |-> {"T", "D", "C", "V", "Z"}, Blobs |-> {"B", "R", "M"},
            Names |-> {"C", "L", "Z", "U"}, Places |-> {"P", "Q"}]
Each == [struct \in DOMAIN Omitted |-> Each1(Structs[struct], Omitted[struct])]

CountedRecord(id) == Struct(<<Num(id), Num(1)>>)

Column2(values) == One({Struct(<<Num(1), v>>) : v \in values})

Bases == {Nil, Struct(<<Str(<<"a">>), Num(1), Str(<<>>)>>), Struct(<<Str(<<>>), Num(0), Str(<<"b">>)>>)}
EmbeddedRecords(id) ==
    {Struct(<<Num(id), base, Num(0), Num(0), Struct(<<Num(x), Struct(<<Num(1)>>)>>), Str(<<"a">>), Num(-1), Nil>>) :
        base \in Bases, x \in {0, 1}}

Docs == {Struct(<<title, Struct(<<word>>), Num(2)>>) :
            title \in {Nil, Str(<<>>), Str(<<"a">>)}, word \in {Str(<<>>), Str(<<"b">>)}}
ComputedRecords(id) ==
    {Struct(<<Num(id), doc, Str(<<>>), more, Num(0), Num(1)>>) :
        doc \in Docs,
        more \in {Nil, Struct(<<Num(1), Str(<<"a">>)>>), Struct(<<Num(0), Str(<<"a", "a", "a", "a", "a", "a">>)>>)}}

UpsertRecord(id, n) == Struct(<<Num(id), Num(n), Tick(50), Num(0), Num(n)>>)
Left == {{}, {<<"N">>}, {<<"At">>}, {<<"M">>, <<"N">>}, {<<"Last">>}, {<<"N">>, <<"At">>, <<"M">>, <<"Last">>}}

Level(kind, id, name) == [kind |-> kind, id |-> id, name |-> Chars(name)]
KeyLevels == {<<Level("K", 3, <<>>)>>, <<Level("K", 0, <<"x">>)>>, <<Level("K", 0, <<>>)>>,
              <<Level("K", 1, <<>>), Level("C", 2, <<>>)>>, <<Level("K", 0, <<>>), Level("C", 0, <<"x">>)>>}
TextValues == {Str(<<"a">>), <<"string", <<"date", 2>>>>, <<"string", <<"stamp", 52>>>>}
              \cup {<<"string", <<"keypath", k>>>> : k \in KeyLevels}

MCCalls == Each @@
    [Counted |-> One({CountedRecord(n) : n \in {0, 2, 6}})
                 \cup Two({CountedRecord(n) : n \in {0, 5}}, {CountedRecord(n) : n \in {0, 6}}),
     Embedded |-> One(EmbeddedRecords(1)) \cup Two(EmbeddedRecords(2), EmbeddedRecords(3))
                  \cup Without1(EmbeddedRecords(4), {"Name", "Note"}),
     Computed |-> One(ComputedRecords(1)) \cup Without1(ComputedRecords(2), {"More", "Doc", "Last"}),
     Ends |-> One({Struct(<<Num(1), Struct(<<Num(1), Str(<<"a">>)>>), Num(0)>>)}),
     Upserts |-> {Call(<<UpsertRecord(1, 1)>>, m, l) : m \in {"insert", "ignore", "duplicate"}, l \in Left}
                 \cup {Call(<<UpsertRecord(1, 0)>>, "duplicate", l) : l \in Left}
                 \cup {Call(<<UpsertRecord(1, 1), UpsertRecord(2, -2)>>, m, l) : m \in {"ignore", "duplicate"}, l \in Left},
     Keyed |-> One({Struct(<<Num(1), <<"key", k>>>>) : k \in KeyLevels}),
     Anything |-> {}, Negative |-> {},
     Int |-> Column2(Values(T("int64"))), IntPtr |-> Column2(Values(P("int64"))),
     Uint |-> Column2(Values(T("uint64"))), Float |-> Column2(Values(T("float64"))),
     Bool |-> Column2(Values(T("bool"))), Text |-> Column2(TextValues),
     Time |-> Column2(Some["time"]), Date |-> Column2(Some["date"])]

Numeric == {"Int", "IntPtr", "Small", "Uint", "SmallUint", "Float", "Bool", "Text", "Time", "Bytes", "Raw", "Money",
            "Keyed", "Zone", "Uid", "Lists"}
Writers == {"Numbers", "Counted", "Texts", "Moments", "Blobs", "Names", "Places", "Embedded", "Computed",
            "Ends", "Upserts", "Keyed", "Anything", "Negative", "Int", "IntPtr", "Uint", "Float", "Bool",
            "Text", "Time", "Date"}
Readers(w) ==
    CASE w \in {"Int", "IntPtr", "Uint", "Float", "Bool"} -> Numeric
      [] w \in {"Time", "Date"} -> {"Time", "Date", "Clock", "Text", "Int", "Float"}
      [] w = "Text" -> {"Text", "Keyed", "Time", "Date", "Int", "Bool"}
      [] OTHER -> {w}
MCPrograms == UNION {{[writer |-> w, reader |-> r] : r \in Readers(w)} : w \in Writers}
=============================================================================
