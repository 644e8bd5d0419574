------------------------------- MODULE Rows -------------------------------
(* A record with a key column and a JSON column as it goes between a        *)
(* program and its table: written (sql/codec encoders, types.Key, jsonb),   *)
(* stored by the database, read into a destination of the program's type,   *)
(* and written again. The destination is a struct, a map[string]interface{} *)
(* or a []interface{}.                                                      *)

EXTENDS JsonText

CONSTANTS
    Records,     \* the records the program starts from: [key, doc, into]
    FieldTypes,  \* the fields of the struct: name -> "any", "int" or "key"
    MaxWrites    \* bound: times a record is written

VARIABLES
    doc,         \* the document the program holds
    into,        \* "struct", "map" or "slice": the type it holds it in
    docWritten,  \* history: the document it wrote last
    docColumn,   \* the text in the row
    leaves,      \* what the callback of ReadFlattenObject was given
    phase,       \* "held", "stored", "read", "walked" or "refused"
    writes

docVars == <<doc, docWritten, docColumn>>
vars == <<keyVars, docVars, into, leaves, phase, writes>>

ASSUME RecordsAssumption == \A rec \in Records : IsKey(rec.key)

Init ==
    \E rec \in Records :
       /\ HoldsKey(rec.key)
       /\ doc = rec.doc
       /\ into = rec.into
       /\ docWritten = doc
       /\ docColumn = <<>>
       /\ leaves = {}
       /\ phase = "held"
       /\ writes = 0

-----------------------------------------------------------------------------
(* Decoding of a column, sql/codec and then jsonb.UnmarshalValue.           *)

Zero(type) == CASE type = "int" -> <<"int", 0>>
                [] type = "key" -> <<"key", ZeroKey>>
                [] OTHER -> Null

\* Key.UnmarshalJSONB: the text without its first and last character.
UnmarshalJSONB(b) == UnmarshalKey(SubSeq(b, 2, Len(b) - 1))

DecodeKey(r, k) == IF k = Failed THEN Bad(r) ELSE Done(r, <<"key", k>>)
DecodeAs(type, b) ==
    CASE IsNull(NewReader(b)) -> Done(NewReader(b), Zero(type))
      [] type = "any" -> ReadValue(NewReader(b))
      [] type = "int" -> On(ReadNumber(NewReader(b)), LAMBDA d : Done(d.r, <<"int", d.v>>))
      [] type = "key" -> DecodeKey(NewReader(b), UnmarshalJSONB(b))

\* LookUpFieldByName: members that the struct has no field for are left out.
Known(members) == SelectSeq(members, LAMBDA m : m.name \in DOMAIN FieldTypes)

DecodeField(m) == On(DecodeAs(FieldTypes[m.name], m.b), LAMBDA f : Done(f.r, <<m.name, f.v>>))
ZeroStruct == [f \in DOMAIN FieldTypes |-> Zero(FieldTypes[f])]
DecodeStruct(r) ==
    On(Each(On(ReadObject(r), LAMBDA all : Done(all.r, Known(all.v))), DecodeField),
       LAMBDA all : Done(all.r, <<"obj", MapOf(all.v) @@ ZeroStruct>>))

\* strconv.Quote, which DecodeMap reads each key through once more. Its
\* escape of a character that cannot be printed is unknown to ReadString.
QuoteChar(c) ==
    CASE c = "nl" -> <<Backslash, "n">>
      [] c = "ff" -> <<Backslash, "f">>
      [] c = "del" -> <<Backslash, "x">>
      [] c \in {Quote, Backslash} -> <<Backslash, c>>
      [] OTHER -> <<c>>
StrconvQuote(s) ==
    <<Quote>> \o FlattenSeq([i \in DOMAIN s |-> QuoteChar(s[i])]) \o <<Quote>>

DecodeMapKey(name) == ReadString(NewReader(StrconvQuote(name)))

DecodeEntry(m) ==
    On(DecodeMapKey(m.name), LAMBDA name : ReadMember([m EXCEPT !.name = name.v]))
DecodeMap(r) ==
    IF IsNull(r) THEN Done(NextToken(r).r, NilMap)
    ELSE On(Each(ReadObject(r), DecodeEntry), LAMBDA all : Done(all.r, <<"obj", MapOf(all.v)>>))

NullSlice(r) == Done(NextToken(r).r, NilSlice)

DecodeSlice(r) ==
    IF IsNull(r) THEN NullSlice(r)
    ELSE On(Each(ReadArray(r), LAMBDA b : ReadValue(NewReader(b))),
            LAMBDA all : Done(all.r, <<"arr", all.v>>))

Decode(text) ==
    CASE into = "struct" -> DecodeStruct(NewReader(text))
      [] into = "map" -> DecodeMap(NewReader(text))
      [] into = "slice" -> DecodeSlice(NewReader(text))

\* Whatever follows the document is an error.
UnmarshalValue(text) ==
    On(Decode(text), LAMBDA d : IF NextToken(d.r).v = Nothing THEN d ELSE Bad(d.r)).v

-----------------------------------------------------------------------------
(* The steps of the program.                                                *)

Write ==
    /\ phase \in {"held", "read"}
    /\ writes < MaxWrites
    /\ doc # Failed /\ key # Failed
    /\ \E text \in {Stored(Marshal(doc))} :
          IF text = Failed
          THEN /\ phase' = "refused"
               /\ UNCHANGED <<keyVars, docWritten, docColumn>>
          ELSE /\ phase' = "stored"
               /\ WriteKey
               /\ docWritten' = doc
               /\ docColumn' = text
    /\ writes' = writes + 1
    /\ UNCHANGED <<doc, into, leaves>>

Read ==
    /\ phase \in {"stored", "walked"}
    /\ ReadKey
    /\ doc' = UnmarshalValue(docColumn)
    /\ phase' = "read"
    /\ UNCHANGED <<into, docWritten, docColumn, leaves, writes>>

LeavesOf(walk) ==
    IF ~walk.ok THEN {Failed}
    ELSE {<<walk.v[i][1], ReadValue(NewReader(walk.v[i][2])).v>> : i \in DOMAIN walk.v}
\* The program walks the text of an object itself.
Walk ==
    /\ phase = "stored"
    /\ Head(docColumn) = "{"
    /\ leaves' = LeavesOf(ReadFlattenObject(NewReader(docColumn)))
    /\ phase' = "walked"
    /\ UNCHANGED <<keyVars, docVars, into, writes>>

Next == Write \/ Read \/ Walk

Spec == Init /\ [][Next]_vars

-----------------------------------------------------------------------------
(* What a document should be read back as.                                  *)

\* Into an interface{}: every number is a float and a negative float was
\* written as 0; an empty array or object is a nil one; a key is its path.
RECURSIVE AsRead(_)
AsRead(v) ==
    CASE v[1] = "int" -> <<"float", v[2]>>
      [] v[1] = "float" -> <<"float", IF v[2] < 0 THEN 0 ELSE v[2]>>
      [] v[1] \in {"nilarr", "nilobj"} -> Null
      [] v[1] = "key" -> IF Incomplete(v[2]) THEN Null ELSE <<"str", MarshalKey(v[2])>>
      [] v[1] = "arr" ->
           IF v[2] = <<>> THEN NilSlice
           ELSE <<"arr", [i \in DOMAIN v[2] |-> AsRead(v[2][i])]>>
      [] v[1] = "obj" ->
           IF v[2] = <<>> THEN NilMap
           ELSE <<"obj", [n \in DOMAIN v[2] |-> AsRead(v[2][n])]>>
      [] OTHER -> v

FieldAsRead(f, members) ==
    IF f \notin DOMAIN members THEN Zero(FieldTypes[f])
    ELSE CASE FieldTypes[f] = "any" -> AsRead(members[f])
           [] FieldTypes[f] = "int" -> members[f]
           [] FieldTypes[f] = "key" -> <<"key", KeyAsRead(members[f][2])>>

DocAsRead(d) ==
    CASE into = "struct" -> <<"obj", [f \in DOMAIN FieldTypes |-> FieldAsRead(f, d[2])]>>
      [] d \in {NilMap, NilSlice} -> d
      [] into = "map" -> <<"obj", [n \in DOMAIN d[2] |-> AsRead(d[2][n])]>>
      [] into = "slice" -> <<"arr", [i \in DOMAIN d[2] |-> AsRead(d[2][i])]>>

\* The strings and names of a value, and those inside its arrays.
RECURSIVE Strings(_)
Strings(v) ==
    CASE v[1] = "str" -> {v[2]}
      [] v[1] = "arr" -> UNION {Strings(v[2][i]) : i \in DOMAIN v[2]}
      [] v[1] = "obj" -> DOMAIN v[2] \union UNION {Strings(v[2][n]) : n \in DOMAIN v[2]}
      [] OTHER -> {}
RECURSIVE InArrays(_)
InArrays(v) ==
    CASE v[1] = "arr" -> Strings(v)
      [] v[1] = "obj" -> UNION {InArrays(v[2][n]) : n \in DOMAIN v[2]}
      [] OTHER -> {}

Parts(d) == IF d[1] \in {"arr", "obj"} THEN {d[2][x] : x \in DOMAIN d[2]} ELSE {}

\* No bracket in a string of an array that the reader has to skip.
Skippable(d) ==
    \A part \in Parts(d) : \A s \in InArrays(part) : {"[", "]"} \cap ToSet(s) = {}

\* DecodeMap can quote the names of the map.
Quotable(d) ==
    into = "map" /\ d # NilMap => \A n \in DOMAIN d[2] : "del" \notin ToSet(n)

\* The members of an object that are no objects, under the names on the way.
RECURSIVE Leaves(_, _)
Leaves(v, path) ==
    IF v[1] = "obj"
    THEN UNION {Leaves(v[2][n], Append(path, n)) : n \in DOMAIN v[2]}
    ELSE {<<path, AsRead(v)>>}

-----------------------------------------------------------------------------
(* Properties.                                                              *)

\* A document that the program reads is the one it wrote, but for the losses
\* named in DocAsRead: whatever it skipped on the way, whatever the database
\* put between the tokens, and whichever fields its struct does not have.
DocReadBack ==
    phase = "read" /\ Skippable(docWritten) /\ Quotable(docWritten)
      => doc = DocAsRead(docWritten)

\* The same of any document, strings with brackets included: jsonb/reader.go:96
\* says of a quote in an array "If inside string, skip it".
StringsSkipped ==
    phase = "read" /\ Quotable(docWritten) => doc = DocAsRead(docWritten)

\* ReadFlattenObject calls back once for each leaf, under its own path.
LeavesWalked ==
    phase = "walked" /\ Skippable(docWritten) => leaves = Leaves(docWritten, <<>>)

\* The database refuses a document only for a control character that
\* escapeCharMap does not have.
RefusedOnlyControl ==
    phase = "refused" => \E s \in Strings(doc) : "ff" \in ToSet(s)

\* Reading and writing back settles: what the second write changed (a struct's
\* unknown members, negative floats, empty containers, an ancestor's
\* namespace) is all that is ever lost, and every later write leaves the row
\* as it is.
Settles == [][writes >= 2 => UNCHANGED <<keyColumn, docColumn>>]_vars
=============================================================================
