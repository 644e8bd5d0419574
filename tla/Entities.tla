------------------------------ MODULE Entities ------------------------------
(* Records of a struct type on their way to a table and back: the table is  *)
(* made by Migrate (CreateTable), records are inserted (mysql InsertInto)   *)
(* in batches, in the three modes and with fields left out, and read by     *)
(* Find and Decode, by the same program or by another release whose struct  *)
(* has other types for the columns.                                         *)

EXTENDS Values

CONSTANTS
    Programs,     \* [writer, reader]: the struct that writes, the one that reads
    Calls,        \* struct -> the calls of Insert: [batch, mode, omits]
    Key,          \* the path of the primary key
    MaxInserts    \* bound: calls of Insert

\* A mode is "insert", "ignore" or "duplicate"; omits are the paths of fields.
ASSUME CallsAssumption ==
    \A p \in Programs : \A c \in Calls[p.writer] : c.batch \in Seq(Range(c.batch))

VARIABLES
    writer, reader,
    cache,      \* the properties that the mapper keeps of the writer's type
    table,      \* the columns; no column before Migrate
    rows,       \* in the order of insertion: column -> stored value
    meant,      \* history: for each row, property -> what was to be stored
    call,       \* history: the last Insert and what became of it
    got,        \* the rows as the reader has them
    inserts

vars == <<writer, reader, cache, table, rows, meant, call, got, inserts>>

NoCall == [batch |-> <<>>, mode |-> "insert", omits |-> {}, answer |-> "nil", protocol |-> "none"]

Init ==
    /\ \E p \in Programs : writer = p.writer /\ reader = p.reader
    /\ cache = GetCodec[writer].properties
    /\ table = <<>> /\ rows = <<>> /\ meant = <<>> /\ got = <<>>
    /\ call = NoCall
    /\ inserts = 0

Type(struct) == [of |-> struct, ptr |-> FALSE]
At(struct, record, f) == ValueAt([type |-> Type(struct), v |-> record], f.idx)

Migrate ==
    /\ table = <<>> /\ call.answer = "nil"
    /\ \E columns \in {Created(CreateColumns(writer), Key)} :
          IF columns = Refused
          THEN call' = [call EXCEPT !.answer = "refused"] /\ UNCHANGED table
          ELSE table' = columns /\ UNCHANGED call
    /\ UNCHANGED <<writer, reader, cache, rows, meant, got, inserts>>

-----------------------------------------------------------------------------
(* InsertInto                                                               *)

\* The loop over the fields: a field that is left out is taken out of the
\* slice, but in duplicate mode, where it only is not updated. A comma
\* follows each name that is not the last of what the slice is by then: those
\* that were kept, this one, and all that are still to come.
IsOut(f, left) == f.path \in left \/ Has(f, "generated_column")
List(all, left) ==
    LET list[n \in 0..Len(all)] ==
          IF n = 0 THEN [fields |-> <<>>, text |-> <<>>]
          ELSE IF IsOut(all[n], left) THEN list[n - 1]
          ELSE [fields |-> Append(list[n - 1].fields, all[n]),
                text |-> list[n - 1].text \o IF n < Len(all) THEN <<"name", ",">> ELSE <<"name">>]
    IN  list[Len(all)]

Listed(mode, omits) == List(cache, IF mode = "duplicate" THEN {} ELSE omits)

\* Properties() is a copy: what the caller removes from it stays here.
\* Mutant: the caller gets the slice of the cache, and shifts its elements.
AfterInsert_Shared(fields) == fields \o SubSeq(cache, Len(fields) + 1, Len(cache))
AfterInsert(fields) == cache

IsZero(x) == x.v = Nil \/ x.v = Zero(x.type)

\* Mutant: any column is left to the database when its first value is zero.
FindEncoder_AnyZero(f, x) == IF IsZero(x) THEN "Nil" ELSE LookupEncoder(x.type)
FindEncoder(f, x) ==
    IF Has(f, "auto_increment") /\ IsZero(x) THEN "Nil" ELSE LookupEncoder(x.type)

EncodeField(enc, f, x) ==
    IF x.type # f.type /\ enc # "Nil" THEN EncodeEmbeddedNil(enc) ELSE Encode(enc, f, x)

\* The arguments of each record, under the encoders of the first.
Arguments(fields, batch) ==
    LET enc == [j \in DOMAIN fields |-> FindEncoder(fields[j], At(writer, batch[1], fields[j]))]
    IN  [i \in DOMAIN batch |->
           [j \in DOMAIN fields |-> EncodeField(enc[j], fields[j], At(writer, batch[i], fields[j]))]]

\* ON DUPLICATE KEY UPDATE: not the key, however it is one, and nothing that
\* was left out.
\* Mutant: what was left out is updated as well.
Updates_Omitted(fields, omits) ==
    {fields[j].path : j \in {k \in DOMAIN fields :
        fields[k].path # Key /\ ~Has(fields[k], "primary_key") /\ ~Has(fields[k], "auto_increment")}}
Updates(fields, omits) ==
    {fields[j].path : j \in {k \in DOMAIN fields :
        /\ fields[k].path # Key
        /\ ~Has(fields[k], "primary_key")
        /\ ~Has(fields[k], "auto_increment")
        /\ fields[k].path \notin omits}}

-----------------------------------------------------------------------------
(* The server executes an INSERT, all of it or nothing. IGNORE skips a      *)
(* duplicate; what else it would make of an error is left out.              *)

Names == {table[i].name : i \in DOMAIN table}
ColumnOf(name) == table[CHOOSE i \in DOMAIN table : table[i].name = name]

NextKey(stored) == 1 + FoldLeft(LAMBDA m, r : IF r[Key][2] > m THEN r[Key][2] ELSE m, 0, stored)

\* NULL and 0 in an AUTO_INCREMENT column ask for the next number.
ColumnValue(col, args, stored) ==
    IF col.auto /\ (col.name \notin DOMAIN args \/ args[col.name] \in {Null, <<"int", 0>>})
    THEN Stored(col, <<"int", NextKey(stored)>>)
    ELSE IF col.name \in DOMAIN args THEN Stored(col, args[col.name])
    ELSE Default(col)

WithGenerated(row) ==
    [name \in Names |-> IF ColumnOf(name).from = <<>> THEN row[name]
                        ELSE GeneratedValue(ColumnOf(name), row)]

Completed(plain) == IF Refused \in Range(plain) THEN plain ELSE WithGenerated(plain)
NewRow(args, stored) ==
    Completed([name \in {n \in Names : ColumnOf(n).from = <<>>} |->
                 ColumnValue(ColumnOf(name), args, stored)])

\* Columns with ON UPDATE follow a change that does not give them a value.
UpdatedRow(old, new, updates) ==
    LET row == [name \in Names |-> IF name \in updates THEN new[name] ELSE old[name]]
    IN  WithGenerated([name \in Names |->
            IF ColumnOf(name).onUpdate /\ name \notin updates /\ row # old
            THEN StoredNow(ColumnOf(name)) ELSE row[name]])

WithKey(stored, key) == SelectInSeq(stored, LAMBDA r : r[Key] = key)

ReplaceRow(stored, at, new) ==
    IF Refused \in Range(new) THEN Refused ELSE [stored EXCEPT ![at] = new]
PutRow(stored, new, mode, updates) ==
    LET same == WithKey(stored, new[Key])
    IN  IF Refused \in Range(new) THEN Refused
        ELSE IF same = 0 THEN Append(stored, new)
        ELSE CASE mode = "ignore" -> stored
               [] mode = "duplicate" -> ReplaceRow(stored, same, UpdatedRow(stored[same], new, updates))
               [] OTHER -> Refused
AddRow(stored, args, mode, updates) == PutRow(stored, NewRow(args, stored), mode, updates)

ByPath(fields, args) ==
    [path \in {fields[j].path : j \in DOMAIN fields} |->
       args[CHOOSE j \in DOMAIN fields : fields[j].path = path]]
Executed(fields, args, mode, updates) ==
    LET stored[n \in 0..Len(args)] ==
          IF n = 0 THEN rows
          ELSE IF stored[n - 1] = Refused THEN Refused
          ELSE AddRow(stored[n - 1], ByPath(fields, args[n]), mode, updates)
    IN  stored[Len(args)]

Malformed(list, mode, updates) ==
    \/ list.text # <<>> /\ Last(list.text) = ","
    \/ mode = "duplicate" /\ updates = {}

-----------------------------------------------------------------------------
(* What a call of Insert is meant to store, record by record.               *)

LeftOut == <<"left out">>
EmbeddedNil == <<"embedded nil">>
Mixed == Refused

\* Every field of the struct, and of the structs embedded in it, that is not
\* part of another one's column, unless a later one has its name in some case.
Kept(all) ==
    {f \in all : /\ ~f.embed /\ ~f.nested
                 /\ ~\E g \in all : Less(f, g) /\ LowerPath(g.path) = <<Lower[f.tag]>>}
Columned == [struct \in DOMAIN Structs |-> Kept(ToSet(FieldsOf[struct]))]
Written == [struct \in DOMAIN Structs |-> {f \in Columned[struct] : ~Has(f, "generated_column")}]
Properties == Written[writer]
KeyField(f) == f.path = Key \/ Has(f, "primary_key") \/ Has(f, "auto_increment")

Intended(stored, record, f, omits) ==
    LET x == At(writer, record, f)
    IN  IF Has(f, "auto_increment") /\ (f.path \in omits \/ x.v = Zero(x.type))
        THEN <<"int", NextKey(stored)>>
        ELSE IF f.path \in omits THEN LeftOut
        ELSE IF x.type # f.type THEN EmbeddedNil
        ELSE x.v

PutMeant(stored, new, mode, left) ==
    LET same == WithKey(stored, new[Key])
    IN  IF same = 0 THEN Append(stored, new)
        ELSE IF mode # "duplicate" THEN stored
        ELSE [stored EXCEPT ![same] =
                [path \in DOMAIN new |-> IF path \in left THEN @[path] ELSE new[path]]]

AddMeant(stored, record, mode, omits) ==
    PutMeant(stored,
             [path \in {f.path : f \in Properties} |->
                Intended(stored, record, CHOOSE f \in Properties : f.path = path,
                         IF mode = "duplicate" THEN {} ELSE omits)],
             mode, omits \cup {f.path : f \in {p \in Properties : KeyField(p)}})

\* The records have the first one's nil embedded pointers, and keys of their
\* own only if it has one.
Agree(batch) ==
    \A i \in DOMAIN batch, f \in Properties :
       LET first == At(writer, batch[1], f)
           x == At(writer, batch[i], f)
       IN  /\ (x.type = f.type) = (first.type = f.type)
           /\ Has(f, "auto_increment") /\ IsZero(first) => IsZero(x)

MeantBy(c) ==
    IF meant = Mixed \/ ~Agree(c.batch) THEN Mixed
    ELSE FoldLeft(LAMBDA m, r : AddMeant(m, r, c.mode, c.omits), meant, c.batch)

-----------------------------------------------------------------------------

Panics(args) == \E i \in DOMAIN args : Refused \in Range(args[i])

\* An INSERT IGNORE of values that do not fit is left out: the server would
\* change them.
Insert ==
    /\ table # <<>> /\ call.protocol = "none" /\ inserts < MaxInserts
    /\ \E c \in Calls[writer] :
       \E list \in {Listed(c.mode, c.omits)} :
       \E updates \in {Updates(list.fields, c.omits)} :
       \E args \in {Arguments(list.fields, c.batch)} :
       \E sent \in {~Panics(args) /\ ~Malformed(list, c.mode, updates)} :
       \E after \in {IF sent THEN Executed(list.fields, args, c.mode, updates) ELSE Refused} :
          /\ sent /\ c.mode = "ignore" => after # Refused
          /\ rows' = IF after = Refused THEN rows ELSE after
          /\ meant' = IF after = Refused THEN meant ELSE MeantBy(c)
          /\ call' = [batch |-> c.batch, mode |-> c.mode, omits |-> c.omits, protocol |-> "none",
                      answer |-> IF after = Refused THEN "refused" ELSE "nil"]
          /\ cache' = AfterInsert(list.fields)
    /\ inserts' = inserts + 1
    /\ UNCHANGED <<writer, reader, table, got>>

-----------------------------------------------------------------------------
(* Find and Result.Decode: each column into the field of its name, into a   *)
(* fresh record. The first error ends it.                                   *)

FieldOf(col) == GetCodec[reader].names[col.name]
SharedAt == {n \in DOMAIN table : table[n].name \in DOMAIN GetCodec[reader].names}

\* What the decoders make of the columns of a row.
Reads(row, protocol) ==
    [n \in SharedAt |->
       Decode(FieldOf(table[n]).type, Given(table[n], row[table[n].name], protocol))]

SetField(record, f, v) ==
    IF record = Refused \/ v = Refused THEN Refused
    ELSE WithValue([type |-> Type(reader), v |-> record], f.idx, v)

DecodedInto(values) ==
    LET record[n \in 0..Len(table)] ==
          IF n = 0 THEN Zero(Type(reader))
          ELSE IF n \notin DOMAIN values THEN record[n - 1]
          ELSE SetField(record[n - 1], FieldOf(table[n]), values[n])
    IN  record[Len(table)]
Decoded(row, protocol) == DecodedInto(Reads(row, protocol))

\* Without arguments a query goes by the text protocol.
Find ==
    /\ table # <<>> /\ call.protocol = "none"
    /\ \E protocol \in {"text", "binary"} :
          /\ got' = [i \in DOMAIN rows |-> Decoded(rows[i], protocol)]
          /\ call' = [call EXCEPT !.protocol = protocol]
    /\ UNCHANGED <<writer, reader, cache, table, rows, meant, inserts>>

Next == Migrate \/ Insert \/ Find

Spec == Init /\ [][Next]_vars

-----------------------------------------------------------------------------
(* What a field should be read back as: itself, but for what the codecs and *)
(* the column types do not keep.                                            *)

NullAsRead(f) == IF ~f.type.ptr /\ f.type.of = "bytes" THEN <<"bytes", <<>>>> ELSE Zero(f.type)

ValueAsRead(f, v) ==
    LET of == f.type.of
    IN  CASE of = "string" /\ Has(f, "enum") /\ v[2] = Chars(<<>>) -> <<of, Head(f.opts["enum"])>>
          [] of = "string" /\ Has(f, "char") -> <<of, Trimmed(v[2])>>
          [] of \in {"time", "clock"} -> <<of, Rounded(v[2], Precision(f))>>
          [] of = "bytes" /\ v = Nil -> <<of, <<>>>>
          [] of = "raw" /\ v = Nil -> <<of, JsonNull>>
          [] of = "location" /\ v[2] = "" -> <<of, "UTC">>
          [] of = "key" -> <<of, EncodeDatastoreKey(v[2])[2]>>
          [] of = "point" /\ v[2] = 0 -> Nil
          [] OTHER -> v

DefaultAsRead(f) ==
    CASE f.null -> NullAsRead(f)
      [] ~f.null /\ f.type.of = "time" -> <<"time", Rounded(Now, Precision(f))>>
      [] ~f.null /\ Has(f, "enum") -> <<"string", Head(f.opts["enum"])>>
      [] ~f.null /\ Has(f, "default") ->
           IF f.type.of = "string" THEN <<"string", f.opts["default"]>> ELSE f.opts["default"]
      [] OTHER -> ValueAsRead(f, Zero(f.type))

AsRead(f, m) ==
    CASE m = LeftOut -> DefaultAsRead(f)
      [] m = EmbeddedNil -> NullAsRead(f)
      [] m # LeftOut /\ m # EmbeddedNil /\ f.type.ptr /\ m = Nil -> Nil
      [] OTHER -> ValueAsRead(f, m)

\* Stored, and refused by the decoder: midnight after rounding, and the empty
\* text that is the default of a currency.
Unreadable(f, m) ==
    \/ f.type.of = "clock" /\ AsRead(f, m) = <<"clock", Day>>
    \/ f.type.of = "currency" /\ m = LeftOut /\ ~f.null

\* The columns computed from the documents: the property, and the field in it.
FromDocuments ==
    [struct \in DOMAIN Structs |->
        {s \in Written[struct] \X ToSet(FieldsOf[struct]) :
            IsStrictPrefix(s[1].idx, s[2].idx) /\ Generated(s[2])}]
Computed == FromDocuments[writer]
IndexIn(p, c) == SubSeq(c.idx, Len(p.idx) + 1, Len(c.idx))
Source(p, c, v) == ValueAt([type |-> p.type, v |-> v], IndexIn(p, c)).v

\* What the column of c gives the field f. A null in the document is the text
\* null; no document is NULL.
ComputedAsRead(p, c, f, m) ==
    IF m \in {Nil, LeftOut, EmbeddedNil} THEN NullAsRead(f)
    ELSE IF Source(p, c, m) = Nil THEN <<"string", TheTextNull>>
    ELSE Source(p, c, m)

GeneratedAsRead(f, m) ==
    LET From(sources) ==
            IF sources = {} THEN NullAsRead(f)
            ELSE LET s == CHOOSE s \in sources : TRUE
                 IN  ComputedAsRead(s[1], s[2], f, m[s[1].path])
    IN  From({s \in Computed : GeneratedColumn(s[1], s[2]).name = f.path})

\* A computed column that has no name of its own leads back into the document:
\* a document that was nil is there again.
DocumentAsRead(f, m) ==
    FoldLeft(LAMBDA v, c :
               IF <<f, c>> \in Computed /\ GeneratedColumn(f, c).name = c.path
               THEN WithValue([type |-> f.type, v |-> v], IndexIn(f, c), ComputedAsRead(f, c, c, m))
               ELSE v,
             AsRead(f, m), FieldsOf[writer])

-----------------------------------------------------------------------------
(* Why the server may refuse an INSERT.                                     *)

\* A value that its column does not take.
Unfit(f, v) ==
    LET of == f.type.of
        col == GetColumn(f)
    IN  CASE v = Nil -> of \in {"line", "polygon"} /\ ~f.type.ptr
          [] v # Nil /\ of = "string" ->
               IF Has(f, "enum") THEN v[2] \notin ToSet(f.opts["enum"]) \cup {Chars(<<>>)}
               ELSE TextLength(IF Has(f, "char") THEN Trimmed(v[2]) ELSE v[2]) > col.size
          [] v # Nil /\ of \in {"int", "uint"} -> v[2] \notin Low(col)..High(col)
          [] v # Nil /\ of = "float64" -> Has(f, "unsigned") /\ v[2] < 0
          [] v # Nil /\ of \in {"time", "date", "point", "line"} -> v[2] = 0
          [] v # Nil /\ of = "raw" -> v[2] = Nothing
          [] v # Nil /\ of = "key" -> Len(v[2]) > 1 \/ v[2][1].name # Chars(<<>>) \/ v[2][1].id <= 0
          [] OTHER -> of = "polygon"

\* A text in a document that the column computed from it does not take.
UnfitChild(f, v) ==
    \E s \in {t \in Computed : t[1] = f} :
       LET c == s[2]
           x == Source(f, c, v)
       IN  IF x = Nil THEN v # Nil /\ c.type.of # "string" ELSE Unfit(c, x)

NoDefault(f) ==
    /\ ~GetColumn(f).nullable
    /\ \/ f.type.of \notin DOMAIN Bits \cup {"string", "bool", "float64", "currency", "time", "language", "location"}
       \/ Has(f, "longtext")

UnfitRecord(record, dropped) ==
    \E f \in Properties :
       IF f.path \in dropped THEN NoDefault(f) /\ ~Has(f, "auto_increment")
       ELSE IF At(writer, record, f).type # f.type THEN f.type.of \in {"point", "line"} /\ ~f.type.ptr
       ELSE Unfit(f, At(writer, record, f).v) \/ UnfitChild(f, At(writer, record, f).v)

KeyOf(record) == At(writer, record, CHOOSE f \in Properties : f.path = Key).v

\* The keys of the records are taken, or two of them have one.
Clash(batch) ==
    \/ \E i \in DOMAIN batch, r \in Range(rows) : KeyOf(batch[i]) = r[Key]
    \/ \E i, j \in DOMAIN batch : i # j /\ KeyOf(batch[i])[2] = KeyOf(batch[j])[2]

\* The last of the fields is left out, and there are others.
EndsInComma(dropped) ==
    LET Out(f) == f.path \in dropped \/ Has(f, "generated_column")
        Ends(all) == Out(Last(all)) /\ \E i \in DOMAIN all : ~Out(all[i])
    IN  Ends(GetCodec[writer].properties)

-----------------------------------------------------------------------------
(* Properties.                                                              *)

\* Every record is read back as it was inserted, under the name and in the
\* place of each of its fields, in whatever batch and mode it came, whatever
\* earlier calls left out, and after the updates of later ones.
ReadBack ==
    call.protocol # "none" /\ reader = writer /\ meant # Mixed
      => /\ Len(got) = Len(meant)
         /\ \A i \in DOMAIN got :
               IF got[i] = Refused THEN \E f \in Properties : Unreadable(f, meant[i][f.path])
               ELSE \A f \in Columned[writer] :
                       LET v == At(reader, got[i], f).v
                       IN  \/ v = IF Has(f, "generated_column") THEN GeneratedAsRead(f, meant[i])
                                  ELSE DocumentAsRead(f, meant[i][f.path])
                           \/ Has(f, "on_update") /\ v = <<"time", Rounded(Now, Precision(f))>>

\* A table cannot be made, or an INSERT is refused, only for one of the
\* reasons named here: a type or a default that has no column, a value that
\* does not fit or a missing one, a key that is taken, records of a batch
\* that differ in their nil embedded pointers, the comma that is left behind
\* when the last field is left out, and an update of nothing.
RefusedOnly ==
    call.answer = "refused"
      => IF table = <<>>
         THEN \E f \in ToSet(Migrated(writer)) :
                 f.type.of = "any" \/ (f.type.of \in DOMAIN Bits /\ Has(f, "default") /\ f.opts["default"][2] < 0)
         ELSE LET dropped == IF call.mode = "duplicate" THEN {} ELSE call.omits
              IN  \/ \E i \in DOMAIN call.batch : UnfitRecord(call.batch[i], dropped)
                  \/ call.mode = "insert" /\ Clash(call.batch)
                  \/ ~Agree(call.batch)
                  \/ EndsInComma(dropped)
                  \/ call.mode = "duplicate" /\ \A f \in Properties : KeyField(f) \/ f.path \in call.omits

\* A float whose whole part is no number of 64 bits.
Huge(s, of) ==
    s[1] = "float" /\ Truncated(s[2]) \notin
       IF of \in Unsigned THEN 0..Largest("uint64") ELSE Smallest("int64")..MaxInt64

\* The numbers of a column that the binary protocol gives to a decoder in a
\* form of which it makes another value than of their text.
Narrowing(s, of) ==
    LET number == s[1] \in {"int", "float"}
        fraction == s[1] = "float" /\ s[2] % 2 # 0
    IN  CASE of = "bool" -> s[1] = "float" \/ (s[1] = "int" /\ s[2] \notin {0, 1})
          [] of \in Unsigned -> fraction \/ (number /\ s[2] < 0) \/ Huge(s, of)
          [] of \in Signed -> fraction \/ Huge(s, of)
          [] of \in {"float64", "string", "language", "point", "line", "any"} -> FALSE
          [] OTHER -> number

\* The floats whose text has an exponent: the decoders of integers refuse it,
\* and that of a string keeps it as it is.
Exponential(s, of) ==
    s[1] = "float" /\ Large(s[2]) /\ of \in Signed \cup Unsigned \cup {"string"}

\* A query with arguments and one without give the same record, whatever the
\* types of the struct that it is read into, but for the numbers above.
ProtocolsAgree ==
    call.protocol # "none"
      => \A i \in DOMAIN rows :
            \/ \E n \in SharedAt :
                  LET s == rows[i][table[n].name]
                      of == FieldOf(table[n]).type.of
                  IN  Narrowing(s, of) \/ Exponential(s, of)
            \/ got[i] = Decoded(rows[i], IF call.protocol = "text" THEN "binary" ELSE "text")

\* What a value says, for comparison: numbers in halves, moments in ticks.
InHalves(text) == IF text[1] = "int" THEN 2 * text[2] ELSE text[2]
IsNumber(text) == text[1] \in {"int", "float", "exp"}
Says(v) ==
    CASE v[1] \in {"int", "float"} -> <<"number", InHalves(v)>>
      [] v[1] = "bool" -> <<"number", IF v[2] THEN 2 ELSE 0>>
      [] v[1] \in {"string", "raw"} /\ IsNumber(v[2]) -> <<"number", InHalves(v[2])>>
      [] v[1] = "key" /\ Len(v[2]) = 1 ->
           <<"number", IF IsNumber(v[2][1].name) THEN InHalves(v[2][1].name) ELSE 2 * v[2][1].id>>
      [] v[1] = "date" -> <<"moment", v[2] * Day>>
      [] v[1] = "time" -> <<"moment", v[2]>>
      [] OTHER -> v

\* A float64 has no such whole number, or its text is base64 or a UUID.
Misread(s, of) ==
    \/ of = "float64" /\ s[1] = "int" /\ Double(s[2]) # s[2]
    \/ of = "bytes" /\ Printed(s) \in Mistaken.bytes
    \/ of = "uuid" /\ Printed(s) \in Mistaken.uuid

\* What is kept of a stored value, but for numbers that the binary protocol
\* hands over as such, those that are misread, moments read as anything else,
\* and the time of day that a date has no room for.
Keeps(s, of, v, protocol) ==
    \/ Says(v) = Says(s)
    \/ protocol = "binary" /\ Narrowing(s, of)
    \/ Misread(s, of)
    \/ s[1] \in {"date", "time"} /\ of \notin {"date", "time"}
    \/ s[1] = "time" /\ v = <<"date", s[2] \div Day>>

\* A program of another release, with other types for the columns, reads the
\* value that was stored or gets an error; never silently another one, except
\* where Keeps says so.
NoSilentChange ==
    call.protocol # "none"
      => \A i \in DOMAIN got, n \in SharedAt :
            LET s == rows[i][table[n].name]
                f == FieldOf(table[n])
                v == At(reader, got[i], f).v
            IN  got[i] # Refused /\ s # Null /\ s[1] \in {"int", "float", "date", "time"}
                  => Keeps(s, f.type.of, v, call.protocol)
=============================================================================
