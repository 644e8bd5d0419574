------------------------------ MODULE Columns ------------------------------
(* The column that a field gets (sql/schema, mysql/schema.go, and the loop   *)
(* of mysql CreateTable), and what the server makes of a table with these    *)
(* columns: what it accepts into them, stores and gives when nothing is      *)
(* given. Texts are tagged with what they spell: <<"chars", sequence>>,      *)
(* <<"dec", integer>>, <<"real", halves>>, <<"date", day>> and so on.        *)

EXTENDS Fields

CONSTANTS
    Bits,         \* integer type -> its bits
    DefaultSize,  \* of a VARCHAR, and of a CHAR that is no currency
    Second, Day,  \* their ticks
    Epoch,        \* 1970, in ticks since the zero time
    Now           \* CURRENT_TIMESTAMP, in ticks

ASSUME DayAssumption == Day \in Nat \ {0}

Signed == {"int8", "int", "int64"}
Unsigned == {"uint8", "uint", "uint64"}
None == <<"none">>
Null == <<"null">>
Opt(f, opt) == IF Has(f, opt) THEN f.opts[opt] ELSE None

Column(f, sql, size, default) ==
    [name |-> f.path, sql |-> sql, size |-> size, default |-> default,
     nullable |-> f.null, auto |-> FALSE, onUpdate |-> FALSE, from |-> <<>>]

-----------------------------------------------------------------------------
(* Builder.GetColumn: by exact type, then by kind. The size of a time is    *)
(* the ticks of its precision.                                              *)

TypeMap == [bytes |-> "BLOB", uuid |-> "UUID", language |-> "String",
            currency |-> "CHAR", time |-> "DATETIME", location |-> "String",
            date |-> "DATE", clock |-> "TIME", raw |-> "JSON", point |-> "POINT",
            line |-> "LINESTRING", polygon |-> "POLYGON"]
KindMap == [string |-> "String", bool |-> "Bool", float64 |-> "Float",
            key |-> "JSON", strings |-> "JSON", map |-> "JSON"]
           @@ [of \in Signed |-> "Int"] @@ [of \in Unsigned |-> "Uint"]

DataType(type) ==
    CASE type.of \in DOMAIN TypeMap -> TypeMap[type.of]
      [] type.of \in DOMAIN KindMap -> KindMap[type.of]
      [] IsStruct(type) -> "JSON"
      [] OTHER -> "none"

ByteDataType(f) == Column(f, "BLOB", 0, Opt(f, "default"))
UUIDDataType(f) == Column(f, "VARCHAR", 36, None)
DateDataType(f) == Column(f, "DATE", 0, None)
JSONDataType(f) == Column(f, "JSON", 0, None)
\* A pointer to a currency is no currency.Unit to the builder.
CharDataType(f) == Column(f, "CHAR", IF f.type.ptr THEN DefaultSize ELSE 3, Chars(<<>>))
BoolDataType(f) == Column(f, "INT", Bits["int8"], <<"int", 0>>)

Precision(f) == IF Has(f, "size") THEN f.opts["size"] ELSE Second \div 3
TimeDataType(f) == Column(f, "TIME", Precision(f), None)
DateTimeDataType(f) ==
    [Column(f, "DATETIME", Precision(f), <<"now">>) EXCEPT !.onUpdate = Has(f, "on_update")]

\* The default of an ENUM is its first value, whatever the tag says.
StringDataType(f) ==
    CASE Has(f, "enum") -> Column(f, "ENUM", f.opts["enum"], Head(f.opts["enum"]))
      [] Has(f, "char") /\ ~Has(f, "enum") ->
           Column(f, "CHAR", f.opts["char"], IF Has(f, "default") THEN f.opts["default"] ELSE Chars(<<>>))
      [] Has(f, "longtext") /\ ~Has(f, "enum") /\ ~Has(f, "char") ->
           Column(f, "TEXT", 100, None)
      [] OTHER ->
           Column(f, "VARCHAR", IF Has(f, "size") THEN f.opts["size"] ELSE DefaultSize,
                  IF Has(f, "default") THEN f.opts["default"] ELSE Chars(<<>>))

\* An int or a uint of Go gets 32 bits. A negative default panics.
ColumnBits == [of \in DOMAIN Bits |-> IF of \in {"int", "uint"} THEN Bits["int32"] ELSE Bits[of]]
NumberDataType(f, sql) ==
    IF Has(f, "auto_increment")
    THEN [Column(f, sql, ColumnBits[f.type.of], None) EXCEPT !.auto = TRUE]
    ELSE IF Has(f, "default") /\ f.opts["default"][2] < 0 THEN Refused
    ELSE Column(f, sql, ColumnBits[f.type.of],
                IF Has(f, "default") THEN f.opts["default"] ELSE <<"int", 0>>)

FloatDataType(f) ==
    Column(f, IF Has(f, "unsigned") THEN "UNSIGNED REAL" ELSE "REAL", 0,
           IF Has(f, "default") THEN f.opts["default"] ELSE <<"float", 0>>)

SpatialDataType(f, sql) == [Column(f, sql, 0, None) EXCEPT !.nullable = f.type.ptr]

ColumnOfType(sql, f) ==
    CASE sql = "String" -> StringDataType(f)
      [] sql = "Int" -> NumberDataType(f, "INT")
      [] sql = "Uint" -> NumberDataType(f, "UNSIGNED")
      [] sql = "Float" -> FloatDataType(f)
      [] sql = "Bool" -> BoolDataType(f)
      [] sql = "UUID" -> UUIDDataType(f)
      [] sql = "CHAR" -> CharDataType(f)
      [] sql = "BLOB" -> ByteDataType(f)
      [] sql = "DATE" -> DateDataType(f)
      [] sql = "TIME" -> TimeDataType(f)
      [] sql = "DATETIME" -> DateTimeDataType(f)
      [] sql \in {"POINT", "LINESTRING", "POLYGON"} -> SpatialDataType(f, sql)
      [] sql = "none" -> Refused
      [] OTHER -> JSONDataType(f)

GetColumn(f) == ColumnOfType(DataType(f.type), f)

-----------------------------------------------------------------------------
(* CreateTable                                                              *)

\* skipColumns.
Migrated(struct) ==
    SelectSeq(GetCodec[struct].properties, LAMBDA f : ~Has(f, "generated_column"))

Generated(f) == Has(f, "virtual_column") \/ Has(f, "stored_column")
\* The column of a child under its own name or the one in the tag, computed
\* from the document at the path to it.
Computing(col, renamed, f, child) ==
    IF col = Refused THEN Refused
    ELSE [col EXCEPT !.name = IF renamed = "" THEN @ ELSE <<renamed>>,
                     !.default = None,
                     !.from = <<f.path, SubSeq(child.path, Len(f.path) + 1, Len(child.path))>>]
GeneratedColumn(f, child) ==
    Computing(GetColumn(child),
              IF Has(child, "stored_column") THEN Opt(child, "stored_column")
              ELSE Opt(child, "virtual_column"),
              f, child)

\* The fields below f, level by level.
Children(f, fields) ==
    SortSeq(SelectSeq(fields, LAMBDA c : IsStrictPrefix(f.idx, c.idx)),
            LAMBDA c, d : Len(c.idx) < Len(d.idx) \/ (Len(c.idx) = Len(d.idx) /\ Less(c, d)))

ColumnsOf(f, fields) ==
    LET children == SelectSeq(Children(f, fields), Generated)
    IN  <<GetColumn(f)>> \o [i \in DOMAIN children |-> GeneratedColumn(f, children[i])]

CreateColumns(struct) ==
    FoldLeft(LAMBDA columns, f : columns \o ColumnsOf(f, FieldsOf[struct]), <<>>, Migrated(struct))

-----------------------------------------------------------------------------
(* The server: CREATE TABLE, and the values of a row.                       *)

NoDefaults == {"BLOB", "TEXT", "JSON", "POINT", "LINESTRING", "POLYGON"}

\* The primary key and an AUTO_INCREMENT column must be one.
Created(columns, key) ==
    IF \/ \E i \in DOMAIN columns : columns[i] = Refused
       \/ \E i, j \in DOMAIN columns :
             i # j /\ LowerPath(columns[i].name) = LowerPath(columns[j].name)
       \/ \E i \in DOMAIN columns :
             \/ columns[i].auto /\ columns[i].name # key
             \/ columns[i].sql \in NoDefaults /\ ~columns[i].nullable /\ columns[i].default # None
    THEN Refused
    ELSE columns

Low(col) == IF col.sql = "INT" THEN -(2^(col.size - 1)) ELSE 0
High(col) == IF col.sql = "INT" THEN 2^(col.size - 1) - 1 ELSE 2^col.size - 1

TextLength(text) == IF text[1] = "chars" THEN Len(text[2]) ELSE 0
Trimmed(text) ==
    IF text[1] = "chars"
    THEN Chars(FoldRight(LAMBDA c, s : IF c = " " /\ s = <<>> THEN s ELSE <<c>> \o s,
                         text[2], <<>>))
    ELSE text

\* Fractions are rounded, half up.
Rounded(ticks, unit) == unit * ((2 * ticks + unit) \div (2 * unit))

\* A document, or the bare id of a key, which is a number of JSON.
Document(arg) ==
    CASE arg[1] = "doc" -> arg
      [] arg[1] = "keypath" /\ Len(arg[2]) = 1 /\ arg[2][1].name = Chars(<<>>) /\ arg[2][1].id > 0 -> arg
      [] OTHER -> Refused

Whole == {"INT", "UNSIGNED"}
Real == {"REAL", "UNSIGNED REAL"}
Halves(col) == IF col.sql = "REAL" THEN Int ELSE Nat

\* What a column makes of an argument: a value it stores, or an error.
Stored(col, arg) ==
    CASE arg = Null -> IF col.nullable THEN Null ELSE Refused
      [] col.sql \in Whole /\ arg[1] = "int" ->
           IF arg[2] \in Low(col)..High(col) THEN <<"int", arg[2]>> ELSE Refused
      [] col.sql \in Real /\ arg[1] = "float" ->
           IF arg[2] \in Halves(col) THEN <<"float", arg[2]>> ELSE Refused
      [] col.sql = "CHAR" /\ arg # Null ->
           IF TextLength(Trimmed(arg)) <= col.size THEN Trimmed(arg) ELSE Refused
      [] col.sql \in {"VARCHAR", "TEXT"} /\ arg # Null ->
           IF TextLength(arg) <= col.size THEN arg ELSE Refused
      [] col.sql = "ENUM" /\ arg # Null -> IF arg \in ToSet(col.size) THEN arg ELSE Refused
      [] col.sql = "BLOB" /\ arg # Null -> arg
      [] col.sql = "DATE" /\ arg[1] = "date" -> IF arg[2] \in Nat \ {0} THEN arg ELSE Refused
      [] col.sql = "DATETIME" /\ arg[1] = "time" ->
           IF arg[2] > 0 THEN <<"time", Rounded(arg[2], col.size)>> ELSE Refused
      [] col.sql = "TIME" /\ arg[1] = "clock" -> <<"clock", Rounded(arg[2], col.size)>>
      [] col.sql = "JSON" /\ arg # Null -> Document(arg)
      [] col.sql = "POINT" /\ arg[1] = "point" -> arg
      [] col.sql = "LINESTRING" /\ arg[1] = "line" -> arg
      [] OTHER -> Refused

StoredNow(col) == Stored(col, <<"time", Now>>)

\* The value of a column that an INSERT leaves out. DEFAULT is only written
\* for columns that are NOT NULL.
Default(col) ==
    CASE col.nullable -> Null
      [] ~col.nullable /\ col.default = <<"now">> -> StoredNow(col)
      [] ~col.nullable /\ col.default = None -> Refused
      [] OTHER -> Stored(col, col.default)

\* document->>'$.path': a missing member is NULL, a null is the text null.
Member(doc, path) ==
    LET at[n \in 0..Len(path)] ==
          IF n = 0 THEN doc
          ELSE LET outer == at[n - 1]
               IN  IF outer[1] = "obj" /\ <<path[n]>> \in DOMAIN outer[2]
                   THEN outer[2][<<path[n]>>]
                   ELSE Null
    IN  at[Len(path)]

JsonNull == <<"json null">>
TheTextNull == Chars(<<"null">>)
Unquoted(member) ==
    CASE member = JsonNull -> TheTextNull
      [] member[1] = "string" -> member[2]
      [] OTHER -> member

GeneratedValue(col, row) ==
    LET doc == row[col.from[1]]
    IN  Stored(col, IF doc = Null THEN Null ELSE Unquoted(Member(doc[2], col.from[2])))
=============================================================================
