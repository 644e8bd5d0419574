------------------------------- MODULE Values -------------------------------
(* Field values on their way to a column and back: the registry and the      *)
(* encoders and decoders of sql/codec, with the values that the MySQL        *)
(* driver hands out between them. A document is <<"doc", content>>; texts    *)
(* and layouts of JSON are the business of module Rows.                      *)

EXTENDS Columns

CONSTANTS
    Exponent,   \* the least float, in halves, that MySQL prints with an exponent
    Precise,    \* every whole number up to this one is a float64
    Beyond,     \* what the processor makes of a float64 that has no 64 bits:
                \* [below, above, unsigned]
    Mistaken    \* [bytes, uuid]: the texts that are base64, or of the 16 bytes
                \* of a UUID, although nobody wrote them as such

-----------------------------------------------------------------------------
(* LookupEncoder: a Valuer, a type of its own, a kind.                      *)

TypeEncoders == [bytes |-> "Byte", language |-> "Stringer", currency |-> "Stringer",
                 time |-> "DateTime", location |-> "Stringer", date |-> "Stringer",
                 clock |-> "Stringer", raw |-> "JSONRaw", point |-> "Spatial",
                 line |-> "Spatial", key |-> "DatastoreKey"]
KindEncoders == [string |-> "String", bool |-> "Bool", float64 |-> "Number",
                 polygon |-> "Document", strings |-> "Document", map |-> "Document"]
                @@ [of \in Signed \cup Unsigned |-> "Number"]

LookupEncoder(type) ==
    IF type.of = "uuid" THEN "Value"
    ELSE IF type.ptr THEN "Ptr"
    ELSE IF IsStruct(type) THEN "Document"
    ELSE (TypeEncoders @@ KindEncoders)[type.of]

Doc(content) == <<"doc", content>>

\* jsonb.Marshal: a struct is its properties by their paths. What is written
\* of the value at each index.
Marshal(x) ==
    LET text[idx \in Seq(Nat)] ==
          LET inner == ValueAt(x, idx)
              Members(properties) ==
                  [path \in {p.path : p \in properties} |->
                     text[idx \o (CHOOSE p \in properties : p.path = path).idx]]
          IN  IF inner.v = Nil THEN JsonNull
              ELSE IF ~IsStruct(inner.type) THEN inner.v
              ELSE <<"obj", Members(ToSet(GetCodec[inner.type.of].properties))>>
    IN  text[<<>>]

\* What String() of reflect makes of a value that is no string.
NotAString == Chars(<<"<", "T", " ", "V", ">">>)

\* The nil of an embedded pointer, at an encoder that was chosen by the
\* value of the field in another record.
EncodeEmbeddedNil(enc) ==
    CASE enc = "String" -> NotAString
      [] enc \in {"Spatial", "Ptr", "Value"} -> Null
      [] enc \in {"JSONRaw", "Document"} -> Doc(JsonNull)
      [] OTHER -> Refused

\* An empty string in an ENUM is its first value.
EncodeString(f, text) ==
    IF text = Chars(<<>>) /\ Has(f, "enum") THEN Head(f.opts["enum"]) ELSE text

\* An empty json.RawMessage is no document.
Nothing == <<"nothing">>
EncodeJSONRaw(v) ==
    IF v = Nil THEN Doc(JsonNull) ELSE IF v[2] = Nothing THEN Refused ELSE Doc(v[2])

\* The last level of a key goes without its kind, and has a number or a name.
EncodeDatastoreKey(levels) ==
    LET id == IF Last(levels).id > 0 THEN Last(levels).id ELSE 0
    IN  <<"keypath", Append(Front(levels),
            [kind |-> "", id |-> id, name |-> IF id > 0 THEN Chars(<<>>) ELSE Last(levels).name])>>

\* x is the value with the type it has where it was found.
EncodeKind(enc, f, x) ==
    CASE enc = "Nil" -> Null
      [] enc = "Value" -> IF x.v = Nil THEN Null ELSE x.v
      [] enc = "Byte" -> <<"base64", IF x.v = Nil THEN <<>> ELSE x.v[2]>>
      [] enc = "JSONRaw" -> EncodeJSONRaw(x.v)
      [] enc = "Spatial" -> IF x.v = Nil \/ x.v[2] = 0 THEN Null ELSE x.v
      [] enc = "String" -> EncodeString(f, x.v[2])
      [] enc = "Bool" -> <<"int", IF x.v[2] THEN 1 ELSE 0>>
      [] enc = "Document" -> Doc(Marshal(x))
      [] enc = "DatastoreKey" -> EncodeDatastoreKey(x.v[2])
      [] OTHER -> x.v

Encode(enc, f, x) ==
    IF enc # "Ptr" THEN EncodeKind(enc, f, x)
    ELSE IF x.v = Nil THEN Null
    ELSE IF x.type.ptr THEN EncodeKind(LookupEncoder(Elem(x.type)), f, [x EXCEPT !.type = Elem(@)])
    ELSE Refused

-----------------------------------------------------------------------------
(* The driver: NULL is nil, times are parsed, everything else is text in    *)
(* the text protocol; the binary protocol of prepared statements keeps      *)
(* numbers, but for those above the largest int64.                          *)

MaxInt64 == 2^(Bits["int64"] - 1) - 1

\* strconv.FormatFloat in the format 'f'.
FormatFloat(halves) == IF halves % 2 = 0 THEN <<"int", halves \div 2>> ELSE <<"float", halves>>

\* MySQL prints a float from 10^15 on with an exponent. (So it does below
\* 10^-15, of which there are no halves.)
Large(halves) == halves >= Exponent \/ halves <= -Exponent
Printed(s) ==
    CASE s[1] = "float" /\ Large(s[2]) -> <<"exp", s[2]>>
      [] s[1] = "float" /\ ~Large(s[2]) -> FormatFloat(s[2])
      [] OTHER -> s

Given(col, s, protocol) ==
    CASE s = Null -> Nil
      [] s[1] = "date" /\ col.sql = "DATE" -> <<"time", s[2] * Day>>
      [] s[1] = "time" -> s
      [] protocol = "binary" /\ col.sql \in Whole /\ s[2] <= MaxInt64 -> <<"int64", s[2]>>
      [] protocol = "binary" /\ col.sql \in Real -> <<"float64", s[2]>>
      [] OTHER -> <<"bytes", Printed(s)>>

-----------------------------------------------------------------------------
(* The decoders. Every one has cases for the types of a driver's value, and *)
(* what has no case leaves the zero value.                                  *)

Smallest(of) == IF of \in Unsigned THEN 0 ELSE -(2^(Bits[of] - 1))
Largest(of) == IF of \in Unsigned THEN 2^Bits[of] - 1 ELSE 2^(Bits[of] - 1) - 1

\* No signed type is wider than int64, and an int64 that is not negative is
\* an uint64.
ASSUME BitsAssumption ==
    /\ Smallest("int64") \in Int /\ MaxInt64 \in Nat
    /\ \A of \in Signed : Largest(of) \in Int /\ Largest(of) <= MaxInt64
    /\ 2^Bits["uint64"] \in Nat /\ MaxInt64 < 2^Bits["uint64"]

\* What is printed without an exponent is a float64 to the last digit.
ASSUME ExponentAssumption == Exponent \in Nat \ {0} /\ Precise \in Nat /\ Exponent <= 2 * Precise

ASSUME BeyondAssumption ==
    /\ {Beyond.below, Beyond.above} \subseteq Smallest("int64")..MaxInt64
    /\ Beyond.unsigned \in 0..Largest("uint64")

\* Mutant: SetInt without asking OverflowInt keeps the low bits.
Fitting_Wraps(of, n) == <<"int", Smallest(of) + ((n - Smallest(of)) % 2^Bits[of])>>
Fitting(of, n) == IF n \in Smallest(of)..Largest(of) THEN <<"int", n>> ELSE Refused

Truncated(halves) == IF halves < 0 THEN -((-halves) \div 2) ELSE halves \div 2

\* The conversions of a float64 by Go, which nobody checks: what has no 64 bits
\* becomes what the processor makes of it.
ToInt64(halves) ==
    CASE Truncated(halves) < Smallest("int64") -> Beyond.below
      [] Truncated(halves) > MaxInt64 -> Beyond.above
      [] OTHER -> Truncated(halves)
ToUint64(halves) ==
    IF halves \div 2 > Largest("uint64") THEN Beyond.unsigned ELSE halves \div 2

DecodeInt(of, it) ==
    CASE it[1] = "bytes" ->
           IF it[2][1] = "int" /\ it[2][2] <= MaxInt64 THEN Fitting(of, it[2][2]) ELSE Refused
      [] it[1] = "int64" -> Fitting(of, it[2])
      [] it[1] = "float64" -> Fitting(of, ToInt64(it[2]))
      [] OTHER -> <<"int", 0>>

\* A negative int64 is converted to a large uint64.
DecodeUint(of, it) ==
    CASE it[1] = "bytes" ->
           IF it[2][1] = "int" /\ it[2][2] >= 0 THEN Fitting(of, it[2][2]) ELSE Refused
      [] it[1] = "int64" -> Fitting(of, it[2] % 2^Bits["uint64"])
      [] it[1] = "float64" -> Fitting(of, IF it[2] > 0 THEN ToUint64(it[2]) ELSE 0)
      [] OTHER -> <<"int", 0>>

\* The float64 next to a whole number, of two the even one.
Double(n) ==
    LET Within(k) == n \in -(Precise * 2^k)..(Precise * 2^k)
        unit == 2^(CHOOSE k \in 1..Bits["uint64"] : Within(k) /\ (k > 1 => ~Within(k - 1)))
        low == unit * (n \div unit)
        rest == 2 * (n - low)
    IN  IF n \in -Precise..Precise THEN n
        ELSE IF rest < unit \/ (rest = unit /\ (n \div unit) % 2 = 0) THEN low ELSE low + unit

\* strconv.ParseFloat.
ParseFloat(text) ==
    CASE text[1] = "int" -> <<"float", 2 * Double(text[2])>>
      [] text[1] \in {"float", "exp"} -> <<"float", text[2]>>
      [] OTHER -> Refused

\* Mutant: no case for an int64.
DecodeFloat_NoInt(it) ==
    CASE it[1] = "bytes" -> ParseFloat(it[2])
      [] it[1] = "float64" -> <<"float", it[2]>>
      [] OTHER -> <<"float", 0>>

DecodeFloat(it) ==
    CASE it[1] = "bytes" -> ParseFloat(it[2])
      [] it[1] = "int64" -> <<"float", 2 * Double(it[2])>>
      [] it[1] = "float64" -> <<"float", it[2]>>
      [] OTHER -> <<"float", 0>>

DecodeBool(it) ==
    CASE it[1] = "bytes" ->
           IF it[2] \in {<<"int", 0>>, <<"int", 1>>} THEN <<"bool", it[2][2] = 1>> ELSE Refused
      [] it[1] = "int64" -> <<"bool", it[2] = 1>>
      [] OTHER -> <<"bool", FALSE>>

\* A time has no case: it is read as an empty string.
DecodeString(it) ==
    CASE it[1] = "bytes" -> <<"string", it[2]>>
      [] it[1] = "int64" -> <<"string", <<"int", it[2]>>>>
      [] it[1] = "float64" -> <<"string", FormatFloat(it[2])>>
      [] OTHER -> <<"string", Chars(<<>>)>>

DecodeByte(it) ==
    CASE it[1] = "bytes" ->
           CASE it[2][1] = "base64" -> <<"bytes", it[2][2]>>
             [] it[2] = Chars(<<>>) -> <<"bytes", <<>>>>
             [] it[2] \in Mistaken.bytes -> <<"bytes", it[2]>>
             [] OTHER -> Refused
      [] it = Nil -> <<"bytes", <<>>>>
      [] OTHER -> Nil

DecodeJSONRaw(it) ==
    CASE it[1] = "bytes" ->
           CASE it[2][1] = "doc" -> <<"raw", it[2][2]>>
             [] it[2][1] \in {"int", "float", "exp"} -> <<"raw", it[2]>>
             [] OTHER -> Refused
      [] OTHER -> Nil

Unix(seconds) == <<"time", Epoch + seconds * Second>>

\* decodeTime knows a date and a date with a time.
DecodeDateTime(it) ==
    CASE it[1] = "time" -> it
      [] it[1] = "bytes" ->
           CASE it[2][1] = "date" -> <<"time", it[2][2] * Day>>
             [] it[2][1] = "stamp" -> <<"time", it[2][2]>>
             [] OTHER -> Refused
      [] it[1] = "int64" -> Unix(it[2])
      [] OTHER -> <<"time", 0>>

DecodeDate(it) ==
    CASE it[1] = "time" -> <<"date", it[2] \div Day>>
      [] it[1] = "bytes" -> IF it[2][1] = "date" THEN it[2] ELSE Refused
      [] it[1] = "int64" -> <<"date", Unix(it[2])[2] \div Day>>
      [] OTHER -> <<"date", 0>>

\* 24:00:00 is no time of a day.
DecodeTime(it) ==
    CASE it[1] = "time" -> <<"clock", it[2] % Day>>
      [] it[1] = "bytes" -> IF it[2][1] = "clock" /\ it[2][2] < Day THEN it[2] ELSE Refused
      [] it[1] = "int64" -> <<"clock", Unix(it[2])[2] % Day>>
      [] OTHER -> <<"clock", 0>>

\* ParseISO refuses an empty text, language.Parse is not asked about it, and
\* LoadLocation takes it for UTC.
DecodeCurrency(it) ==
    IF it[1] # "bytes" THEN ZeroOf("currency")
    ELSE IF it[2][1] = "currency" THEN it[2] ELSE Refused

DecodeLanguage(it) ==
    CASE it = Nil \/ it = <<"bytes", Chars(<<>>)>> -> ZeroOf("language")
      [] it[1] = "bytes" /\ it[2][1] = "language" -> it[2]
      [] OTHER -> Refused

DecodeTimeLocation(it) ==
    CASE it[1] # "bytes" -> ZeroOf("location")
      [] it \in {<<"bytes", Chars(<<>>)>>, <<"bytes", ZeroOf("location")>>} -> <<"location", "UTC">>
      [] it[1] = "bytes" /\ it[2][1] = "location" /\ it[2] # ZeroOf("location") -> it[2]
      [] OTHER -> Refused

DecodeSpatial(of, it) ==
    CASE it = Nil -> ZeroOf(of)
      [] it[1] = "bytes" /\ it[2][1] = of -> it[2]
      [] OTHER -> Refused

IncompleteLevel(level) == level.name = Chars(<<>>) /\ level.id = 0

\* parseKey: a level gets its parent only if that is complete. Text that is
\* no number of 64 bits is a name, a time as it is printed as well; no text
\* at all, NULL, and what is printed of a number are errors.
Parsed(levels) ==
    FoldLeft(LAMBDA key, level :
               IF key = <<>> \/ IncompleteLevel(Last(key)) THEN <<level>> ELSE Append(key, level),
             <<>>, levels)
OneLevel(name, id) == <<[kind |-> "", name |-> name, id |-> id]>>
DecodeDatastoreKey(it) ==
    CASE it[1] = "time" -> <<"key", OneLevel(it, 0)>>
      [] it[1] = "bytes" ->
           CASE it[2][1] = "keypath" -> <<"key", Parsed(it[2][2])>>
             [] it[2][1] = "int" /\ it[2][2] <= MaxInt64 -> <<"key", OneLevel(Chars(<<>>), it[2][2])>>
             [] it[2] = Chars(<<>>) \/ it[2][1] = "doc" -> Refused
             [] OTHER -> <<"key", OneLevel(it[2], 0)>>
      [] OTHER -> Refused

\* jsonb.UnmarshalValue into a struct: members it has fields for. What is
\* read of the document below each sequence of names.
Unmarshal(type, content) ==
    LET Names(at) == GetCodec[at.type.of].names
        Deeper(at, path) == [type |-> Names(at)[path].type, content |-> at.content[2][path]]
        value[steps \in Seq(Seq(STRING))] ==
          LET at == FoldLeft(Deeper, [type |-> type, content |-> content], steps)
          IN  IF at.content = JsonNull THEN Zero(at.type)
              ELSE IF ~IsStruct(at.type) THEN at.content
              ELSE FoldSet(LAMBDA path, v :
                             WithValue([type |-> Elem(at.type), v |-> v], Names(at)[path].idx,
                                       value[Append(steps, path)]),
                           Zero(Elem(at.type)), DOMAIN at.content[2] \cap DOMAIN Names(at))
    IN  value[<<>>]

DecodeDocument(type, it) ==
    CASE it[1] = "bytes" -> IF it[2][1] = "doc" THEN Unmarshal(type, it[2][2]) ELSE Refused
      [] OTHER -> Zero(type)

\* LookupDecoder: a Scanner, a type of its own, a kind.
DecodeKind(of, it) ==
    CASE of \in Signed -> DecodeInt(of, it)
      [] of \in Unsigned -> DecodeUint(of, it)
      [] of = "float64" -> DecodeFloat(it)
      [] of = "bool" -> DecodeBool(it)
      [] of = "string" -> DecodeString(it)
      [] of = "bytes" -> DecodeByte(it)
      [] of = "raw" -> DecodeJSONRaw(it)
      [] of = "time" -> DecodeDateTime(it)
      [] of = "date" -> DecodeDate(it)
      [] of = "clock" -> DecodeTime(it)
      [] of = "currency" -> DecodeCurrency(it)
      [] of = "language" -> DecodeLanguage(it)
      [] of = "location" -> DecodeTimeLocation(it)
      [] of \in {"point", "line"} -> DecodeSpatial(of, it)
      [] of = "key" -> DecodeDatastoreKey(it)
      [] of = "any" -> Refused
      [] OTHER -> DecodeDocument([of |-> of, ptr |-> FALSE], it)

DecodeUUID(type, it) ==
    CASE it = Nil -> Zero(type)
      [] it[1] = "bytes" /\ it[2][1] = "uuid" -> it[2]
      [] it[1] = "bytes" /\ it[2] \in Mistaken.uuid -> <<"uuid", it[2]>>
      [] OTHER -> Refused

Decode(type, it) ==
    CASE type.of = "uuid" -> DecodeUUID(type, it)
      [] type.of # "uuid" /\ type.ptr /\ it = Nil -> Nil
      [] OTHER -> DecodeKind(type.of, it)
=============================================================================
