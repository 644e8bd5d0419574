----------------------------- MODULE JsonText -----------------------------
(* The JSON codec of sqlike (package jsonb): what Marshal writes, and what  *)
(* the hand-written reader and its skipping functions make of a text. A     *)
(* text is a sequence of tokens: the characters, except that null, true,    *)
(* false, the exponent the encoder gives a float (E+00) and the one decimal *)
(* the server prints for it (.0) are one token each; "nl" is a newline,     *)
(* "ff" a form feed, "del" the delete character. A value is <<tag, content>>: *)
(* int and float are Go numbers, nilarr and nilobj nil slices and maps.     *)

EXTENDS KeyColumn

Null == <<"null", 0>>
NilSlice == <<"nilarr", 0>>
NilMap == <<"nilobj", 0>>

White == {" ", "nl"}
Digits == {Numeral[n] : n \in DOMAIN Numeral}
NumberStart == Digits \union {"-"}
NumberChars == NumberStart \union {".0", "e"}

-----------------------------------------------------------------------------
(* Writing.                                                                 *)

\* Mutant: a newline is written as it is.
EscapeChar_NoNewline(c) == IF c \in {Quote, Backslash} THEN <<Backslash, c>> ELSE <<c>>

\* escapeCharMap; a form feed and other control characters are not in it.
EscapeChar(c) ==
    CASE c = "nl" -> <<Backslash, "n">>
      [] c \in {Quote, Backslash} -> <<Backslash, c>>
      [] OTHER -> <<c>>

EncodeString(s) ==
    <<Quote>> \o FlattenSeq([i \in DOMAIN s |-> EscapeChar(s[i])]) \o <<Quote>>

EncodeFloat(n) == IF n <= 0 THEN <<"0">> ELSE Append(Decimal(n), "E+00")

\* Key.MarshalJSONB: the path between quotes, not escaped.
EncodeKey(k) == IF Incomplete(k) THEN <<"null">>
                ELSE <<Quote>> \o MarshalKey(k) \o <<Quote>>

Joined(texts) ==
    FoldLeft(LAMBDA all, t : IF all = <<>> THEN t ELSE all \o <<",">> \o t, <<>>, texts)

\* Marshal. The members of a map are sorted by key, those of a struct by
\* field; the order says nothing to the reader and is any.
RECURSIVE Marshal(_)
Marshal(v) ==
    CASE v[1] = "bool" -> <<IF v[2] THEN "true" ELSE "false">>
      [] v[1] = "int" -> Decimal(v[2])
      [] v[1] = "float" -> EncodeFloat(v[2])
      [] v[1] = "str" -> EncodeString(v[2])
      [] v[1] = "key" -> EncodeKey(v[2])
      [] v[1] = "arr" ->
           <<"[">> \o Joined([i \in DOMAIN v[2] |-> Marshal(v[2][i])]) \o <<"]">>
      [] v[1] = "obj" ->
           LET names == SetToSeq(DOMAIN v[2])
               Member(i) == EncodeString(names[i]) \o <<":">> \o Marshal(v[2][names[i]])
           IN  <<"{">> \o Joined([i \in DOMAIN names |-> Member(i)]) \o <<"}">>
      [] OTHER -> <<"null">>

\* The database: a JSON column refuses a control character inside a string,
\* and gives the document back with a space after each comma and colon and
\* its doubles with a decimal point.
Control == {"nl", "ff"}
Printed(c) == CASE c \in {",", ":"} -> <<c, " ">>
                [] c = "E+00" -> <<".0">>
                [] OTHER -> <<c>>
StoreToken(a, c) ==
    IF a.inString
    THEN [out |-> Append(a.out, c), inString |-> c # Quote \/ a.escaped,
          escaped |-> c = Backslash /\ ~a.escaped, valid |-> a.valid /\ c \notin Control]
    ELSE [a EXCEPT !.out = @ \o Printed(c), !.inString = c = Quote]
Stored(text) ==
    LET all == FoldLeft(StoreToken, [out |-> <<>>, inString |-> FALSE,
                                     escaped |-> FALSE, valid |-> TRUE], text)
    IN  IF all.valid THEN all.out ELSE Failed

-----------------------------------------------------------------------------
(* Reading. A reader is its text b and the number pos of tokens it took; an *)
(* operation returns whether it succeeded, the reader after it and a value. *)

Nothing == ""

NewReader(b) == [b |-> b, pos |-> 0]
Rest(r) == SubSeq(r.b, r.pos + 1, Len(r.b))
Unread(r) == [r EXCEPT !.pos = IF @ > 0 THEN @ - 1 ELSE 0]
Advance(r, n) == [r EXCEPT !.pos = @ + n]
Done(r, v) == [ok |-> TRUE, r |-> r, v |-> v]
Bad(r) == [ok |-> FALSE, r |-> r, v |-> Failed]

\* What is done with a successful read; an error is passed on.
On(read, Then(_)) == IF read.ok THEN Then(read) ELSE read

\* nextToken removes the white space before the token from the text.
TokenAt(r, rest, first) ==
    IF first = 0 THEN Done([r EXCEPT !.b = SubSeq(@, 1, r.pos)], Nothing)
    ELSE Done([b |-> SubSeq(r.b, 1, r.pos) \o SubSeq(rest, first, Len(rest)),
               pos |-> r.pos + 1], rest[first])
NextToken(r) == TokenAt(r, Rest(r), SelectInSeq(Rest(r), LAMBDA c : c \notin White))

Expect(r, c) == On(NextToken(r), LAMBDA n : IF n.v = c THEN n ELSE Bad(n.r))

IsNull(r) == r.pos < Len(r.b) /\ r.b[r.pos + 1] = "null"

\* The place of the quote that ends the string. An escape that the reader
\* does not know is never left: the loop does not advance, and 0 stands for
\* that as well as for a string with no end.
Escapes == {Quote, Backslash, "n", "f", "u"}
RECURSIVE StringEnd(_, _)
StringEnd(b, i) ==
    IF i > Len(b) THEN 0
    ELSE IF b[i] = Quote THEN i
    ELSE IF b[i] = Backslash /\ (i = Len(b) \/ b[i + 1] \notin Escapes) THEN 0
    ELSE StringEnd(b, IF b[i] = Backslash THEN i + 2 ELSE i + 1)

RECURSIVE Unescape(_)
Unescape(s) ==
    IF s = <<>> THEN <<>>
    ELSE IF Head(s) # Backslash THEN <<Head(s)>> \o Unescape(Tail(s))
    ELSE <<CASE s[2] = "n" -> "nl" [] s[2] = "f" -> "ff" [] OTHER -> s[2]>>
         \o Unescape(SubSeq(s, 3, Len(s)))

\* The rest of a string, once its quote was read.
ReadRaw(r, end) ==
    IF end = 0 THEN Bad(r) ELSE Done([r EXCEPT !.pos = end], SubSeq(r.b, r.pos + 1, end - 1))

\* A string with its escapes as they stand in the text; null is an empty one.
ReadQuoted(r) ==
    On(NextToken(r), LAMBDA n :
       CASE n.v = "null" -> Done(n.r, <<>>)
         [] n.v = Quote -> ReadRaw(n.r, StringEnd(n.r.b, n.r.pos + 1))
         [] OTHER -> Bad(n.r))

\* Mutant: the escapes of a string are left in it.
ReadString_Raw(r) == ReadQuoted(r)
\* ReadString, and skipString by the same scan.
ReadString(r) == On(ReadQuoted(r), LAMBDA s : Done(s.r, Unescape(s.v)))

\* ReadNumber stops at the first character that belongs to no number; an
\* upper-case exponent does not. The number n is printed as n or as n.0.
ParseNumber(digits) ==
    ParseInt(IF digits # <<>> /\ Last(digits) = ".0" THEN Front(digits) ELSE digits)
ReadDigits(r, length) == Done(Advance(r, length), ParseNumber(SubSeq(Rest(r), 1, length)))
ReadNumber(r) ==
    On(NextToken(r), LAMBDA n :
       IF n.v = "null" THEN Done(n.r, 0)
       ELSE On(ReadDigits(Unread(n.r),
                          SelectInSeq(Append(Rest(Unread(n.r)), Nothing),
                                      LAMBDA c : c \notin NumberChars) - 1),
               LAMBDA d : IF d.v = Failed THEN Bad(d.r) ELSE d))

-----------------------------------------------------------------------------
(* Skipping: ReadBytes finds where a value ends without reading it.         *)

\* skipNumber looks for a delimiter; at the end of the text it finds none.
NumberEnd(r) == SelectInSeq(Rest(r), LAMBDA c : c \in White \union {",", "}", "]"})
SkipNumber(r) ==
    On(NextToken(r), LAMBDA n :
       Done(IF NumberEnd(n.r) = 0 THEN n.r ELSE Advance(n.r, NumberEnd(n.r) - 1), 0))

\* The place of the bracket that closes the array, brackets in strings
\* counted like the others.
RECURSIVE ArrayEnd(_, _, _)
ArrayEnd(b, i, level) ==
    IF i > Len(b) THEN 0
    ELSE IF b[i] = "]" /\ level = 1 THEN i
    ELSE ArrayEnd(b, i + 1, CASE b[i] = "[" -> level + 1
                              [] b[i] = "]" -> level - 1
                              [] OTHER -> level)

SkipTo(r, end) == Done(IF end = 0 THEN r ELSE [r EXCEPT !.pos = end], 0)
SkipArray(r) ==
    On(NextToken(r), LAMBDA n : SkipTo(n.r, ArrayEnd(n.r.b, n.r.pos + 1, 1)))

\* skip does not look at the error of skipObject, which wants another brace
\* after the one that ends the object and so nearly always fails.
RECURSIVE Skip(_), SkipMembers(_)
Skip(r) ==
    On(NextToken(r), LAMBDA n :
       CASE n.v = Quote -> ReadString(Unread(n.r))
         [] n.v \in NumberStart -> SkipNumber(Unread(n.r))
         [] n.v \in {"null", "true", "false"} -> n
         [] n.v = "[" -> SkipArray(Unread(n.r))
         [] n.v = "{" -> Done(SkipMembers(n.r).r, 0)
         [] OTHER -> Done(Unread(n.r), 0))

SkipMembers(r) ==
    On(Expect(r, Quote), LAMBDA quote :
    On(ReadString(Unread(quote.r)), LAMBDA name :
    On(Expect(name.r, ":"), LAMBDA colon :
    On(Skip(colon.r), LAMBDA value :
    On(NextToken(value.r), LAMBDA separator :
       IF separator.v = "," THEN SkipMembers(separator.r) ELSE separator)))))

Cut(r, after) == Done(after, SubSeq(after.b, r.pos + 1, after.pos))
\* Mutant: the value begins before the white space that skipping removed.
ReadBytes_Stale(r) == On(Skip(r), LAMBDA s : Done(s.r, SubSeq(r.b, r.pos + 1, s.r.pos)))
ReadBytes(r) == On(Skip(r), LAMBDA s : Cut(r, s.r))

-----------------------------------------------------------------------------
(* The walks. The callback of ReadObject and ReadArray gets a reader of its *)
(* own on the bytes of each value; here the walks return those bytes.       *)

\* A name and the colon behind it.
ReadName(r) == On(ReadString(r), LAMBDA name :
                  On(Expect(name.r, ":"), LAMBDA colon : Done(colon.r, name.v)))

\* What follows a value: a comma and more, or the end.
Separated(r, found, end, More(_)) ==
    On(NextToken(r), LAMBDA n :
       CASE n.v = "," -> More(n.r) [] n.v = end -> Done(n.r, found) [] OTHER -> Bad(n.r))

RECURSIVE Members(_, _)
Members(r, found) ==
    LET WithMember(after, name, b) ==
            Separated(after, Append(found, [name |-> name, b |-> b]), "}",
                      LAMBDA more : Members(more, Append(found, [name |-> name, b |-> b])))
    IN  On(NextToken(r), LAMBDA n :
           CASE n.v = "}" -> Done(n.r, found)
             [] n.v = Quote ->
                  On(ReadName(Unread(n.r)), LAMBDA name :
                     On(ReadBytes(name.r), LAMBDA value : WithMember(value.r, name.v, value.v)))
             [] OTHER -> Bad(n.r))
ReadObject(r) == On(Expect(r, "{"), LAMBDA n : Members(n.r, <<>>))

RECURSIVE Elements(_, _)
Elements(r, found) ==
    On(ReadBytes(r), LAMBDA value :
       Separated(value.r, Append(found, value.v), "]",
                 LAMBDA more : Elements(more, Append(found, value.v))))
ReadArray(r) ==
    On(NextToken(r), LAMBDA n :
       CASE n.v = "null" -> Done(n.r, <<>>)
         [] n.v = "[" -> On(NextToken(n.r), LAMBDA first :
                            IF first.v = "]" THEN Done(first.r, <<>>)
                            ELSE Elements(Unread(first.r), <<>>))
         [] OTHER -> Bad(n.r))

\* The callback on each of the values of a walk.
Collect(r, values) == IF \E i \in DOMAIN values : ~values[i].ok THEN Bad(r)
                      ELSE Done(r, [i \in DOMAIN values |-> values[i].v])
Each(read, Callback(_)) ==
    On(read, LAMBDA all : Collect(all.r, [i \in DOMAIN all.v |-> Callback(all.v[i])]))

\* The later of two members of one name stays.
MapOf(pairs) == FoldLeft(LAMBDA m, pair : (pair[1] :> pair[2]) @@ m, <<>>, pairs)

\* ReadValue into an interface{}: numbers are floats, an empty array or
\* object leaves the slice or the map nil.
RECURSIVE ReadValue(_)
ReadMember(m) ==
    On(ReadValue(NewReader(m.b)), LAMBDA value : Done(value.r, <<m.name, value.v>>))
ReadValue(r) ==
    On(NextToken(r), LAMBDA n :
       CASE n.v = Quote -> On(ReadString(Unread(n.r)), LAMBDA s : Done(s.r, <<"str", s.v>>))
         [] n.v \in NumberStart ->
              On(ReadNumber(Unread(n.r)), LAMBDA d : Done(d.r, <<"float", d.v>>))
         [] n.v \in {"true", "false"} -> Done(n.r, <<"bool", n.v = "true">>)
         [] n.v = "null" -> Done(n.r, Null)
         [] n.v = "[" ->
              On(Each(ReadArray(Unread(n.r)), LAMBDA b : ReadValue(NewReader(b))),
                 LAMBDA all : Done(all.r, IF all.v = <<>> THEN NilSlice ELSE <<"arr", all.v>>))
         [] n.v = "{" ->
              On(Each(ReadObject(Unread(n.r)), ReadMember),
                 LAMBDA all : Done(all.r, IF all.v = <<>> THEN NilMap
                                          ELSE <<"obj", MapOf(all.v)>>))
         [] OTHER -> Bad(n.r))

-----------------------------------------------------------------------------
(* ReadFlattenObject: a callback for each member that is no object, with    *)
(* the names on the way to it. keyLoop and valueLoop are its two labels.    *)

\* Mutant: a closing brace leaves one name too many.
CloseObject_OneMore(paths, level) == SubSeq(paths, 1, level)
CloseObject(paths, level) == SubSeq(paths, 1, level - 1)

RECURSIVE KeyLoop(_, _, _, _), ValueLoop(_, _, _, _)
ReadLeaf(r, here, level, calls) ==
    On(NextToken(r), LAMBDA n :
       IF n.v = "{" THEN KeyLoop(n.r, here, level + 1, calls)
       ELSE On(ReadBytes(Unread(n.r)), LAMBDA value :
               ValueLoop(value.r, here, level, Append(calls, <<here, value.v>>))))

KeyLoop(r, paths, level, calls) ==
    On(NextToken(r), LAMBDA n :
       CASE n.v = "}" -> ValueLoop(Unread(n.r), paths, level, calls)
         [] n.v = Quote -> On(ReadName(Unread(n.r)), LAMBDA name :
                              ReadLeaf(name.r, Append(paths, name.v), level, calls))
         [] OTHER -> Bad(n.r))

ValueLoop(r, paths, level, calls) ==
    On(NextToken(r), LAMBDA n :
       CASE n.v = "}" /\ level = 1 -> Done(n.r, calls)
         [] n.v = "}" /\ level > 1 ->
              On(NextToken(n.r), LAMBDA comma :
                 KeyLoop(IF comma.v = "," THEN comma.r ELSE Unread(comma.r),
                         CloseObject(paths, level - 1), level - 1, calls))
         [] n.v = "," -> KeyLoop(n.r, Front(paths), level, calls)
         [] OTHER -> KeyLoop(n.r, paths, level, calls))

ReadFlattenObject(r) == On(Expect(r, "{"), LAMBDA n : KeyLoop(n.r, <<>>, 1, <<>>))
=============================================================================
