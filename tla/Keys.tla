------------------------------- MODULE Keys -------------------------------
(* types.Key as a column value (types/key.go): a key and its ancestors are *)
(* written as a path, Kind,'name' or Kind,id, joined by slashes, and read   *)
(* back by Scan. A key is the sequence of its levels, the root first; kinds *)
(* and names are sequences of characters, texts of tokens, a token being a  *)
(* character, a percent escape or a numeral.                                *)

EXTENDS Integers, SequencesExt

CONSTANTS
    Failed,   \* what an operation that returns an error leaves
    Numeral   \* the numerals of the numbers an ID may have, each a token

Quote == "\""
Backslash == "\\"
Reserved == {"/", ",", "'", "%", Quote, Backslash, "nl"}

\* strconv.FormatInt is one to one, and writes no other characters.
ASSUME NumeralAssumption ==
    /\ DOMAIN Numeral \subseteq Nat /\ 0 \in DOMAIN Numeral
    /\ \A m, n \in DOMAIN Numeral : Numeral[m] = Numeral[n] => m = n
    /\ \A n \in DOMAIN Numeral : Numeral[n] \notin {"/", ",", "-"}

ZeroKey == <<[space |-> "", kind |-> <<>>, name |-> <<>>, int |-> 0]>>

Incomplete(k) == Last(k).name = <<>> /\ Last(k).int = 0

Numbers == DOMAIN Numeral \union {-n : n \in DOMAIN Numeral}
Decimal(n) == IF n < 0 THEN <<"-", Numeral[-n]>> ELSE <<Numeral[n]>>
ParseInt(s) ==
    IF \E n \in Numbers : Decimal(n) = s
    THEN CHOOSE n \in Numbers : Decimal(n) = s
    ELSE Failed

Escape(c) ==
    CASE c = "/" -> "%2F" [] c = "," -> "%2C" [] c = "'" -> "%27" [] c = "%" -> "%25"
      [] c = Quote -> "%22" [] c = Backslash -> "%5C" [] c = "nl" -> "%0A"
\* Mutant: names are written as they are.
PathEscape_Raw(s) == s
PathEscape(s) == [i \in DOMAIN s |-> IF s[i] \in Reserved THEN Escape(s[i]) ELSE s[i]]

\* A percent sign that starts no escape is an error, and unmarshal drops it.
PathUnescape(s) ==
    IF "%" \in ToSet(s) THEN <<>>
    ELSE [i \in DOMAIN s |->
            IF \E c \in Reserved : s[i] = Escape(c)
            THEN CHOOSE c \in Reserved : s[i] = Escape(c)
            ELSE s[i]]

MarshalLevel(l) ==
    l.kind \o <<",">> \o IF l.name # <<>>
                         THEN <<"'">> \o PathEscape(l.name) \o <<"'">>
                         ELSE Decimal(l.int)

MarshalKey(k) ==
    LET path[n \in 1..Len(k)] ==
          IF n = 1 THEN MarshalLevel(k[1]) ELSE path[n - 1] \o <<"/">> \o MarshalLevel(k[n])
    IN  path[Len(k)]

Split(s, sep) ==
    LET parts[n \in 0..Len(s)] ==
          IF n = 0 THEN <<<<>>>>
          ELSE IF s[n] = sep THEN Append(parts[n - 1], <<>>)
          ELSE [parts[n - 1] EXCEPT ![Len(parts[n - 1])] = Append(@, s[n])]
    IN  parts[Len(s)]

Quoted(value) == Len(value) > 2 /\ value[1] = "'" /\ Last(value) = "'"

\* One element of the path: whether it can be read, and what is read, into a
\* level that holds nothing yet.
ValidLevel(path) ==
    LET parts == Split(path, ",")
    IN  Len(parts) = 2 /\ (Quoted(parts[2]) \/ \E n \in Numbers : Decimal(n) = parts[2])
UnmarshalLevel(path) ==
    LET parts == Split(path, ",")
        value == parts[2]
        quoted == Quoted(value)
    IN  [space |-> "", kind |-> parts[1],
         name |-> IF quoted THEN PathUnescape(SubSeq(value, 2, Len(value) - 1)) ELSE <<>>,
         int |-> IF quoted THEN 0 ELSE ParseInt(value)]

\* unmarshal goes from the last element to the first and stops at the first
\* bad one; a slash with nothing before it ends it.
UnmarshalKey(text) ==
    LET paths == Split(text, "/")
        levels == IF Len(paths) > 1 /\ Head(paths) = <<>> THEN Tail(paths) ELSE paths
    IN  IF \A i \in DOMAIN levels : ValidLevel(levels[i])
        THEN [i \in DOMAIN levels |-> UnmarshalLevel(levels[i])]
        ELSE Failed

\* Key.Value and the sql.Scanner decoder: an incomplete key is NULL.
KeyValue(k) == IF Incomplete(k) THEN <<"null">> ELSE MarshalKey(k)
ScanKey(text) == IF text = <<"null">> THEN ZeroKey ELSE UnmarshalKey(text)

-----------------------------------------------------------------------------
(* What a key is, and what it is read back as: a path holds neither the     *)
(* namespace nor the number of a level that has a name. Kinds are written   *)
(* without escaping.                                                        *)

Characters(s) == s \in Seq(ToSet(s)) /\ \A i \in DOMAIN s : \A c \in Reserved : s[i] # Escape(c)
IsLevel(l) ==
    /\ l = [space |-> l.space, kind |-> l.kind, name |-> l.name, int |-> l.int]
    /\ l.kind \in Seq(ToSet(l.kind)) /\ Characters(l.name) /\ l.int \in Numbers
IsKey(k) == k \in Seq(ToSet(k)) /\ k # <<>> /\ \A i \in DOMAIN k : IsLevel(k[i])

PlainKinds(k) == \A i \in DOMAIN k : {"/", ","} \cap ToSet(k[i].kind) = {}

LevelAsRead(l) ==
    [space |-> "", kind |-> l.kind, name |-> l.name, int |-> IF l.name = <<>> THEN l.int ELSE 0]
KeyAsRead(k) == IF Incomplete(k) THEN ZeroKey ELSE [i \in DOMAIN k |-> LevelAsRead(k[i])]
=============================================================================
