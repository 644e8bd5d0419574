------------------------------ MODULE Clauses ------------------------------
(* Conditions: what expr.And, expr.Or and their leaves build, the text and  *)
(* arguments the MySQL builder writes for it, how a server reads that text, *)
(* and what the program meant. A condition of the program is a tree of      *)
(* <<"and", parts>>, <<"or", parts>>, <<"none">> (a condition left out: nil *)
(* or a zero value) and leaves <<"C", column, operator, operands>>. The     *)
(* library makes values of it: leaves, <<"raw", token>> and                 *)
(* <<"group", values>>. A text is a sequence of tokens.                     *)

EXTENDS Integers, SequencesExt

CONSTANTS
    NULL,
    Failed,  \* what the server makes of a text that is no condition
    Nothing  \* the meaning of a condition that says nothing

None == <<"none">>
Raw(token) == <<"raw", token>>
Group(values) == <<"group", values>>
\* Equal, NotEqual, ... In, Between, Like, IsNull, NotNull.
C(col, op, operands) == <<"C", col, op, operands>>

-----------------------------------------------------------------------------
(* Building groups (sql/expr).                                              *)

IsZero(cond) == cond \in {None, Group(<<>>)}

Interleaved(conds, op) ==
    FoldLeft(LAMBDA sg, c : IF sg = <<>> THEN <<c>> ELSE sg \o <<Raw(op), c>>, <<>>, conds)

Parenthesized(sg) ==
    Group(IF Len(sg) > 1 THEN <<Raw("(")>> \o sg \o <<Raw(")")>> ELSE sg)

\* Mutant: what joins the conditions is not put in parentheses.
buildGroup_Open(op, conds) == Group(Interleaved(SelectSeq(conds, LAMBDA c : ~IsZero(c)), op))
\* Zero conditions are left out; a group on its own is taken as it is.
buildGroup(op, conds) ==
    IF Len(conds) = 1 /\ Head(conds)[1] = "group" THEN Head(conds)
    ELSE Parenthesized(Interleaved(SelectSeq(conds, LAMBDA c : ~IsZero(c)), op))

RECURSIVE Built(_)
Built(tree) ==
    CASE tree[1] = "and" -> buildGroup("AND", [i \in DOMAIN tree[2] |-> Built(tree[2][i])])
      [] tree[1] = "or" -> buildGroup("OR", [i \in DOMAIN tree[2] |-> Built(tree[2][i])])
      [] OTHER -> tree

\* The array behind the values of a group as append has grown it.
GroupCapacity(values) == IF Len(values) < 2 THEN Len(values) ELSE 2 * (Len(values) - 1)

-----------------------------------------------------------------------------
(* Writing (mySQLBuilder). A statement is its text and its arguments.       *)

Empty == [text |-> <<>>, args |-> <<>>]
Text(tokens) == [text |-> tokens, args |-> <<>>]
Written(parts) ==
    FoldLeft(LAMBDA s, p : [text |-> s.text \o p.text, args |-> s.args \o p.args], Empty, parts)

getValue(v) == [text |-> <<"?">>, args |-> <<v>>]

\* The operands of an IN are a group of their own, with its parentheses.
inGroup(values) ==
    Written([i \in 1..(2 * Len(values) + 1) |->
                IF i % 2 = 0 THEN getValue(values[i \div 2])
                ELSE Text(CASE i = 1 /\ values = <<>> -> <<"(", ")">>
                            [] i = 1 -> <<"(">>
                            [] i = 2 * Len(values) + 1 -> <<")">>
                            [] OTHER -> <<",">>)])

\* Mutant: the bounds of a range are bound the other way round.
BuildRange_Swapped(from, to) == [text |-> <<"?", "AND", "?">>, args |-> <<to, from>>]
BuildRange(from, to) == [text |-> <<"?", "AND", "?">>, args |-> <<from, to>>]

Wildcards == {"%", "_", "\\"}
\* All but the last character of a pattern are literal.
escapeWildCard(s) ==
    FlattenSeq([i \in DOMAIN s |-> IF s[i] \in Wildcards /\ i < Len(s)
                                   THEN <<"\\", s[i]>> ELSE <<s[i]>>])

BuildNil(c) == Text(<<c[2], c[3]>>)
BuildLike(c) ==
    Written(<<Text(<<c[2], c[3]>>),
              getValue(IF c[4][1] = NULL THEN NULL ELSE escapeWildCard(c[4][1]))>>)
BuildClause(c) ==
    Written(<<Text(<<c[2], c[3]>>),
              CASE c[3] \in {"IN", "NOT IN"} -> inGroup(c[4])
                [] c[3] \in {"BETWEEN", "NOT BETWEEN"} -> BuildRange(c[4][1], c[4][2])
                [] OTHER -> getValue(c[4][1])>>)

RECURSIVE BuildGroup(_)
BuildStatement(v) ==
    CASE v[1] = "raw" -> Text(<<v[2]>>)
      [] v[1] = "group" -> BuildGroup(v[2])
      [] v[3] \in {"IS NULL", "IS NOT NULL"} -> BuildNil(v)
      [] v[3] \in {"LIKE", "NOT LIKE"} -> BuildLike(v)
      [] OTHER -> BuildClause(v)
BuildGroup(values) == Written([i \in DOMAIN values |-> BuildStatement(values[i])])

-----------------------------------------------------------------------------
(* The truth of a condition: the rows it is true of and those it is false   *)
(* of; of the others it is NULL.                                            *)

Truth(rows, Yes(_), No(_)) == [t |-> {r \in rows : Yes(r)}, f |-> {r \in rows : No(r)}]

Compare(op, x, v) ==
    CASE op = "=" -> x = v [] op = "<>" -> x # v
      [] op = ">" -> x > v [] op = ">=" -> x >= v
      [] op = "<" -> x < v [] op = "<=" -> x <= v

Negated == ("NOT IN" :> "IN") @@ ("NOT BETWEEN" :> "BETWEEN") @@ ("NOT LIKE" :> "LIKE")
           @@ ("IS NOT NULL" :> "IS NULL")

\* s LIKE pattern; an escape at the very end stands for itself.
RECURSIVE Like(_, _)
Like(s, p) ==
    CASE p = <<>> -> s = <<>>
      [] p[1] = "%" -> \E n \in 0..Len(s) : Like(SubSeq(s, n + 1, Len(s)), Tail(p))
      [] p[1] = "\\" /\ Len(p) > 1 ->
           s # <<>> /\ s[1] = p[2] /\ Like(Tail(s), SubSeq(p, 3, Len(p)))
      [] OTHER -> s # <<>> /\ p[1] \in {s[1], "_"} /\ Like(Tail(s), Tail(p))

\* What the README promises of Like, and the code of its last character.
LikeMeant(s, p) ==
    IF p # <<>> /\ Last(p) \in {"%", "_"}
    THEN IsPrefix(Front(p), s) /\ (Last(p) = "_" => Len(s) = Len(p))
    ELSE s = p

Holds(op, x, v, LikeIt(_, _)) ==
    CASE op = "IN" -> x \in ToSet(v)
      [] op = "BETWEEN" -> v[1] <= x /\ x <= v[2]
      [] op = "LIKE" -> LikeIt(x, v[1])
      [] OTHER -> Compare(op, x, v[1])

\* IS NULL is never NULL. Anything else is NULL for a NULL in the row and,
\* but for an IN that finds its value, for a NULL operand.
Positive(rows, col, op, v, LikeIt(_, _)) ==
    CASE op = "IS NULL" -> Truth(rows, LAMBDA r : r[col] = NULL, LAMBDA r : r[col] # NULL)
      [] op = "IN" -> Truth(rows, LAMBDA r : r[col] # NULL /\ r[col] \in ToSet(v),
                            LAMBDA r : r[col] # NULL /\ r[col] \notin ToSet(v)
                                       /\ NULL \notin ToSet(v))
      [] NULL \in ToSet(v) -> Truth(rows, LAMBDA r : FALSE, LAMBDA r : FALSE)
      [] OTHER -> Truth(rows, LAMBDA r : r[col] # NULL /\ Holds(op, r[col], v, LikeIt),
                        LAMBDA r : r[col] # NULL /\ ~Holds(op, r[col], v, LikeIt))

Not(truth) == [t |-> truth.f, f |-> truth.t]
Leaf(rows, col, op, v, LikeIt(_, _)) ==
    IF op \in DOMAIN Negated THEN Not(Positive(rows, col, Negated[op], v, LikeIt))
    ELSE Positive(rows, col, op, v, LikeIt)

Both(x, y) == IF Failed \in {x, y} THEN Failed ELSE [t |-> x.t \cap y.t, f |-> x.f \cup y.f]
Either(x, y) == IF Failed \in {x, y} THEN Failed ELSE [t |-> x.t \cup y.t, f |-> x.f \cap y.f]

-----------------------------------------------------------------------------
(* The server: binding the arguments, then reading by precedence.           *)

Marks(text, upto) == Cardinality({i \in 1..upto : text[i] = "?"})
Bound(s) == [i \in DOMAIN s.text |->
                <<s.text[i], IF s.text[i] = "?" THEN s.args[Marks(s.text, i)] ELSE NULL>>]

Depth(b, i) == Cardinality({j \in 1..i : b[j][1] = "("}) - Cardinality({j \in 1..i : b[j][1] = ")"})
\* The places where a connective joins two conditions; the AND of a BETWEEN
\* comes two tokens after it.
Joints(b, word) ==
    {i \in DOMAIN b : /\ b[i][1] = word
                      /\ Depth(b, i) = 0
                      /\ ~(word = "AND" /\ i > 2 /\ b[i - 2][1] \in {"BETWEEN", "NOT BETWEEN"})}

Operands(b) == [i \in 1..Marks([j \in DOMAIN b |-> b[j][1]], Len(b)) |->
                   SelectSeq(b, LAMBDA x : x[1] = "?")[i][2]]

\* The shapes of a comparison, as its tokens after the column.
Shape(words) ==
    CASE words[1] \in {"IS NULL", "IS NOT NULL"} -> Len(words) = 1
      [] words[1] \in {"BETWEEN", "NOT BETWEEN"} -> Tail(words) = <<"?", "AND", "?">>
      [] words[1] \in {"IN", "NOT IN"} ->
           /\ Len(words) > 3 /\ words[2] = "(" /\ Last(words) = ")" /\ Len(words) % 2 = 0
           /\ \A i \in 3..(Len(words) - 1) : words[i] = IF i % 2 = 1 THEN "?" ELSE ","
      [] OTHER -> words[1] \notin {"(", ")", "AND", "OR", ",", "?"} /\ Tail(words) = <<"?">>

Comparison(rows, b, words) ==
    IF Len(words) < 2 \/ words[1] \in {"(", ")", "AND", "OR", "?"} THEN Failed
    ELSE IF ~Shape(Tail(words)) THEN Failed
    ELSE Leaf(rows, words[1], words[2], Operands(b), Like)

RECURSIVE Evaluated(_, _)
Split(rows, b, i, Join(_, _)) ==
    Join(Evaluated(rows, SubSeq(b, 1, i - 1)), Evaluated(rows, SubSeq(b, i + 1, Len(b))))
Evaluated(rows, b) ==
    CASE Joints(b, "OR") # {} -> Split(rows, b, Max(Joints(b, "OR")), Either)
      [] Joints(b, "AND") # {} -> Split(rows, b, Max(Joints(b, "AND")), Both)
      [] Len(b) > 2 /\ b[1][1] = "(" /\ Last(b)[1] = ")" -> Evaluated(rows, SubSeq(b, 2, Len(b) - 1))
      [] OTHER -> Comparison(rows, b, [i \in DOMAIN b |-> b[i][1]])

-----------------------------------------------------------------------------
(* What the program meant: conditions left out say nothing, a connective of *)
(* nothing says nothing.                                                    *)

RECURSIVE Meaning(_, _)
Meaning(rows, tree) ==
    IF tree = None THEN Nothing
    ELSE IF tree[1] \notin {"and", "or"} THEN Leaf(rows, tree[2], tree[3], tree[4], LikeMeant)
    ELSE LET parts == {Meaning(rows, part) : part \in ToSet(tree[2])} \ {Nothing}
             All(side) == {r \in rows : \A p \in parts : r \in p[side]}
             Some(side) == {r \in rows : \E p \in parts : r \in p[side]}
         IN  IF parts = {} THEN Nothing
             ELSE IF tree[1] = "and" THEN [t |-> All("t"), f |-> Some("f")]
             ELSE [t |-> Some("t"), f |-> All("f")]
=============================================================================
