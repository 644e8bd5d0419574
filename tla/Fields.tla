------------------------------- MODULE Fields -------------------------------
(* The fields of a struct as the mapper sees them (reflext): which of them  *)
(* are columns, under which names, and how a value is reached through       *)
(* embedded structs. A path is the sequence of names that the code joins    *)
(* with dots, an index the sequence of positions that leads to the field.   *)

EXTENDS Integers, SequencesExt

CONSTANTS
    Structs,  \* the struct types: name -> sequence of declared fields
    Lower,    \* strings.ToLower on the names that occur
    Refused    \* what an operation that returns an error or panics leaves

\* A declared field: its name, the name in its tag ("" for none), the tag's
\* options (name -> value), its type and whether it is embedded or exported.
\* A type is [of, ptr]: a basic type or a struct, or a pointer to one.

IsStruct(type) == type.of \in DOMAIN Structs
Elem(type) == [type EXCEPT !.ptr = FALSE]
Has(f, opt) == opt \in DOMAIN f.opts

TagName(decl) == IF decl.tag # "" THEN decl.tag ELSE decl.name
Skipped(decl) == decl.tag = "-" \/ (~decl.exported /\ ~decl.anon)

Slices == {"bytes", "raw", "line", "polygon", "strings"}
IsNullable(type) == type.ptr \/ type.of \in Slices \cup {"map", "any"}

\* The field at position i of the struct that q is about. It is nested if it
\* belongs to a field that is not embedded: it is part of that one's column.
FieldAt(q, decl, i) ==
    [idx |-> Append(q.idx, i),
     path |-> Append(q.path, TagName(decl)),
     tag |-> TagName(decl),
     opts |-> decl.opts,
     type |-> decl.type,
     null |-> q.null \/ IsNullable(decl.type),
     embed |-> decl.anon /\ IsStruct(decl.type),
     nested |-> q.nested]

\* The structs that the fields of q lead to, but for q's own type again. The
\* fields of an embedded struct without a name of its own go by their names.
Beneath(q, decl, f) ==
    IF ~IsStruct(decl.type) \/ decl.type.of = q.struct THEN <<>>
    ELSE <<[struct |-> decl.type.of, idx |-> f.idx, null |-> f.null,
            path |-> IF decl.anon /\ decl.tag = "" THEN q.path ELSE f.path,
            nested |-> q.nested \/ ~f.embed]>>

\* One struct: its fields, and the structs below.
Declared(q, decls) ==
    FoldLeft(LAMBDA found, i :
               IF Skipped(decls[i]) THEN found
               ELSE LET f == FieldAt(q, decls[i], i)
                    IN  [below |-> found.below \o Beneath(q, decls[i], f), fields |-> Append(found.fields, f)],
             [below |-> <<>>, fields |-> <<>>], [i \in DOMAIN decls |-> i])

\* The loop over the queue, breadth first.
Queued == [struct : DOMAIN Structs, idx : Seq(Nat), path : Seq(STRING), null : BOOLEAN, nested : BOOLEAN]
Visit[queue \in Seq(Queued)] ==
    IF queue = <<>> THEN <<>>
    ELSE LET found == Declared(Head(queue), Structs[Head(queue).struct])
         IN  found.fields \o Visit[Tail(queue) \o found.below]

Less(f, g) ==
    \/ IsStrictPrefix(f.idx, g.idx)
    \/ \E k \in DOMAIN f.idx \cap DOMAIN g.idx :
          /\ f.idx[k] < g.idx[k]
          /\ \A j \in 1..(k - 1) : f.idx[j] = g.idx[j]

FieldsOf ==
    [struct \in DOMAIN Structs |->
        SortSeq(Visit[<<[struct |-> struct, idx |-> <<>>, path |-> <<>>,
                         null |-> FALSE, nested |-> FALSE]>>], Less)]

LowerPath(path) == [i \in DOMAIN path |-> Lower[path[i]]]

\* An earlier property of this name, in whatever case, makes way.
Without(properties, f) ==
    LET at == SelectInSeq(properties, LAMBDA p : <<Lower[p.tag]>> = LowerPath(f.path))
    IN  IF at = 0 THEN properties ELSE RemoveAt(properties, at)

AddField(codec, f) ==
    [names |-> (f.path :> f) @@ codec.names,
     properties |-> Without(codec.properties, f) \o IF f.nested THEN <<>> ELSE <<f>>]

\* getCodec: the fields in the order of their declaration, embedded structs
\* themselves left out.
GetCodec ==
    [struct \in DOMAIN Structs |->
        FoldLeft(AddField, [names |-> <<>>, properties |-> <<>>],
                 SelectSeq(FieldsOf[struct], LAMBDA f : ~f.embed))]

-----------------------------------------------------------------------------
(* Values of Go: tagged, a struct being the sequence of its fields' values. *)

Nil == <<"nil">>
Chars(s) == <<"chars", s>>

ZeroOf(of) ==
    CASE of = "string" -> <<"string", Chars(<<>>)>>
      [] of = "bool" -> <<"bool", FALSE>>
      [] of = "float64" -> <<"float", 0>>
      [] of \in Slices \cup {"map", "any"} -> Nil
      [] of = "currency" -> <<of, "XXX">>
      [] of = "language" -> <<of, "und">>
      [] of = "location" -> <<of, "">>
      [] of = "key" -> <<of, <<[kind |-> "", name |-> Chars(<<>>), id |-> 0]>>>>
      [] of \in {"time", "date", "clock", "point", "uuid"} -> <<of, 0>>
      [] OTHER -> <<"int", 0>>

Zero(type) ==
    LET zero[t \in [of : STRING, ptr : BOOLEAN]] ==
          IF t.ptr THEN Nil
          ELSE IF IsStruct(t)
          THEN <<"struct", [i \in DOMAIN Structs[t.of] |-> zero[Structs[t.of][i].type]]>>
          ELSE ZeroOf(t.of)
    IN  zero[type]

Inner(x, i) == [type |-> Structs[x.type.of][i].type, v |-> x.v[2][i]]

\* FieldByIndexesReadOnly, with the type of what it returns: below an
\* embedded pointer that is nil, a nil pointer of that type.
ValueAt(x, idx) ==
    LET at[n \in 0..Len(idx)] ==
          IF n = 0 THEN x
          ELSE LET outer == at[n - 1]
               IN  IF outer.v = Nil THEN outer ELSE Inner(outer, idx[n])
    IN  at[Len(idx)]

\* FieldByIndexes and then Set: pointers on the way are initialised.
Opened(x) == IF x.v = Nil THEN [x EXCEPT !.v = Zero(Elem(x.type))] ELSE x
WithValue(x, idx, new) ==
    LET at[n \in 0..Len(idx)] == IF n = 0 THEN x ELSE Inner(Opened(at[n - 1]), idx[n])
        set[n \in 0..Len(idx)] ==
          IF n = Len(idx) THEN new
          ELSE [Opened(at[n]).v EXCEPT ![2][idx[n + 1]] = set[n + 1]]
    IN  set[0]
=============================================================================
