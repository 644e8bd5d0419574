----------------------------- MODULE Statements -----------------------------
(* A program that keeps one set of conditions and uses it again and again:  *)
(* in Find by several goroutines, each with a context into which            *)
(* resolutions (more conditions) were injected, and in Update and Delete.   *)
(* The slices of contexts and of the action are those of Contexts.          *)

EXTENDS Clauses, Contexts

CONSTANTS
    Programs,      \* [where, room]: the conditions given to Where, and the
                   \* bounds: how many contexts, finds and writes there are,
                   \* what may be injected at once (sequences of trees), the
                   \* pages of a Find ([limit, skip, noLimit])
    Rows,          \* the records of the table, with column "id"
    Settings,      \* what an Update may set: sequences of <<column, value>>
    DefaultLimit   \* 100 in the code

VARIABLES
    where,     \* the trees the program gave to Where
    calls,     \* the page and the answer of the last Find of each goroutine
    table,
    writer,    \* the last Update or Delete
    room       \* what is left of the bounds

vars == <<where, contexts, heap, action, given, finds, calls, table, writer, room>>

-----------------------------------------------------------------------------

Idle == [page |-> [limit |-> 0, skip |-> 0], answer |-> "none", found |-> {}, seen |-> {}]
NoWrite == [kind |-> "none", limit |-> 0, sets |-> <<>>, answer |-> "none",
            changed |-> {}, seen |-> {}]

Conditions == Built(<<"and", where>>)[2]

Init ==
    \E program \in Programs :
       /\ where = program.where
       /\ Begun(Conditions, GroupCapacity(Conditions))
       /\ calls = [c \in Callers |-> Idle]
       /\ table = Rows
       /\ writer = NoWrite
       /\ room = program.room

InjectResolutions(c, queries) ==
    /\ room.contexts > 0
    /\ InjectResolution(c, queries, [i \in DOMAIN queries |-> Built(queries[i])])
    /\ room' = [room EXCEPT !.contexts = @ - 1]
    /\ UNCHANGED <<where, calls, table, writer>>

-----------------------------------------------------------------------------
(* Find. What it appends to the conditions goes through the slice of the    *)
(* caller's action, of which it has a copy.                                 *)

\* Limit(100) unless NoLimit was asked for.
Limited(page) == [limit |-> IF ~page.noLimit /\ page.limit < 1 THEN DefaultLimit ELSE page.limit,
                  skip |-> page.skip]

Find(g, c, page) ==
    /\ room.finds > 0
    /\ FindAppends(g, c)
    /\ calls' = [calls EXCEPT ![g] = [Idle EXCEPT !.page = Limited(page)]]
    /\ room' = [room EXCEPT !.finds = @ - 1]
    /\ UNCHANGED <<where, table, writer>>

\* The server: a WHERE that is there must be a condition, and an OFFSET
\* needs a LIMIT.
TrueOf(truth) == IF truth = Failed THEN Failed ELSE truth.t
Selected(has, cond) == IF has THEN TrueOf(Evaluated(table, Bound(cond))) ELSE table

Remaining(n, page) == Max({n - page.skip, 0})
OnPage(n, page) ==
    IF page.limit = 0 THEN Remaining(n, page) ELSE Min({Remaining(n, page), page.limit})

SelectStmt(g) == BuildGroup(Content(finds[g].slice))

\* The text is written, sent and answered; without ORDER BY which of the
\* rows are on the page is the server's choice.
Query(g) ==
    /\ FindQueries(g)
    /\ \E rows \in {Selected(finds[g].slice.len > 0, SelectStmt(g))} :
          IF rows = Failed \/ (calls[g].page.skip > 0 /\ calls[g].page.limit = 0)
          THEN calls' = [calls EXCEPT ![g].answer = "refused", ![g].seen = table]
          ELSE \E found \in kSubset(OnPage(Cardinality(rows), calls[g].page), rows) :
                 calls' = [calls EXCEPT ![g].answer = "rows", ![g].found = found, ![g].seen = table]
    /\ UNCHANGED <<where, table, writer, room>>

-----------------------------------------------------------------------------
(* Update, UpdateOne, Delete and DeleteOne with the same conditions.        *)

Assigned(r, sets) == FoldLeft(LAMBDA row, set : [row EXCEPT ![set[1]] = set[2]], r, sets)

\* SET and WHERE are one text, and the server takes the arguments in order.
appendSet(sets) == Written([i \in DOMAIN sets |-> getValue(sets[i][2])])
UpdateStmt(sets) == Written(<<appendSet(sets), BuildGroup(Content(action))>>)
SetOf(sets, stmt) == [i \in DOMAIN sets |-> <<sets[i][1], stmt.args[i]>>]
WhereOf(n, stmt) == [text |-> SubSeq(stmt.text, n + 1, Len(stmt.text)),
                     args |-> SubSeq(stmt.args, n + 1, Len(stmt.args))]

Wrote(kind, limit, sets, answer, changed) ==
    writer' = [kind |-> kind, limit |-> limit, sets |-> sets, answer |-> answer,
               changed |-> changed, seen |-> table]

update(sets, limit) ==
    IF sets = <<>>
    THEN Wrote("update", limit, sets, "no value", {}) /\ UNCHANGED table
    ELSE \E stmt \in {UpdateStmt(sets)} :
         \E rows \in {Selected(action.len > 0, WhereOf(Len(sets), stmt))} :
           IF rows = Failed
           THEN Wrote("update", limit, sets, "refused", {}) /\ UNCHANGED table
           ELSE \E some \in kSubset(OnPage(Cardinality(rows), [limit |-> limit, skip |-> 0]), rows) :
                  /\ Wrote("update", limit, sets, "ok", some)
                  /\ table' = (table \ some) \union {Assigned(r, SetOf(sets, stmt)) : r \in some}

DeleteStmt == BuildGroup(Content(action))
deleteMany(limit) ==
    IF action.len = 0
    THEN Wrote("delete", limit, <<>>, "empty condition", {}) /\ UNCHANGED table
    ELSE \E rows \in {Selected(TRUE, DeleteStmt)} :
           IF rows = Failed THEN Wrote("delete", limit, <<>>, "refused", {}) /\ UNCHANGED table
           ELSE \E some \in kSubset(OnPage(Cardinality(rows), [limit |-> limit, skip |-> 0]), rows) :
                  Wrote("delete", limit, <<>>, "ok", some) /\ table' = table \ some

\* Limit 1 is UpdateOne and DeleteOne.
Write(limit) ==
    /\ room.writes > 0
    /\ \/ \E sets \in Settings : update(sets, limit)
       \/ deleteMany(limit)
    /\ room' = [room EXCEPT !.writes = @ - 1]
    /\ UNCHANGED <<where, contexts, heap, action, given, finds, calls>>

Next ==
    \/ \E c \in DOMAIN contexts, queries \in room.resolutions : InjectResolutions(c, queries)
    \/ \E g \in Callers, c \in DOMAIN contexts, page \in room.pages : Find(g, c, page)
    \/ \E g \in Callers : Query(g)
    \/ \E limit \in {0, 1} : Write(limit)

Spec == Init /\ [][Next]_vars

-----------------------------------------------------------------------------
(* Properties.                                                              *)

Asked(rows, trees) ==
    LET meant == Meaning(rows, <<"and", trees>>)
    IN  IF meant = Nothing THEN rows ELSE meant.t

\* A Find that is answered with rows has found what its conditions and every
\* resolution of its context mean: zero conditions left out, nested And and
\* Or read as they are nested, each argument at its own mark. Excepted are
\* slices that another append has changed: of contexts derived from one with
\* room behind its resolutions, and of finds at once through one action.
FindSelects ==
    \A g \in Callers :
       calls[g].answer = "rows" /\ ~finds[g].lost =>
         \E asked \in {Asked(calls[g].seen, where \o contexts[finds[g].context].meant)} :
            /\ calls[g].found \subseteq asked
            /\ Cardinality(calls[g].found) = OnPage(Cardinality(asked), calls[g].page)

RECURSIVE EmptyIn(_)
EmptyIn(tree) ==
    CASE tree[1] \in {"and", "or"} -> \E part \in ToSet(tree[2]) : EmptyIn(part)
      [] tree = None -> FALSE
      [] OTHER -> tree[3] \in {"IN", "NOT IN"} /\ tree[4] = <<>>

Says(tree) == Meaning({}, tree) # Nothing

Unreadable(page, resolutions) ==
    \/ page.skip > 0 /\ page.limit = 0
    \/ \E tree \in ToSet(where \o resolutions) : EmptyIn(tree)
    \/ Len(SelectSeq(resolutions, Says)) > 1
    \/ /\ resolutions # <<>> /\ SelectSeq(resolutions, Says) = <<>>
       /\ Says(<<"and", where>>)

\* The server refuses a Find only for an IN of nothing, an OFFSET without a
\* LIMIT, or resolutions that find does not join: two that say something, or
\* none that does behind an AND; and these it refuses always.
RefusedOnly ==
    \A g \in Callers :
       calls[g].answer # "none" /\ ~finds[g].lost =>
         (calls[g].answer = "refused"
            <=> Unreadable(calls[g].page, contexts[finds[g].context].meant))

\* A write changes rows its conditions select, all of them unless it has a
\* limit, to the values that were set; no DELETE without a condition and no
\* UPDATE that sets nothing is ever executed.
WriteSelects ==
    writer.answer = "ok" =>
      \E asked \in {Asked(writer.seen, where)} :
        /\ writer.changed \subseteq asked
        /\ Cardinality(writer.changed) = OnPage(Cardinality(asked), [limit |-> writer.limit, skip |-> 0])
        /\ writer.kind = "delete" => Says(<<"and", where>>) /\ table = writer.seen \ writer.changed
        /\ writer.kind = "update" =>
             writer.sets # <<>> /\ table = (writer.seen \ writer.changed)
                     \union {Assigned(r, writer.sets) : r \in writer.changed}
=============================================================================
