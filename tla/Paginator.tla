---------------------------- MODULE Paginator ----------------------------
(* Table.Paginate and the Paginator it returns (sqlike/paginate.go), driven *)
(* by the loop of the README over a table that other clients change between *)
(* its queries. The values of a cursor are read again by NextCursor, one    *)
(* query after the page that showed the cursor's row.                       *)

EXTENDS Keyset, SequencesExt, Ranking

CONSTANTS
    PKs,            \* primary keys; zero is not one (NextCursor refuses it)
    Vals,           \* values of the sort columns
    Absent,         \* no row
    NoValues,       \* Paginator.values before the first cursor
    Counts,         \* row limits a client may ask for
    DefaultCount,   \* the limit for a client that asks for none: 100
    MaxChanges,     \* bound: rows changed by other clients
    MaxFaults       \* bound: queries that fail or break off

Rows == [sort : [1..NSort -> Vals], match : BOOLEAN]

ASSUME PKAssumption == PKs \subseteq Nat \ {0} /\ IsFiniteSet(PKs)
ASSUME ValueAssumption ==
    Vals \subseteq Int /\ Absent \notin Rows /\ NoValues \notin [Columns -> Int]
ASSUME CountAssumption == Counts \subseteq Nat /\ DefaultCount \in Nat \ {0, 1}

VARIABLES
    table,      \* the rows, and whether they satisfy the client's conditions
    pc,         \* where the client is in its loop
    count,      \* action.Count
    values,     \* Paginator.values: the key of the cursor
    page,       \* the rows of the last All
    seen,       \* history: the rows of all pages
    touched,    \* history: rows another client changed
    moved,      \* history: a cursor's row changed before NextCursor read it
    cut,        \* history: a page broke off and the client was not told
    changes, faults

clientVars == <<pc, count, values, page, seen>>
historyVars == <<touched, moved, cut, changes, faults>>
vars == <<table, clientVars, historyVars>>

TypeOK ==
    /\ table \in [PKs -> Rows \cup {Absent}]
    /\ pc \in {"new", "refused", "all", "cursor", "done", "failed",
              "panicked"}
    /\ count \in Nat
    /\ values = NoValues \/ values \in [Columns -> Int]
    /\ page \in Seq(PKs) /\ seen \in Seq(PKs)
    /\ pc \in {"all", "cursor"} => count > 1
    /\ Len(page) <= count
    /\ changes \in Nat /\ faults \in Nat

Init ==
    /\ table \in [PKs -> Rows \cup {Absent}]
    /\ pc = "new" /\ count = 0 /\ values = NoValues
    /\ page = <<>> /\ seen = <<>>
    /\ touched = {} /\ moved = FALSE /\ cut = FALSE
    /\ changes = 0 /\ faults = 0

-----------------------------------------------------------------------------
(* Queries *)

Key(p) == [i \in Columns |-> IF i = PK THEN p ELSE table[p].sort[i]]

Matching == {p \in PKs : table[p] # Absent /\ table[p].match}

\* The rows of buildAction's WHERE: the client's conditions and, after the
\* first page, the cursor's filter.
Selected ==
    {p \in Matching : values = NoValues \/ InPage(Key(p), values)}

\* ORDER BY over the same columns.
Ordered(S) == Arranged(S, {pq \in S \X S : SortsAfter(Key(pq[2]), Key(pq[1]))})

\* LIMIT.
Limited(rows) == SubSeq(rows, 1, IF Len(rows) < count THEN Len(rows) ELSE count)

-----------------------------------------------------------------------------
(* The client *)

\* Mutant: a limit of one row is accepted.
Paginate_AnyLimit ==
    /\ pc = "new"
    /\ \E n \in Counts :
          /\ count' = IF n = 0 THEN DefaultCount ELSE n
          /\ pc' = "all"
    /\ UNCHANGED <<table, values, page, seen, historyVars>>

\* Table.Paginate: a limit of one row would never get past the cursor.
Paginate ==
    /\ pc = "new"
    /\ \E n \in Counts :
          \/ n = 1 /\ pc' = "refused" /\ UNCHANGED count
          \/ /\ n # 1
             /\ count' = IF n = 0 THEN DefaultCount ELSE n
             /\ pc' = "all"
    /\ UNCHANGED <<table, values, page, seen, historyVars>>

\* The row a page starts with again, the last of the page before, counts once.
Shown(rows) ==
    IF seen # <<>> /\ rows # <<>> /\ Last(seen) = Head(rows)
    THEN seen \o Tail(rows) ELSE seen \o rows

Show(rows) ==
    /\ page' = rows
    /\ seen' = Shown(rows)
    /\ pc' = IF rows = <<>> THEN "done" ELSE "cursor"

All ==
    /\ pc = "all"
    /\ UNCHANGED <<table, count, values, historyVars>>
    /\ \E rows \in {Limited(Ordered(Selected))} : Show(rows)

\* The rows break off on their way: Result.All takes the end of the rows for
\* the end of the page and returns no error.
AllCutShort ==
    /\ pc = "all" /\ faults < MaxFaults
    /\ LET rows == Limited(Ordered(Selected))
       IN \E n \in 0..(Len(rows) - 1) : Show(SubSeq(rows, 1, n))
    /\ cut' = TRUE
    /\ faults' = faults + 1
    /\ UNCHANGED <<table, count, values, touched, moved, changes>>

\* NextCursor with the last row's primary key reads the row's sort columns;
\* EOF when the row is gone, and the Paginator is back before its first page.
\* The client's loop ends on an error or when the page was not full.
NextCursor ==
    /\ pc = "cursor"
    /\ LET cursor == Last(page)
       IN  \/ table[cursor] = Absent /\ values' = NoValues /\ pc' = "failed"
           \/ /\ table[cursor] # Absent
              /\ values' = Key(cursor)
              /\ pc' = IF Len(page) <= count - 1 THEN "done" ELSE "all"
    /\ UNCHANGED <<table, count, page, seen, historyVars>>

\* A query that fails at once ends the loop: All returns its error, NextCursor
\* panics, for it asks for the next row of a result that has no rows.
QueryFails ==
    /\ pc \in {"all", "cursor"} /\ faults < MaxFaults
    /\ faults' = faults + 1
    /\ pc' = IF pc = "all" THEN "failed" ELSE "panicked"
    /\ UNCHANGED <<table, count, values, page, seen, touched, moved, cut, changes>>

-----------------------------------------------------------------------------
(* Other clients *)

Change(p, row) ==
    /\ changes < MaxChanges
    /\ table' = [table EXCEPT ![p] = row]
    /\ touched' = touched \cup {p}
    /\ moved' = (moved \/ (pc = "cursor" /\ p = Last(page)))
    /\ changes' = changes + 1
    /\ UNCHANGED <<clientVars, cut, faults>>

Insert(p) == table[p] = Absent /\ \E row \in Rows : Change(p, row)

Update(p) == table[p] # Absent /\ \E row \in Rows \ {table[p]} : Change(p, row)

Delete(p) == table[p] # Absent /\ Change(p, Absent)

Client == Paginate \/ All \/ NextCursor

Others == \E p \in PKs : Insert(p) \/ Update(p) \/ Delete(p)

Next == Client \/ AllCutShort \/ QueryFails \/ Others

Spec == Init /\ [][Next]_vars

\* The client goes on as long as its calls return.
FairSpec == Spec /\ WF_vars(Client)

-----------------------------------------------------------------------------
(* Properties *)

\* A traversal that ends well has shown every row that was there, satisfied
\* the conditions and was left alone all the time, whatever happened to the
\* other rows in between.
StableRowsSeen ==
    pc = "done" /\ ~moved /\ ~cut
       => \A p \in Matching \ touched : \E i \in DOMAIN seen : seen[i] = p

\* Rows that were left alone are shown in the order asked for, and once: only
\* the row a page ends with is shown again, as the first row of the next.
SeenInOrder ==
    ~moved =>
       \A i, j \in DOMAIN seen :
          i < j /\ {seen[i], seen[j]} \cap touched = {}
             => SortsAfter(Key(seen[j]), Key(seen[i]))

\* The loop of the README comes to its end. That is why Paginate refuses a
\* limit of one row: the cursor's row alone would fill every page.
TraversalEnds == pc = "all" ~> pc \in {"done", "failed", "panicked"}

\* Where the next page starts in the list of all rows.
Position ==
    IF values = NoValues THEN 1
    ELSE 1 + Cardinality({p \in Matching : SortsAfter(values, Key(p))})

Phase == CASE pc = "all" -> "show" [] pc = "cursor" -> "move"
           [] pc = "done" -> "end" [] OTHER -> pc

Listed == Ordered(Matching)

WindowOf == INSTANCE WindowScan WITH
    list <- Listed, size <- count, pos <- Position, shown <- page, phase <- Phase

\* As long as nobody changes the table and no query breaks off, the pages are
\* the windows of one sorted list.
PagesAreWindows ==
    [][changes' = 0 /\ faults' = 0
         => WindowOf!WNext \/ UNCHANGED WindowOf!wvars]_vars
===========================================================================
