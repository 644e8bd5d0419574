------------------------------ MODULE Result ------------------------------
(* Table.Find and FindOne and the Result they return (sqlike/find.go,       *)
(* sqlike/result.go), over the rows and the connection pool of              *)
(* database/sql. A result occupies a connection of the pool until its rows  *)
(* are closed; the rows close themselves at their end, and also when their  *)
(* connection or context is lost in the middle.                             *)

EXTENDS Naturals, FiniteSets

CONSTANTS
    Handles,    \* one result each, used by one goroutine
    PoolSize,   \* connections the pool may open
    MaxRows     \* bound: rows that match

ASSUME PoolAssumption == PoolSize \in Nat \ {0}
ASSUME HandlesAssumption == IsFiniteSet(Handles)
ASSUME RowsAssumption == MaxRows \in Nat \ {0}

VARIABLES
    kind,     \* what the handle is: "none" yet, "waiting" for a connection
              \* with either call, the result of "Find" or "FindOne", or
              \* "failed" when Find returned an error
    rows,     \* Result.rows: "nil", "open" or "closed"
    err,      \* Result.err
    total,    \* rows that match the query
    pos,      \* rows read so far
    broken,   \* the rest of the rows will not arrive
    call, ret,  \* the last call, and whether it returned nil
    lent      \* connections of the pool that other calls than these hold

vars == <<kind, rows, err, total, pos, broken, call, ret, lent>>

Kinds == {"none", "waiting Find", "waiting FindOne", "Find", "FindOne", "failed"}
Calls == {"none", "Find", "FindOne", "Next", "Decode", "Scan", "ScanSlice",
          "All", "Error", "Close"}

Busy == {h \in Handles : rows[h] = "open"}
Free == Cardinality(Busy) + lent < PoolSize

TypeOK ==
    /\ kind \in [Handles -> Kinds]
    /\ rows \in [Handles -> {"nil", "open", "closed"}]
    /\ err \in [Handles -> {"none", "ErrNoRows", "query error"}]
    /\ total \in [Handles -> 0..MaxRows] /\ pos \in [Handles -> 0..MaxRows]
    /\ broken \in [Handles -> BOOLEAN]
    /\ call \in [Handles -> Calls] /\ ret \in [Handles -> BOOLEAN]
    /\ \A h \in Handles : pos[h] <= total[h]
    /\ lent \in Nat /\ Cardinality(Busy) + lent <= PoolSize

Init ==
    /\ kind = [h \in Handles |-> "none"]
    /\ rows = [h \in Handles |-> "nil"]
    /\ err = [h \in Handles |-> "none"]
    /\ total = [h \in Handles |-> 0] /\ pos = [h \in Handles |-> 0]
    /\ broken = [h \in Handles |-> FALSE]
    /\ call = [h \in Handles |-> "none"] /\ ret = [h \in Handles |-> TRUE]
    /\ lent = 0

Called(h, c, ok) ==
    /\ call' = [call EXCEPT ![h] = c]
    /\ ret' = [ret EXCEPT ![h] = ok]

SetRows(h, state) == rows' = [rows EXCEPT ![h] = state]

\* Result.Close, and sql.Rows.Close behind it: any number of times.
CloseRows(h) == SetRows(h, IF rows[h] = "nil" THEN "nil" ELSE "closed")

-----------------------------------------------------------------------------
(* Queries *)

Ask(h) ==
    /\ kind[h] = "none"
    /\ \E k \in {"waiting Find", "waiting FindOne"} : kind' = [kind EXCEPT ![h] = k]
    /\ UNCHANGED <<rows, err, total, pos, broken, call, ret, lent>>

\* Find returns no Result with an error.
FindReturns(h) ==
    /\ kind[h] = "waiting Find" /\ Free
    /\ \/ /\ kind' = [kind EXCEPT ![h] = "failed"]
          /\ Called(h, "Find", FALSE)
          /\ UNCHANGED <<rows, total>>
       \/ /\ kind' = [kind EXCEPT ![h] = "Find"]
          /\ SetRows(h, "open")
          /\ \E n \in 0..MaxRows : total' = [total EXCEPT ![h] = n]
          /\ Called(h, "Find", TRUE)
    /\ UNCHANGED <<err, pos, broken, lent>>

\* FindOne asks for one row and moves to it at once. When there is none to
\* move to, because none matches or because it did not arrive, the rows have
\* closed themselves and the error is ErrNoRows.
FindOneReturns(h) ==
    /\ kind[h] = "waiting FindOne" /\ Free
    /\ kind' = [kind EXCEPT ![h] = "FindOne"]
    /\ \/ /\ err' = [err EXCEPT ![h] = "query error"]
          /\ UNCHANGED <<rows, total, pos>>
       \/ \E n \in 0..1 : \E arrives \in 0..n :
             /\ total' = [total EXCEPT ![h] = n]
             /\ pos' = [pos EXCEPT ![h] = arrives]
             /\ err' = [err EXCEPT ![h] = IF arrives = 0 THEN "ErrNoRows" ELSE @]
             /\ SetRows(h, IF arrives = 0 THEN "closed" ELSE "open")
    /\ Called(h, "FindOne", TRUE)
    /\ UNCHANGED <<broken, lent>>

\* The connection breaks, which the next read finds out, or the context of
\* the query ends, on which the rows close themselves sooner or later.
Break(h) ==
    /\ rows[h] = "open"
    /\ SetRows(h, "closed") \/ (~broken[h] /\ UNCHANGED rows)
    /\ broken' = [broken EXCEPT ![h] = TRUE]
    /\ UNCHANGED <<kind, err, total, pos, call, ret, lent>>

-----------------------------------------------------------------------------
(* The methods of Result; a FindOne result offers only Decode, Scan and     *)
(* Error (SingleResult)                                                     *)

Next_(h) ==
    /\ kind[h] = "Find"
    /\ \/ /\ rows[h] = "open" /\ pos[h] < total[h] /\ ~broken[h]
          /\ pos' = [pos EXCEPT ![h] = @ + 1]
          /\ Called(h, "Next", TRUE) /\ UNCHANGED rows
       \/ /\ rows[h] = "closed" \/ pos[h] = total[h] \/ broken[h]
          /\ CloseRows(h)
          /\ Called(h, "Next", FALSE) /\ UNCHANGED pos
    /\ UNCHANGED <<kind, err, total, broken, lent>>

\* The row of values: rows that are open and stand on a row.
OnRow(h) == rows[h] = "open" /\ pos[h] > 0 /\ err[h] = "none"

\* Mutant: the rows of a FindOne stay open, as those of a Find do.
Decode_LeavesOpen(h) ==
    /\ kind[h] \in {"Find", "FindOne"}
    /\ \E ok \in BOOLEAN :
          /\ ok => OnRow(h)
          /\ Called(h, "Decode", ok)
    /\ UNCHANGED <<kind, rows, err, total, pos, broken, lent>>

\* Decode fails off a row or in a decoder; for FindOne it closes either way.
Decode(h) ==
    /\ kind[h] \in {"Find", "FindOne"}
    /\ \E ok \in BOOLEAN :
          /\ ok => OnRow(h)
          /\ Called(h, "Decode", ok)
    /\ IF kind[h] = "FindOne" THEN CloseRows(h) ELSE UNCHANGED rows
    /\ UNCHANGED <<kind, err, total, pos, broken, lent>>

Scan(h) ==
    /\ kind[h] \in {"Find", "FindOne"}
    /\ \E ok \in BOOLEAN :
          /\ ok => OnRow(h)
          /\ Called(h, "Scan", ok)
    /\ CloseRows(h)
    /\ UNCHANGED <<kind, err, total, pos, broken, lent>>

\* Mutant: an error of a decoder leaves before the rows are closed.
ReadAll_LeavesEarly(h) ==
    /\ kind[h] = "Find"
    /\ \E c \in {"All", "ScanSlice"}, ok \in BOOLEAN :
          /\ Called(h, c, ok)
          /\ IF ok THEN CloseRows(h) ELSE UNCHANGED rows
    /\ UNCHANGED <<kind, err, total, pos, broken, lent>>

\* All and ScanSlice read until the rows say there is no next one; why there
\* is none is not asked. They fail on a destination they cannot fill, or in
\* the decoder at any row.
ReadAll(h) ==
    /\ kind[h] = "Find"
    /\ \E c \in {"All", "ScanSlice"}, ok \in BOOLEAN, last \in pos[h]..total[h] :
          /\ rows[h] # "open" => last = pos[h]
          /\ ok /\ rows[h] = "open" /\ ~broken[h] => last = total[h]
          /\ pos' = [pos EXCEPT ![h] = last]
          /\ Called(h, c, ok)
    /\ CloseRows(h)
    /\ UNCHANGED <<kind, err, total, broken, lent>>

Error(h) ==
    /\ kind[h] \in {"Find", "FindOne"}
    /\ CloseRows(h)
    /\ Called(h, "Error", err[h] = "none")
    /\ UNCHANGED <<kind, err, total, pos, broken, lent>>

Close(h) ==
    /\ kind[h] = "Find"
    /\ CloseRows(h)
    /\ Called(h, "Close", TRUE)
    /\ UNCHANGED <<kind, err, total, pos, broken, lent>>

Served(h) == FindReturns(h) \/ FindOneReturns(h)

\* The calls a careful user ends with.
LastCall(h) ==
    \/ kind[h] = "Find" /\ (ReadAll(h) \/ Close(h))
    \/ kind[h] = "FindOne" /\ (Decode(h) \/ Scan(h))

Use(h) == Next_(h) \/ Decode(h) \/ Scan(h) \/ ReadAll(h) \/ Error(h) \/ Close(h)

Next == \E h \in Handles : Ask(h) \/ Served(h) \/ Break(h) \/ Use(h)

Spec == Init /\ [][Next]_vars

-----------------------------------------------------------------------------
(* Properties *)

\* No way out of a call that ends the use of a result leaves its connection
\* occupied: not an error of a decoder, not an empty or broken result.
EndedMeansReleased ==
    \A h \in Handles :
       \/ call[h] \in {"Scan", "ScanSlice", "All", "Error", "Close"}
       \/ call[h] = "Next" /\ ~ret[h]
       \/ call[h] = "Decode" /\ kind[h] = "FindOne"
       \/ call[h] = "FindOne" /\ err[h] # "none"
       => h \notin Busy
===========================================================================
