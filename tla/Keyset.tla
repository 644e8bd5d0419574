------------------------------ MODULE Keyset ------------------------------
(* The arithmetic of sqlike's cursor pagination (sqlike/paginate.go): the   *)
(* sort key of a row, the order the database sorts by, and the filter that  *)
(* Paginator.buildAction adds for a cursor. A key is the row's user sort    *)
(* columns followed by its primary key; all of them are NOT NULL.           *)

EXTENDS Integers

CONSTANTS
    NSort,   \* number of columns the user sorts by
    Desc     \* the user sort columns (positions) that sort descending

ASSUME NSortAssumption == NSort \in Nat
ASSUME DescAssumption == Desc \subseteq 1..NSort

Columns == 1..(NSort + 1)
PK == NSort + 1

\* Paginate sorts by the primary key last, in the direction of the last user
\* column, ascending when there is none.
Descending(i) == IF i = PK THEN NSort \in Desc ELSE i \in Desc

\* expr.GreaterThan or expr.LesserThan, by the direction of the column.
After(i, a, b) == IF Descending(i) THEN a < b ELSE a > b

\* expr.GreaterOrEqual or expr.LesserOrEqual.
NotBefore(i, a, b) == IF Descending(i) THEN a <= b ELSE a >= b

\* ORDER BY over the columns of the key: key k sorts strictly after key c.
SortsAfter(k, c) ==
    \E i \in Columns :
       /\ After(i, k[i], c[i])
       /\ \A j \in Columns : j < i => k[j] = c[j]

\* Mutant: the filter forgets the columns it ties on.
InPage_OnlyOr(k, c) ==
    \/ \E i \in 1..NSort : After(i, k[i], c[i])
    \/ NotBefore(PK, k[PK], c[PK])

\* Mutant: the strict comparisons are joined by And where Or is meant.
InPage_And(k, c) ==
    /\ \A i \in 1..NSort : After(i, k[i], c[i])
    /\ NotBefore(PK, k[PK], c[PK])

\* Mutant: the page starts behind the cursor's row.
InPage_Strict(k, c) ==
    /\ \A i \in 1..NSort : NotBefore(i, k[i], c[i])
    /\ \E i \in Columns : After(i, k[i], c[i])

\* buildAction: every user column at or after the cursor's, and one of them
\* strictly after or the primary key at or after.
InPage(k, c) ==
    /\ \A i \in 1..NSort : NotBefore(i, k[i], c[i])
    /\ \/ \E i \in 1..NSort : After(i, k[i], c[i])
       \/ NotBefore(PK, k[PK], c[PK])

\* What the filter is for: the cursor's row and the rows sorted after it.
AtOrAfter(k, c) == k = c \/ SortsAfter(k, c)
===========================================================================
