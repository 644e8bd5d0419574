-------------------------- MODULE PaginatorProofs --------------------------
(* Theorems about Paginator: for every table, limit and number of changes   *)
(* and faults a traversal never goes back, and with at most one sort column *)
(* it leaves no row behind and shows the windows of one list.               *)

EXTENDS Paginator, ListProofs

-----------------------------------------------------------------------------
(* The filter of a page, for all keys. *)

Keys == [Columns -> Int]

\* No column compares both ways, and every two values compare.
LEMMA Trichotomy ==
  ASSUME NEW i \in Columns, NEW a \in Int, NEW b \in Int
  PROVE  /\ NotBefore(i, a, b) <=> After(i, a, b) \/ a = b
         /\ ~(After(i, a, b) /\ After(i, b, a))
         /\ After(i, a, b) \/ After(i, b, a) \/ a = b
BY DEF NotBefore, After

\* With at most one user sort column the filter is exact: buildAction selects
\* the cursor's row and the rows the database sorts after it, and no others.
THEOREM FilterExact ==
  ASSUME NSort \in {0, 1}, NEW k \in Keys, NEW c \in Keys
  PROVE  InPage(k, c) <=> AtOrAfter(k, c)
<1>1. CASE NSort = 0
  <2>1. Columns = {1} /\ PK = 1 /\ 1..NSort = {}
    BY <1>1 DEF Columns, PK
  <2>2. InPage(k, c) <=> NotBefore(1, k[1], c[1])
    BY <2>1 DEF InPage
  <2>3. SortsAfter(k, c) <=> After(1, k[1], c[1])
    BY <2>1 DEF SortsAfter
  <2>4. k = c <=> k[1] = c[1]
    BY <2>1 DEF Keys
  <2>5. k[1] \in Int /\ c[1] \in Int
    BY <2>1 DEF Keys
  <2>6. QED
    BY <2>1, <2>2, <2>3, <2>4, <2>5, Trichotomy DEF AtOrAfter
<1>2. CASE NSort = 1
  <2>1. Columns = {1, 2} /\ PK = 2 /\ 1..NSort = {1}
    BY <1>2 DEF Columns, PK
  <2>2. InPage(k, c) <=> /\ NotBefore(1, k[1], c[1])
                         /\ After(1, k[1], c[1]) \/ NotBefore(2, k[2], c[2])
    BY <2>1 DEF InPage
  <2>3. SortsAfter(k, c) <=> \/ After(1, k[1], c[1])
                             \/ k[1] = c[1] /\ After(2, k[2], c[2])
    BY <2>1 DEF SortsAfter
  <2>4. k = c <=> k[1] = c[1] /\ k[2] = c[2]
    BY <2>1 DEF Keys
  <2>5. k[1] \in Int /\ c[1] \in Int /\ k[2] \in Int /\ c[2] \in Int
    BY <2>1 DEF Keys
  <2>6. QED
    BY <2>1, <2>2, <2>3, <2>4, <2>5, Trichotomy DEF AtOrAfter
<1>3. QED
  BY <1>1, <1>2

\* For any number of user sort columns the filter never selects a row that
\* sorts before the cursor's: a page may lose rows but never goes back.
THEOREM FilterNeverGoesBack ==
  ASSUME NEW k \in Keys, NEW c \in Keys, InPage(k, c)
  PROVE  ~SortsAfter(c, k)
<1> SUFFICES ASSUME NEW i \in Columns, After(i, c[i], k[i]),
                    \A j \in Columns : j < i => c[j] = k[j]
             PROVE  FALSE
  BY DEF SortsAfter
<1>1. k[i] \in Int /\ c[i] \in Int
  BY DEF Keys
<1>2. CASE i \in 1..NSort
  <2>1. NotBefore(i, k[i], c[i])
    BY <1>2 DEF InPage
  <2>2. QED
    BY <1>1, <2>1, Trichotomy
<1>3. CASE i = PK
  <2>1. \A j \in 1..NSort : j \in Columns /\ j < i /\ k[j] \in Int /\ c[j] = k[j]
    BY <1>3, NSortAssumption DEF Columns, PK, Keys
  <2>2. \A j \in 1..NSort : ~After(j, k[j], c[j])
    BY <2>1, Trichotomy
  <2>3. NotBefore(PK, k[PK], c[PK])
    BY <2>2 DEF InPage
  <2>4. QED
    BY <1>1, <1>3, <2>3, Trichotomy
<1>4. QED
  BY <1>2, <1>3, NSortAssumption DEF Columns, PK

-----------------------------------------------------------------------------
(* The order of the keys *)

LEMMA ColumnsAre == PK \in Columns /\ Columns \subseteq Nat /\ IsFiniteSet(Columns)
<1>1. NSort \in Nat
  BY NSortAssumption
<1>2. 1 \in Int /\ NSort + 1 \in Int
  BY <1>1
<1>3. IsFiniteSet(1..(NSort + 1))
  BY <1>2, FS_Interval
<1>4. PK \in Columns /\ Columns \subseteq Nat
  BY <1>1 DEF PK, Columns
<1> QED
  BY <1>3, <1>4 DEF Columns

LEMMA AfterOrders ==
  ASSUME NEW i \in Columns, NEW a \in Int, NEW b \in Int, NEW c \in Int
  PROVE  /\ ~After(i, a, a)
         /\ After(i, a, b) /\ After(i, b, c) => After(i, a, c)
BY DEF After

\* The rows of a page have an order: keys compare, and no two ways.
LEMMA KeysOrdered ==
  ASSUME NEW k \in Keys, NEW c \in Keys
  PROVE  /\ ~SortsAfter(k, k)
         /\ k = c \/ SortsAfter(k, c) \/ SortsAfter(c, k)
<1>1. \A i \in Columns : k[i] \in Int /\ c[i] \in Int
  BY DEF Keys
<1>2. ~SortsAfter(k, k)
  BY <1>1, AfterOrders DEF SortsAfter
<1>3. ASSUME k # c PROVE SortsAfter(k, c) \/ SortsAfter(c, k)
  <2> DEFINE D == {i \in Columns : k[i] # c[i]}
  <2>1. D # {}
    BY <1>3 DEF Keys
  <2>2. D \in SUBSET Nat /\ IsFiniteSet(D)
    <3>1. D \in SUBSET Columns
      OBVIOUS
    <3> QED
      BY <3>1, ColumnsAre, FS_Subset
  <2>3. PICK i \in D : \A j \in D : i <= j
    BY <2>1, <2>2, FirstAndLast
  <2>4. \A j \in Columns : j < i => k[j] = c[j]
    <3> SUFFICES ASSUME NEW j \in Columns, j < i, k[j] # c[j] PROVE FALSE
      OBVIOUS
    <3>1. i <= j
      BY <2>3
    <3>2. i \in Nat /\ j \in Nat
      BY <2>2, ColumnsAre
    <3> QED
      BY <3>1, <3>2
  <2>5. i \in Columns /\ k[i] # c[i]
    OBVIOUS
  <2> HIDE DEF D
  <2>6. After(i, k[i], c[i]) \/ After(i, c[i], k[i])
    BY <1>1, <2>5, Trichotomy
  <2>7. \A j \in Columns : j < i => c[j] = k[j]
    BY <2>4
  <2> QED
    BY <2>4, <2>5, <2>6, <2>7 DEF SortsAfter
<1> QED
  BY <1>2, <1>3

LEMMA KeysTransitive ==
  ASSUME NEW a \in Keys, NEW b \in Keys, NEW c \in Keys,
         SortsAfter(a, b), SortsAfter(b, c)
  PROVE  SortsAfter(a, c)
<1>1. PICK i \in Columns : After(i, a[i], b[i]) /\ \A h \in Columns : h < i => a[h] = b[h]
  BY DEF SortsAfter
<1>2. PICK j \in Columns : After(j, b[j], c[j]) /\ \A h \in Columns : h < j => b[h] = c[h]
  BY DEF SortsAfter
<1>3. \A h \in Columns : a[h] \in Int /\ b[h] \in Int /\ c[h] \in Int
  BY DEF Keys
<1>4. \A h \in Columns : h \in Nat
  BY ColumnsAre
<1>5. CASE i < j
  <2>1. \A h \in Columns : h < i => a[h] = c[h]
    BY <1>1, <1>2, <1>4, <1>5
  <2>2. After(i, a[i], c[i])
    BY <1>1, <1>2, <1>5
  <2> QED
    BY <2>1, <2>2 DEF SortsAfter
<1>6. CASE j < i
  <2>1. \A h \in Columns : h < j => a[h] = c[h]
    BY <1>1, <1>2, <1>4, <1>6
  <2>2. After(j, a[j], c[j])
    BY <1>1, <1>2, <1>6
  <2> QED
    BY <2>1, <2>2 DEF SortsAfter
<1>7. CASE i = j
  <2>1. \A h \in Columns : h < i => a[h] = c[h]
    BY <1>1, <1>2, <1>7
  <2>2. After(i, a[i], c[i])
    BY <1>1, <1>2, <1>3, <1>7, AfterOrders
  <2> QED
    BY <2>1, <2>2 DEF SortsAfter
<1> QED
  BY <1>4, <1>5, <1>6, <1>7

\* A cursor's filter and the order agree on what is not before the cursor.
LEMMA InPageFollows ==
  ASSUME NEW k \in Keys, NEW c \in Keys, InPage(k, c)
  PROVE  k = c \/ SortsAfter(k, c)
BY FilterNeverGoesBack, KeysOrdered

-----------------------------------------------------------------------------
(* The rows of a page *)

TableTyped == table \in [PKs -> Rows \cup {Absent}]

LEMMA KeyTyped ==
  ASSUME TableTyped, NEW p \in PKs, table[p] # Absent
  PROVE  Key(p) \in Keys /\ Key(p)[PK] = p
<1>1. table[p].sort \in [1..NSort -> Vals]
  BY DEF TableTyped, Rows
<1>2. \A i \in Columns : i = PK \/ i \in 1..NSort
  BY NSortAssumption DEF Columns, PK
<1>3. \A i \in 1..NSort : table[p].sort[i] \in Int
  BY <1>1, ValueAssumption
<1>4. p \in Int
  BY PKAssumption
<1> QED
  BY <1>2, <1>3, <1>4, ColumnsAre DEF Key, Keys

LEMMA MatchingTyped ==
  ASSUME TableTyped, NEW p \in Matching
  PROVE  p \in PKs /\ table[p] # Absent /\ Key(p) \in Keys /\ Key(p)[PK] = p
BY KeyTyped DEF Matching

SortOrder(S) == {pq \in S \X S : SortsAfter(Key(pq[2]), Key(pq[1]))}

LEMMA RowsOrdered ==
  ASSUME TableTyped, NEW S \in SUBSET Matching
  PROVE  IsFiniteSet(S) /\ Orders(SortOrder(S), S)
<1>1. IsFiniteSet(S)
  BY PKAssumption, FS_Subset DEF Matching
<1>2. \A p, q : <<p, q>> \in SortOrder(S) <=> p \in S /\ q \in S /\ SortsAfter(Key(q), Key(p))
  BY DEF SortOrder
<1>3. \A p \in S : p \in Matching /\ Key(p) \in Keys /\ Key(p)[PK] = p
  BY MatchingTyped
<1>4. \A p \in S : <<p, p>> \notin SortOrder(S)
  BY <1>2, <1>3, KeysOrdered
<1>5. \A p, q, r \in S :
         <<p, q>> \in SortOrder(S) /\ <<q, r>> \in SortOrder(S) => <<p, r>> \in SortOrder(S)
  BY <1>2, <1>3, KeysTransitive
<1>6. \A p, q \in S : p = q \/ <<p, q>> \in SortOrder(S) \/ <<q, p>> \in SortOrder(S)
  BY <1>2, <1>3, KeysOrdered
<1> QED
  BY <1>1, <1>4, <1>5, <1>6 DEF Orders

\* What ORDER BY gives: all rows of the set, each once, in the order.
LEMMA OrderedRows ==
  ASSUME TableTyped, NEW S \in SUBSET Matching
  PROVE  /\ Ordered(S) \in Seq(S)
         /\ Len(Ordered(S)) = Cardinality(S) /\ Cardinality(S) \in Nat
         /\ \A p \in S : \E k \in 1..Len(Ordered(S)) : Ordered(S)[k] = p
         /\ \A i, j \in 1..Len(Ordered(S)) :
               i < j => SortsAfter(Key(Ordered(S)[j]), Key(Ordered(S)[i]))
<1> DEFINE a == Arranged(S, SortOrder(S))
<1>1. IsFiniteSet(S) /\ Orders(SortOrder(S), S)
  BY RowsOrdered
<1>2. /\ Cardinality(S) \in Nat /\ a \in Seq(S) /\ Len(a) = Cardinality(S)
      /\ \A x \in S : \E k \in 1..Cardinality(S) : a[k] = x
      /\ \A i, j \in 1..Cardinality(S) : i < j => <<a[i], a[j]>> \in SortOrder(S)
  BY <1>1, ArrangedInOrder
<1>3. Ordered(S) = a
  BY DEF Ordered, SortOrder
<1> HIDE DEF a
<1>4. \A p, q : <<p, q>> \in SortOrder(S) => SortsAfter(Key(q), Key(p))
  BY DEF SortOrder
<1> QED
  BY <1>2, <1>3, <1>4

\* A page: rows the query selects, in the order, no more than asked for.
IsPage(rows) ==
    /\ rows \in Seq(Selected) /\ Len(rows) <= count
    /\ \A i, j \in 1..Len(rows) : i < j => SortsAfter(Key(rows[j]), Key(rows[i]))

\* What the query selects and the page leaves out comes later.
LeavesLater(rows) ==
    \A p \in Selected :
       \/ \E k \in 1..Len(rows) : rows[k] = p
       \/ Len(rows) = count /\ SortsAfter(Key(p), Key(Last(rows)))

LEMMA SelectedTyped ==
  ASSUME TableTyped
  PROVE  Selected \in SUBSET Matching /\ Selected \subseteq PKs
BY DEF Selected, Matching

\* The first rows of what is selected make a page.
LEMMA FirstRows ==
  ASSUME TableTyped, NEW n \in Nat, n <= Len(Ordered(Selected)), n <= count, count \in Nat,
         NEW rows, rows \in Seq(Selected), Len(rows) = n,
         \A k \in 1..n : rows[k] = Ordered(Selected)[k]
  PROVE  IsPage(rows)
<1> DEFINE o == Ordered(Selected)
<1>1. /\ o \in Seq(Selected)
      /\ \A i, j \in 1..Len(o) : i < j => SortsAfter(Key(o[j]), Key(o[i]))
  BY SelectedTyped, OrderedRows
<1> HIDE DEF o
<1>2. Len(o) \in Nat
  BY <1>1
<1>3. \A k \in 1..n : k \in 1..Len(o) /\ rows[k] = o[k]
  BY <1>2 DEF o
<1> QED
  BY <1>1, <1>3 DEF IsPage

LEMMA LimitedRows ==
  ASSUME TableTyped, count \in Nat
  PROVE  LET rows == Limited(Ordered(Selected))
             o    == Ordered(Selected)
         IN  /\ rows \in Seq(Selected) /\ Len(rows) \in Nat
             /\ Len(rows) = IF Len(o) < count THEN Len(o) ELSE count
             /\ \A k \in 1..Len(rows) : rows[k] = o[k]
<1> DEFINE o == Ordered(Selected)
           n == IF Len(o) < count THEN Len(o) ELSE count
           rows == Limited(o)
<1>1. o \in Seq(Selected)
  BY SelectedTyped, OrderedRows
<1>2. rows = SubSeq(o, 1, n)
  BY DEF Limited
<1> HIDE DEF o, rows
<1>3. n \in Nat /\ n <= Len(o)
  BY <1>1
<1> HIDE DEF n
<1>4. rows \in Seq(Selected) /\ Len(rows) = n /\ \A k \in 1..n : rows[k] = o[k]
  BY <1>1, <1>2, <1>3
<1> QED
  BY <1>3, <1>4 DEF n, rows, o

LEMMA LimitedIsPage ==
  ASSUME TableTyped, count \in Nat
  PROVE  IsPage(Limited(Ordered(Selected)))
<1> DEFINE rows == Limited(Ordered(Selected))
<1>1. /\ rows \in Seq(Selected) /\ Len(rows) \in Nat
      /\ Len(rows) = IF Len(Ordered(Selected)) < count THEN Len(Ordered(Selected)) ELSE count
      /\ \A k \in 1..Len(rows) : rows[k] = Ordered(Selected)[k]
  BY LimitedRows
<1>2. Len(Ordered(Selected)) \in Nat
  BY SelectedTyped, OrderedRows
<1>3. Len(rows) <= Len(Ordered(Selected)) /\ Len(rows) <= count
  BY <1>1, <1>2
<1> QED
  BY <1>1, <1>3, FirstRows

LEMMA CutIsPage ==
  ASSUME TableTyped, count \in Nat, NEW n \in 0..(Len(Limited(Ordered(Selected))) - 1)
  PROVE  IsPage(SubSeq(Limited(Ordered(Selected)), 1, n))
<1> DEFINE rows == Limited(Ordered(Selected))
           first == SubSeq(rows, 1, n)
<1>1. /\ rows \in Seq(Selected) /\ Len(rows) \in Nat
      /\ Len(rows) = IF Len(Ordered(Selected)) < count THEN Len(Ordered(Selected)) ELSE count
      /\ \A k \in 1..Len(rows) : rows[k] = Ordered(Selected)[k]
  BY LimitedRows
<1>2. Len(Ordered(Selected)) \in Nat
  BY SelectedTyped, OrderedRows
<1>3. /\ n \in Nat /\ n <= Len(rows) /\ n <= Len(Ordered(Selected)) /\ n <= count
  BY <1>1, <1>2
<1> HIDE DEF rows
<1>4. first \in Seq(Selected) /\ Len(first) = n /\ \A k \in 1..n : first[k] = rows[k]
  BY <1>1, <1>3
<1>5. \A k \in 1..n : first[k] = Ordered(Selected)[k]
  BY <1>1, <1>3, <1>4
<1> HIDE DEF first
<1>6. IsPage(first)
  BY <1>3, <1>4, <1>5, FirstRows
<1> QED
  BY <1>6 DEF first, rows

LEMMA LimitedLeavesLater ==
  ASSUME TableTyped, count \in Nat, count > 0
  PROVE  LeavesLater(Limited(Ordered(Selected)))
<1> DEFINE rows == Limited(Ordered(Selected))
           o == Ordered(Selected)
<1>1. /\ rows \in Seq(Selected) /\ Len(rows) \in Nat
      /\ Len(rows) = IF Len(o) < count THEN Len(o) ELSE count
      /\ \A k \in 1..Len(rows) : rows[k] = o[k]
  BY LimitedRows
<1>2. /\ o \in Seq(Selected) /\ Len(o) \in Nat
      /\ \A p \in Selected : \E k \in 1..Len(o) : o[k] = p
      /\ \A i, j \in 1..Len(o) : i < j => SortsAfter(Key(o[j]), Key(o[i]))
  BY SelectedTyped, OrderedRows
<1> HIDE DEF rows, o
<1> SUFFICES ASSUME NEW p \in Selected, \A k \in 1..Len(rows) : rows[k] # p
             PROVE  Len(rows) = count /\ SortsAfter(Key(p), Key(Last(rows)))
  BY DEF LeavesLater, rows, o
<1>3. PICK k \in 1..Len(o) : o[k] = p
  BY <1>2
<1>4. Len(rows) < k
  <2>1. k \notin 1..Len(rows)
    BY <1>1, <1>3
  <2>2. k \in Nat /\ k >= 1 /\ Len(rows) \in Nat
    BY <1>1, <1>2
  <2> QED
    BY <2>1, <2>2
<1>5. Len(rows) = count
  BY <1>1, <1>2, <1>4
<1>6. Len(rows) \in 1..Len(o) /\ Len(rows) \in 1..Len(rows)
  <2>1. Len(rows) \in Nat /\ Len(rows) > 0
    BY <1>5
  <2>2. Len(rows) <= Len(o)
    BY <1>2, <1>4, <2>1
  <2> QED
    BY <1>2, <2>1, <2>2
<1>7. Last(rows) = o[Len(rows)]
  BY <1>1, <1>6 DEF Last
<1> QED
  BY <1>2, <1>3, <1>4, <1>5, <1>6, <1>7

LEMMA Appended ==
  ASSUME NEW S, NEW s \in Seq(S), NEW t \in Seq(S)
  PROVE  /\ s \o t \in Seq(S) /\ Len(s \o t) = Len(s) + Len(t)
         /\ \A i \in 1..Len(s) : (s \o t)[i] = s[i]
         /\ \A k \in 1..Len(t) : (s \o t)[Len(s) + k] = t[k]
<1>1. /\ s \o t \in Seq(S) /\ Len(s \o t) = Len(s) + Len(t)
      /\ Len(s) \in Nat /\ Len(t) \in Nat
      /\ \A i \in 1..(Len(s) + Len(t)) :
            (s \o t)[i] = IF i <= Len(s) THEN s[i] ELSE t[i - Len(s)]
  OBVIOUS
<1>2. ASSUME NEW i \in 1..Len(s) PROVE (s \o t)[i] = s[i]
  <2>1. i \in 1..(Len(s) + Len(t)) /\ i <= Len(s)
    BY <1>1
  <2> QED
    BY <1>1, <2>1
<1>3. ASSUME NEW k \in 1..Len(t) PROVE (s \o t)[Len(s) + k] = t[k]
  <2>1. /\ Len(s) + k \in 1..(Len(s) + Len(t)) /\ ~(Len(s) + k <= Len(s))
        /\ (Len(s) + k) - Len(s) = k
    BY <1>1
  <2> QED
    BY <1>1, <2>1
<1> QED
  BY <1>1, <1>2, <1>3

\* Show appends the page, without its first row if that is the last one seen.
LEMMA ShownRows ==
  ASSUME seen \in Seq(PKs), NEW rows \in Seq(PKs), rows # <<>>
  PROVE  \E b \in Nat :
            /\ b = Len(seen) \/ (b = Len(seen) - 1 /\ rows[1] = seen[Len(seen)])
            /\ b = Len(seen) => seen = <<>> \/ rows[1] # seen[Len(seen)]
            /\ Shown(rows) \in Seq(PKs)
            /\ Len(Shown(rows)) = b + Len(rows)
            /\ \A i \in 1..Len(seen) : Shown(rows)[i] = seen[i]
            /\ \A k \in 1..Len(rows) : Shown(rows)[b + k] = rows[k]
<1>1. /\ Len(seen) \in Nat /\ Len(rows) \in Nat /\ Len(rows) > 0
      /\ Head(rows) = rows[1] /\ Last(seen) = seen[Len(seen)]
  BY DEF Last
<1>2. CASE seen # <<>> /\ Last(seen) = Head(rows)
  <2> DEFINE t == Tail(rows)
  <2>1. Shown(rows) = seen \o t
    BY <1>2 DEF Shown
  <2>2. /\ t \in Seq(PKs) /\ Len(t) = Len(rows) - 1
        /\ \A k \in 1..(Len(rows) - 1) : t[k] = rows[k + 1]
    BY <1>1
  <2> HIDE DEF t
  <2>3. Len(seen) - 1 \in Nat
    BY <1>1, <1>2
  <2>6. /\ seen \o t \in Seq(PKs) /\ Len(seen \o t) = Len(seen) + Len(t)
        /\ \A i \in 1..Len(seen) : (seen \o t)[i] = seen[i]
        /\ \A k \in 1..Len(t) : (seen \o t)[Len(seen) + k] = t[k]
    <3>1. t \in Seq(PKs)
      BY <2>2
    <3>2. seen \o t \in Seq(PKs) /\ Len(seen \o t) = Len(seen) + Len(t)
      BY <3>1, Appended
    <3>3. \A i \in 1..Len(seen) : (seen \o t)[i] = seen[i]
      BY <3>1, Appended
    <3>4. \A k \in 1..Len(t) : (seen \o t)[Len(seen) + k] = t[k]
      BY <3>1, Appended
    <3> QED
      BY <3>2, <3>3, <3>4
  <2>7. Len(seen) + Len(t) = (Len(seen) - 1) + Len(rows)
    BY <1>1, <2>2
  <2>4. /\ Shown(rows) \in Seq(PKs) /\ Len(Shown(rows)) = (Len(seen) - 1) + Len(rows)
        /\ \A i \in 1..Len(seen) : Shown(rows)[i] = seen[i]
    BY <2>1, <2>6, <2>7
  <2>5. ASSUME NEW k \in 1..Len(rows) PROVE Shown(rows)[(Len(seen) - 1) + k] = rows[k]
    <3>1. CASE k = 1
      <4>1. (Len(seen) - 1) + k = Len(seen) /\ Len(seen) \in 1..Len(seen)
        BY <1>1, <2>3, <3>1
      <4> QED
        BY <1>1, <1>2, <2>4, <3>1, <4>1
    <3>2. CASE k # 1
      <4>1. k - 1 \in 1..Len(t) /\ k - 1 \in 1..(Len(rows) - 1) /\ (k - 1) + 1 = k
        BY <1>1, <2>2, <3>2
      <4>2. (Len(seen) - 1) + k = Len(seen) + (k - 1)
        BY <1>1
      <4>3. (seen \o t)[Len(seen) + (k - 1)] = t[k - 1]
        BY <2>6, <4>1
      <4> QED
        BY <2>1, <2>2, <4>1, <4>2, <4>3
    <3> QED
      BY <3>1, <3>2
  <2> QED
    <3>1. Len(seen) - 1 # Len(seen) /\ rows[1] = seen[Len(seen)]
      BY <1>1, <1>2
    <3> WITNESS Len(seen) - 1 \in Nat
    <3> QED
      BY <2>4, <2>5, <3>1
<1>3. CASE ~(seen # <<>> /\ Last(seen) = Head(rows))
  <2>1. Shown(rows) = seen \o rows
    BY <1>3 DEF Shown
  <2>2. /\ Shown(rows) \in Seq(PKs) /\ Len(Shown(rows)) = Len(seen) + Len(rows)
        /\ \A i \in 1..Len(seen) : Shown(rows)[i] = seen[i]
        /\ \A k \in 1..Len(rows) : Shown(rows)[Len(seen) + k] = rows[k]
    BY <1>1, <2>1
  <2> QED
    BY <1>1, <1>3, <2>2
<1> QED
  BY <1>2, <1>3

-----------------------------------------------------------------------------
(* What holds between the queries *)

\* Rows that were shown and left alone are there and satisfy the conditions.
SeenStay == \A i \in DOMAIN seen : seen[i] \in touched \/ seen[i] \in Matching

\* Rows sorted before key k, as far as they were left alone: all that were
\* shown before the last one.
ShownBefore(k) ==
    \A i \in 1..(Len(seen) - 1) : seen[i] \in touched \/ SortsAfter(k, Key(seen[i]))

\* Between a page and its NextCursor the cursor's row is the last one shown.
AtCursor ==
    pc = "cursor" =>
       /\ page # <<>> /\ seen # <<>> /\ Last(seen) = Last(page)
       /\ ~moved => table[Last(page)] # Absent /\ ShownBefore(Key(Last(page)))

\* Between NextCursor and its page the cursor's key may be older than its row.
AtAll ==
    /\ pc = "new" => values = NoValues /\ page = <<>>
    /\ pc \in {"new", "all"} =>
          /\ values = NoValues => seen = <<>>
          /\ values # NoValues =>
                /\ seen # <<>> /\ values[PK] = Last(seen)
                /\ ~moved => ShownBefore(values)
                /\ ~moved /\ Last(seen) \notin touched => values = Key(Last(seen))

\* What was left alone has been shown, or a page to come selects it.
ToCome(p) ==
    \/ pc = "all" /\ (values = NoValues \/ SortsAfter(Key(p), values))
    \/ pc = "cursor" /\ Len(page) = count /\ SortsAfter(Key(p), Key(Last(page)))

Reached ==
    pc \in {"all", "cursor", "done"} /\ ~moved /\ ~cut =>
       \A p \in Matching \ touched : ToCome(p) \/ \E i \in DOMAIN seen : seen[i] = p

\* A page that is shown. One that broke off sets cut, any other leaves only
\* rows that come later.
Paged(rows) ==
    /\ pc = "all" /\ IsPage(rows) /\ Show(rows)
    /\ UNCHANGED <<table, count, values, touched, moved, changes>>
    /\ faults' = faults \/ faults' = faults + 1
    /\ cut' \/ (cut' = cut /\ LeavesLater(rows))

LEMMA PageStep ==
  ASSUME TypeOK, All \/ AllCutShort
  PROVE  \E rows : Paged(rows)
<1>1. TableTyped /\ count \in Nat
  BY DEF TypeOK, TableTyped
<1>2. pc = "all" /\ count > 0
  BY DEF TypeOK, All, AllCutShort
<1>3. CASE All
  <2> DEFINE rows == Limited(Ordered(Selected))
  <2>1. IsPage(rows) /\ LeavesLater(rows)
    BY <1>1, <1>2, LimitedIsPage, LimitedLeavesLater
  <2>2. Show(rows)
    BY <1>3 DEF All
  <2> HIDE DEF rows
  <2> QED
    BY <1>2, <1>3, <2>1, <2>2 DEF All, Paged, historyVars
<1>4. CASE AllCutShort
  <2>1. PICK n \in 0..(Len(Limited(Ordered(Selected))) - 1) :
           Show(SubSeq(Limited(Ordered(Selected)), 1, n))
    BY <1>4 DEF AllCutShort
  <2> DEFINE rows == SubSeq(Limited(Ordered(Selected)), 1, n)
  <2>2. IsPage(rows) /\ Show(rows)
    BY <1>1, <2>1, CutIsPage
  <2> HIDE DEF rows
  <2> QED
    BY <1>2, <1>4, <2>2 DEF AllCutShort, Paged
<1> QED
  BY <1>3, <1>4

\* A row that was seen and left alone sorts before every row of the page,
\* unless it is the row the page starts with again.
LEMMA SeenBeforePage ==
  ASSUME TypeOK, AtAll, SeenStay, ~moved, NEW rows, Paged(rows),
         NEW i \in 1..Len(seen), seen[i] \notin touched, NEW k \in 1..Len(rows),
         i < Len(seen) \/ rows[1] # seen[Len(seen)]
  PROVE  SortsAfter(Key(rows[k]), Key(seen[i]))
<1>1. TableTyped
  BY DEF TypeOK, TableTyped
<1>2. /\ seen \in Seq(PKs) /\ Len(seen) \in Nat
      /\ rows \in Seq(Selected) /\ Len(rows) \in Nat
      /\ pc = "all"
  BY DEF TypeOK, Paged, IsPage
<1>3. seen # <<>>
  BY <1>2
<1>4. values # NoValues /\ values \in Keys /\ values[PK] = seen[Len(seen)]
  BY <1>2, <1>3 DEF AtAll, TypeOK, Keys, Last
<1>5. \A r \in Selected : Key(r) \in Keys /\ Key(r)[PK] = r /\ InPage(Key(r), values)
  BY <1>1, <1>4, MatchingTyped DEF Selected
<1>6. \A r \in Selected : Key(r) = values \/ SortsAfter(Key(r), values)
  BY <1>4, <1>5, InPageFollows
<1>7. rows[k] \in Selected /\ rows[1] \in Selected /\ 1 \in 1..Len(rows)
  BY <1>2
<1>8. Key(seen[i]) \in Keys
  BY <1>1, <1>2, MatchingTyped DEF SeenStay
<1>9. CASE i < Len(seen)
  <2>1. i \in 1..(Len(seen) - 1)
    BY <1>2, <1>9
  <2>2. SortsAfter(values, Key(seen[i]))
    BY <1>2, <1>4, <2>1 DEF AtAll, ShownBefore
  <2> QED
    BY <1>4, <1>5, <1>6, <1>7, <1>8, <2>2, KeysTransitive
<1>10. CASE i = Len(seen)
  <2>1. values = Key(seen[i])
    BY <1>2, <1>4, <1>10 DEF AtAll, Last
  <2>2. rows[1] # seen[i]
    BY <1>2, <1>10
  <2>3. ASSUME Key(rows[k]) = values PROVE FALSE
    <3>1. rows[k] = seen[i]
      BY <1>4, <1>5, <1>7, <1>10, <2>3
    <3>2. k # 1 /\ 1 < k
      BY <1>2, <2>2, <3>1
    <3>3. SortsAfter(Key(rows[k]), Key(rows[1]))
      BY <1>7, <3>2 DEF Paged, IsPage
    <3>4. SortsAfter(values, Key(rows[1]))
      BY <2>3, <3>3
    <3> QED
      BY <1>4, <1>5, <1>7, <3>4, FilterNeverGoesBack
  <2> QED
    BY <1>6, <1>7, <2>1, <2>3
<1> QED
  BY <1>2, <1>9, <1>10

LEMMA PageKeeps ==
  ASSUME TypeOK, SeenStay, AtAll, SeenInOrder, NEW rows, Paged(rows)
  PROVE  TypeOK' /\ SeenStay' /\ AtCursor' /\ AtAll' /\ SeenInOrder'
<1>1. TableTyped /\ Selected \in SUBSET Matching /\ Selected \subseteq PKs
  BY SelectedTyped DEF TypeOK, TableTyped
<1>2. /\ seen \in Seq(PKs) /\ Len(seen) \in Nat
      /\ rows \in Seq(Selected) /\ rows \in Seq(PKs) /\ Len(rows) \in Nat /\ Len(rows) <= count
      /\ \A i, j \in 1..Len(rows) : i < j => SortsAfter(Key(rows[j]), Key(rows[i]))
  BY <1>1 DEF TypeOK, Paged, IsPage
<1>3. /\ page' = rows /\ seen' = Shown(rows)
      /\ pc' = IF rows = <<>> THEN "done" ELSE "cursor"
      /\ UNCHANGED <<table, count, values, touched, moved, changes>>
      /\ faults' = faults \/ faults' = faults + 1
      /\ pc = "all"
  BY DEF Paged, Show
<1>4. (\A p : Key(p)' = Key(p)) /\ Matching' = Matching
  BY <1>3 DEF Key, Matching
<1>5. AtAll'
  BY <1>3 DEF AtAll
<1>6. CASE rows = <<>>
  <2>1. seen' = seen
    BY <1>2, <1>3, <1>6 DEF Shown
  <2>2. TypeOK'
    BY <1>2, <1>3, <1>6, <2>1 DEF TypeOK
  <2>3. SeenStay' /\ AtCursor' /\ SeenInOrder'
    BY <1>3, <1>4, <1>6, <2>1 DEF SeenStay, AtCursor, SeenInOrder
  <2> QED
    BY <1>5, <2>2, <2>3
<1>7. CASE rows # <<>>
  <2>1. PICK b \in Nat :
           /\ b = Len(seen) \/ (b = Len(seen) - 1 /\ rows[1] = seen[Len(seen)])
           /\ b = Len(seen) => seen = <<>> \/ rows[1] # seen[Len(seen)]
           /\ Shown(rows) \in Seq(PKs)
           /\ Len(Shown(rows)) = b + Len(rows)
           /\ \A i \in 1..Len(seen) : Shown(rows)[i] = seen[i]
           /\ \A k \in 1..Len(rows) : Shown(rows)[b + k] = rows[k]
    BY <1>2, <1>7, ShownRows
  <2>2. /\ seen' \in Seq(PKs) /\ Len(seen') = b + Len(rows) /\ Len(rows) > 0
        /\ DOMAIN seen' = 1..(b + Len(rows)) /\ DOMAIN seen = 1..Len(seen)
        /\ \A i \in 1..Len(seen) : seen'[i] = seen[i]
        /\ \A k \in 1..Len(rows) : seen'[b + k] = rows[k]
    BY <1>2, <1>3, <1>7, <2>1
  <2>3. TypeOK'
    BY <1>2, <1>3, <2>2 DEF TypeOK
  \* A place of seen' is one of seen that is before the page, or one of the page.
  <2>4. ASSUME NEW i \in 1..(b + Len(rows))
        PROVE  \/ i \in 1..Len(seen) /\ i <= b
               \/ i - b \in 1..Len(rows) /\ b + (i - b) = i
    BY <1>2, <2>1
  <2>5. ASSUME ~moved, NEW i \in 1..Len(seen), i <= b, seen[i] \notin touched, NEW k \in 1..Len(rows)
        PROVE  SortsAfter(Key(rows[k]), Key(seen[i]))
    <3>1. i < Len(seen) \/ rows[1] # seen[Len(seen)]
      BY <1>2, <2>1, <2>5
    <3> QED
      BY <2>5, <3>1, SeenBeforePage
  <2>6. SeenStay'
    <3> SUFFICES ASSUME NEW i \in 1..(b + Len(rows))
                 PROVE  seen'[i] \in touched \/ seen'[i] \in Matching
      BY <1>3, <1>4, <2>2 DEF SeenStay
    <3>1. CASE i \in 1..Len(seen)
      BY <2>2, <3>1 DEF SeenStay
    <3>2. CASE i - b \in 1..Len(rows) /\ b + (i - b) = i
      <4>1. seen'[i] = rows[i - b]
        BY <2>2, <3>2
      <4> QED
        BY <1>1, <1>2, <3>2, <4>1
    <3> QED
      BY <2>4, <3>1, <3>2
  <2>7. Last(page') = rows[Len(rows)] /\ Last(seen') = rows[Len(rows)]
    <3>1. Len(rows) \in 1..Len(rows)
      BY <1>2, <2>2
    <3> QED
      BY <1>3, <2>2, <3>1 DEF Last
  <2>8. AtCursor'
    <3>1. page' # <<>> /\ seen' # <<>> /\ Last(seen') = Last(page')
      BY <1>2, <1>3, <1>7, <2>2, <2>7
    <3>2. rows[Len(rows)] \in Matching
      BY <1>1, <1>2, <2>2
    <3>3. table'[Last(page')] # Absent
      BY <1>3, <2>7, <3>2 DEF Matching
    <3>4. ASSUME ~moved, NEW i \in 1..(b + Len(rows) - 1), seen'[i] \notin touched
          PROVE  SortsAfter(Key(rows[Len(rows)]), Key(seen'[i]))
      <4>1. i \in 1..(b + Len(rows)) /\ Len(rows) \in 1..Len(rows)
        BY <1>2, <2>2
      <4>2. CASE i \in 1..Len(seen) /\ i <= b
        BY <2>2, <2>5, <3>4, <4>1, <4>2
      <4>3. CASE i - b \in 1..Len(rows) /\ b + (i - b) = i
        <5>1. seen'[i] = rows[i - b] /\ i - b < Len(rows)
          BY <1>2, <2>2, <4>3
        <5> QED
          BY <1>2, <4>1, <4>3, <5>1
      <4> QED
        BY <2>4, <4>1, <4>2, <4>3
    <3>5. ~moved => ShownBefore(Key(Last(page)))'
      BY <1>3, <1>4, <2>2, <2>7, <3>4 DEF ShownBefore
    <3> QED
      BY <1>3, <3>1, <3>3, <3>5 DEF AtCursor
  <2>9. SeenInOrder'
    <3> SUFFICES ASSUME ~moved, NEW i \in 1..(b + Len(rows)), NEW j \in 1..(b + Len(rows)), i < j,
                        seen'[i] \notin touched, seen'[j] \notin touched
                 PROVE  SortsAfter(Key(seen'[j]), Key(seen'[i]))
      BY <1>3, <1>4, <2>2 DEF SeenInOrder
    <3>1. CASE i \in 1..Len(seen) /\ j \in 1..Len(seen)
      BY <2>2, <3>1 DEF SeenInOrder
    <3>2. CASE i - b \in 1..Len(rows) /\ b + (i - b) = i
      <4>1. j - b \in 1..Len(rows) /\ b + (j - b) = j /\ i - b < j - b
        BY <1>2, <3>2
      <4>2. seen'[i] = rows[i - b] /\ seen'[j] = rows[j - b]
        BY <2>2, <3>2, <4>1
      <4> QED
        BY <1>2, <3>2, <4>1, <4>2
    <3>3. CASE i \in 1..Len(seen) /\ i <= b /\ j - b \in 1..Len(rows) /\ b + (j - b) = j
      <4>1. seen'[i] = seen[i] /\ seen'[j] = rows[j - b]
        BY <2>2, <3>3
      <4> QED
        BY <2>5, <3>3, <4>1
    <3>4. CASE i \in 1..Len(seen) /\ j \in 1..Len(seen) /\ j <= b
      BY <3>1, <3>4
    <3> QED
      BY <2>4, <3>2, <3>3, <3>4
  <2> QED
    BY <1>5, <2>3, <2>6, <2>8, <2>9
<1> QED
  BY <1>6, <1>7

\* With an exact filter a page that does not break off leaves no row behind.
LEMMA PageReaches ==
  ASSUME NSort \in {0, 1}, TypeOK, AtAll, Reached, NEW rows, Paged(rows), AtCursor'
  PROVE  Reached'
<1>1. TableTyped /\ Selected \in SUBSET Matching
  BY SelectedTyped DEF TypeOK, TableTyped
<1>2. /\ page' = rows /\ seen' = Shown(rows)
      /\ pc' = IF rows = <<>> THEN "done" ELSE "cursor"
      /\ UNCHANGED <<table, count, values, touched, moved>>
      /\ pc = "all"
  BY DEF Paged, Show
<1>3. (\A p : Key(p)' = Key(p)) /\ Matching' = Matching
  BY <1>2 DEF Key, Matching
<1>4. /\ seen \in Seq(PKs) /\ Len(seen) \in Nat /\ count > 0
      /\ rows \in Seq(PKs) /\ Len(rows) \in Nat
  BY <1>1, <1>2, SelectedTyped DEF TypeOK, Paged, IsPage
<1>5. ASSUME NEW i \in 1..Len(seen)
      PROVE  \E j \in DOMAIN seen' : seen'[j] = seen[i]
  <2>1. CASE rows = <<>>
    BY <1>2, <1>4, <1>5, <2>1 DEF Shown
  <2>2. CASE rows # <<>>
    <3>1. PICK b \in Nat :
             /\ b = Len(seen) \/ (b = Len(seen) - 1 /\ rows[1] = seen[Len(seen)])
             /\ seen' \in Seq(PKs) /\ Len(seen') = b + Len(rows)
             /\ \A h \in 1..Len(seen) : seen'[h] = seen[h]
      BY <1>2, <1>4, <2>2, ShownRows
    <3>2. Len(rows) > 0
      BY <1>4, <2>2
    <3>3. i \in DOMAIN seen'
      BY <1>4, <3>1, <3>2
    <3> QED
      BY <3>1, <3>3
  <2> QED
    BY <2>1, <2>2
<1>6. ASSUME NEW k \in 1..Len(rows)
      PROVE  \E j \in DOMAIN seen' : seen'[j] = rows[k]
  <2>1. rows # <<>>
    BY <1>4
  <2>2. PICK b \in Nat :
           /\ seen' \in Seq(PKs) /\ Len(seen') = b + Len(rows)
           /\ \A h \in 1..Len(rows) : seen'[b + h] = rows[h]
    BY <1>2, <1>4, <2>1, ShownRows
  <2>3. b + k \in DOMAIN seen'
    BY <1>4, <2>2
  <2> QED
    BY <2>2, <2>3
<1> SUFFICES ASSUME ~moved, ~cut', NEW p \in Matching \ touched,
                    ~\E j \in DOMAIN seen' : seen'[j] = p
             PROVE  ToCome(p)'
  BY <1>2, <1>3 DEF Reached
<1>7. cut' = cut /\ LeavesLater(rows)
  BY DEF Paged
<1>8. values = NoValues \/ SortsAfter(Key(p), values)
  BY <1>2, <1>4, <1>5, <1>7 DEF Reached, ToCome
<1>9. p \in Selected
  <2>1. Key(p) \in Keys
    BY <1>1, MatchingTyped
  <2>2. ASSUME values # NoValues PROVE InPage(Key(p), values)
    <3>1. values \in Keys
      BY <2>2 DEF TypeOK, Keys
    <3> QED
      BY <1>8, <2>1, <2>2, <3>1, FilterExact DEF AtOrAfter
  <2> QED
    BY <2>2 DEF Selected
<1>10. Len(rows) = count /\ SortsAfter(Key(p), Key(Last(rows)))
  BY <1>6, <1>7, <1>9 DEF LeavesLater
<1>11. pc' = "cursor"
  BY <1>2, <1>4, <1>10
<1> QED
  BY <1>2, <1>3, <1>10, <1>11 DEF ToCome

Frame == TypeOK /\ SeenStay /\ AtCursor /\ AtAll /\ SeenInOrder

\* NextCursor takes the key of the last row shown.
LEMMA CursorKeeps ==
  ASSUME Frame, NextCursor
  PROVE  Frame' /\ (Reached => Reached')
<1> USE DEF Frame
<1>1. /\ pc = "cursor" /\ UNCHANGED <<table, count, page, seen, touched, moved, cut, changes, faults>>
      /\ \/ table[Last(page)] = Absent /\ values' = NoValues /\ pc' = "failed"
         \/ /\ table[Last(page)] # Absent
            /\ values' = Key(Last(page))
            /\ pc' = IF Len(page) <= count - 1 THEN "done" ELSE "all"
  BY DEF NextCursor, historyVars
<1>2. (\A p : Key(p)' = Key(p)) /\ Matching' = Matching
  BY <1>1 DEF Key, Matching
<1>3. /\ page # <<>> /\ page \in Seq(PKs) /\ Len(page) \in Nat /\ Last(page) \in PKs
      /\ seen # <<>> /\ seen \in Seq(PKs) /\ Len(seen) \in Nat /\ Last(seen) = Last(page)
  BY <1>1 DEF TypeOK, AtCursor, Last
<1>4. SeenStay' /\ SeenInOrder'
  BY <1>1, <1>2 DEF SeenStay, SeenInOrder
<1>5. AtCursor'
  BY <1>1 DEF AtCursor
<1>6. CASE table[Last(page)] = Absent
  <2>1. TypeOK' /\ AtAll'
    BY <1>1, <1>6 DEF TypeOK, AtAll
  <2> QED
    BY <1>1, <1>4, <1>5, <1>6, <2>1 DEF Reached
<1>7. CASE table[Last(page)] # Absent
  <2>1. values' = Key(Last(page)) /\ values' \in Keys /\ values'[PK] = Last(seen)
    BY <1>1, <1>3, <1>7, KeyTyped DEF TypeOK, TableTyped
  <2>2. TypeOK'
    BY <1>1, <1>7, <2>1 DEF TypeOK, Keys
  <2>3. values' # NoValues
    BY <2>1, ValueAssumption DEF Keys
  <2>4. ~moved => ShownBefore(values)'
    BY <1>1, <1>2, <2>1 DEF AtCursor, ShownBefore
  <2>5. AtAll'
    BY <1>1, <1>2, <1>3, <2>1, <2>3, <2>4 DEF AtAll
  <2>6. ASSUME Reached PROVE Reached'
    <3> SUFFICES ASSUME ~moved, ~cut, NEW p \in Matching \ touched,
                        ~\E i \in DOMAIN seen : seen[i] = p
                 PROVE  ToCome(p)'
      BY <1>1, <1>2 DEF Reached
    <3>1. Len(page) = count /\ SortsAfter(Key(p), Key(Last(page)))
      BY <1>1, <2>6 DEF Reached, ToCome
    <3>2. pc' = "all"
      BY <1>1, <1>3, <1>7, <3>1
    <3> QED
      BY <1>2, <2>1, <3>1, <3>2 DEF ToCome
  <2> QED
    BY <1>4, <1>5, <2>2, <2>5, <2>6
<1> QED
  BY <1>6, <1>7

LEMMA PaginateKeeps ==
  ASSUME Frame, Paginate
  PROVE  Frame' /\ Reached'
<1> USE DEF Frame
<1>1. /\ pc = "new" /\ pc' \in {"all", "refused"}
      /\ UNCHANGED <<table, values, page, seen, touched, moved, cut, changes, faults>>
  BY DEF Paginate, historyVars
<1>2. (\A p : Key(p)' = Key(p)) /\ Matching' = Matching
  BY <1>1 DEF Key, Matching
<1>3. count' \in Nat /\ (pc' = "all" => count' > 1) /\ Len(page) <= count'
  BY CountAssumption DEF Paginate, TypeOK, AtAll
<1>4. TypeOK'
  BY <1>1, <1>3 DEF TypeOK
<1>5. SeenStay' /\ SeenInOrder'
  BY <1>1, <1>2 DEF SeenStay, SeenInOrder
<1>6. AtCursor' /\ AtAll'
  BY <1>1, <1>2 DEF AtCursor, AtAll, ShownBefore
<1>7. values = NoValues
  BY <1>1 DEF AtAll
<1>8. Reached'
  BY <1>1, <1>7 DEF Reached, ToCome
<1> QED
  BY <1>4, <1>5, <1>6, <1>8

LEMMA FailureKeeps ==
  ASSUME Frame, QueryFails
  PROVE  Frame' /\ Reached'
<1> USE DEF Frame
<1>1. /\ pc' \in {"failed", "panicked"}
      /\ UNCHANGED <<table, count, values, page, seen, touched, moved, cut, changes>>
      /\ faults' = faults + 1
  BY DEF QueryFails
<1>2. (\A p : Key(p)' = Key(p)) /\ Matching' = Matching
  BY <1>1 DEF Key, Matching
<1>3. TypeOK' /\ SeenStay' /\ SeenInOrder'
  BY <1>1, <1>2 DEF TypeOK, SeenStay, SeenInOrder
<1>4. AtCursor' /\ AtAll' /\ Reached'
  BY <1>1 DEF AtCursor, AtAll, Reached
<1> QED
  BY <1>3, <1>4

\* The change of one row leaves the others, and what was seen of them.
LEMMA ChangeKeeps ==
  ASSUME Frame, NEW r \in PKs, NEW row \in Rows \cup {Absent}, Change(r, row)
  PROVE  Frame' /\ (Reached => Reached')
<1> USE DEF Frame
<1>1. /\ table' = [table EXCEPT ![r] = row] /\ touched' = touched \cup {r}
      /\ moved' = (moved \/ (pc = "cursor" /\ r = Last(page)))
      /\ UNCHANGED <<pc, count, values, page, seen, cut, faults>>
      /\ changes' = changes + 1
  BY DEF Change, clientVars
<1>2. \A p \in PKs : p # r => table'[p] = table[p]
  BY <1>1 DEF TypeOK
<1>3. \A p \in PKs : p # r => Key(p)' = Key(p)
  BY <1>2 DEF Key
<1>4. \A p \in PKs : p # r => (p \in Matching' <=> p \in Matching)
  BY <1>2 DEF Matching
<1>5. TypeOK'
  BY <1>1 DEF TypeOK
<1>6. seen \in Seq(PKs) /\ Len(seen) \in Nat /\ DOMAIN seen = 1..Len(seen) /\ page \in Seq(PKs)
  BY DEF TypeOK
<1>7. \A i \in 1..Len(seen) : seen[i] \in PKs
  BY <1>6
<1>8. SeenStay'
  BY <1>1, <1>4, <1>6, <1>7 DEF SeenStay
<1>9. SeenInOrder'
  <2> SUFFICES ASSUME ~moved', NEW i \in 1..Len(seen), NEW j \in 1..Len(seen), i < j,
                      {seen[i], seen[j]} \cap touched' = {}
               PROVE  SortsAfter(Key(seen[j])', Key(seen[i])')
    BY <1>1, <1>6 DEF SeenInOrder
  <2>1. seen[i] # r /\ seen[j] # r /\ {seen[i], seen[j]} \cap touched = {} /\ ~moved
    BY <1>1
  <2>2. SortsAfter(Key(seen[j]), Key(seen[i]))
    BY <1>6, <2>1 DEF SeenInOrder
  <2> QED
    BY <1>1, <1>3, <1>7, <2>1, <2>2
\* A key that stays sorts after the rows shown before as it did.
<1>10. ASSUME NEW k, ShownBefore(k)
       PROVE  \A i \in 1..(Len(seen) - 1) :
                 seen[i] \in touched' \/ SortsAfter(k, Key(seen[i])')
  <2> SUFFICES ASSUME NEW i \in 1..(Len(seen) - 1), seen[i] \notin touched'
               PROVE  SortsAfter(k, Key(seen[i])')
    OBVIOUS
  <2>1. seen[i] # r /\ seen[i] \notin touched /\ seen[i] \in PKs
    BY <1>1, <1>6, <1>7
  <2> QED
    BY <1>1, <1>3, <1>10, <2>1 DEF ShownBefore
<1>11. ASSUME pc = "cursor", ~moved'
       PROVE  Last(page) # r /\ Last(page) \in PKs /\ Key(Last(page))' = Key(Last(page))
  <2>1. Last(page) # r
    BY <1>1, <1>11
  <2>2. Last(page) \in PKs
    BY <1>6, <1>11 DEF AtCursor, Last
  <2> QED
    BY <1>1, <1>3, <2>1, <2>2
<1>12. AtCursor'
  <2>1. CASE pc = "cursor" /\ ~moved'
    <3>1. ~moved /\ table[Last(page)] # Absent /\ ShownBefore(Key(Last(page)))
      BY <1>1, <2>1 DEF AtCursor
    <3>2. table'[Last(page)] # Absent
      BY <1>2, <1>11, <2>1, <3>1
    <3>3. ShownBefore(Key(Last(page)))'
      BY <1>1, <1>10, <1>11, <2>1, <3>1 DEF ShownBefore
    <3> QED
      BY <1>1, <3>2, <3>3 DEF AtCursor
  <2>2. CASE ~(pc = "cursor" /\ ~moved')
    BY <1>1, <2>2 DEF AtCursor
  <2> QED
    BY <2>1, <2>2
<1>13. AtAll'
  <2> SUFFICES ASSUME pc \in {"new", "all"}, values # NoValues, ~moved'
               PROVE  /\ ShownBefore(values)'
                      /\ Last(seen) \notin touched' => values = Key(Last(seen))'
    BY <1>1 DEF AtAll
  <2>1. /\ ~moved /\ seen # <<>> /\ ShownBefore(values)
        /\ Last(seen) \notin touched => values = Key(Last(seen))
    BY <1>1 DEF AtAll
  <2>2. ShownBefore(values)'
    BY <1>1, <1>10, <2>1 DEF ShownBefore
  <2>3. Last(seen) \in PKs
    BY <1>6, <2>1 DEF Last
  <2>4. ASSUME Last(seen) \notin touched' PROVE values = Key(Last(seen))'
    BY <1>1, <1>3, <2>1, <2>3, <2>4
  <2> QED
    BY <2>2, <2>4
<1>14. ASSUME Reached PROVE Reached'
  <2> SUFFICES ASSUME pc \in {"all", "cursor", "done"}, ~moved', ~cut,
                      NEW p \in Matching', p \notin touched',
                      ~\E i \in DOMAIN seen : seen[i] = p
               PROVE  ToCome(p)'
    BY <1>1 DEF Reached
  <2>1. p \in PKs /\ p # r /\ p \in Matching \ touched /\ ~moved
    BY <1>1, <1>4 DEF Matching
  <2>2. ToCome(p)
    BY <1>14, <2>1 DEF Reached
  <2>3. Key(p)' = Key(p)
    BY <1>3, <2>1
  <2> QED
    BY <1>1, <1>11, <2>2, <2>3 DEF ToCome
<1> QED
  BY <1>5, <1>8, <1>9, <1>12, <1>13, <1>14

Inv == Frame /\ (NSort \in {0, 1} => Reached)

LEMMA InvInitially == Init => Inv
BY DEF Init, Inv, Frame, TypeOK, SeenStay, AtCursor, AtAll, SeenInOrder, Reached

LEMMA OthersChange ==
  ASSUME Others
  PROVE  \E r \in PKs, row \in Rows \cup {Absent} : Change(r, row)
BY DEF Others, Insert, Update, Delete

LEMMA InvInductive ==
  ASSUME Inv, [Next]_vars
  PROVE  Inv'
<1> USE DEF Inv
<1>1. CASE UNCHANGED vars
  <2> USE <1>1 DEF vars, clientVars, historyVars
  <2>1. (\A p : Key(p)' = Key(p)) /\ Matching' = Matching
    BY DEF Key, Matching
  <2>2. TypeOK' /\ SeenStay' /\ SeenInOrder'
    BY <2>1 DEF Frame, TypeOK, SeenStay, SeenInOrder
  <2>3. AtCursor' /\ AtAll'
    BY <2>1 DEF Frame, AtCursor, AtAll, ShownBefore
  <2>4. Reached => Reached'
    BY <2>1 DEF Reached, ToCome
  <2> QED
    BY <2>2, <2>3, <2>4 DEF Frame
<1>2. CASE All \/ AllCutShort
  <2>1. PICK rows : Paged(rows)
    BY <1>2, PageStep DEF Frame
  <2>2. Frame'
    BY <2>1, PageKeeps DEF Frame
  <2> QED
    BY <2>1, <2>2, PageReaches DEF Frame
<1>3. CASE NextCursor
  BY <1>3, CursorKeeps
<1>4. CASE Paginate
  BY <1>4, PaginateKeeps
<1>5. CASE QueryFails
  BY <1>5, FailureKeeps
<1>6. CASE Others
  BY <1>6, OthersChange, ChangeKeeps
<1> QED
  BY <1>1, <1>2, <1>3, <1>4, <1>5, <1>6 DEF Next, Client

LEMMA Invariance == Spec => []Inv
BY InvInitially, InvInductive, PTL DEF Spec

\* Every state of a traversal is well formed; NextCursor only asks for a row
\* that the page had.
THEOREM TypeCorrect == Spec => []TypeOK
<1>1. Inv => TypeOK
  BY DEF Inv, Frame
<1> QED
  BY <1>1, Invariance, PTL

\* The rows that were left alone are shown in the order of Paginate's sort
\* columns and once, for any number of sort columns: the filter of buildAction
\* may forget rows but never goes back.
THEOREM NeverBack == Spec => []SeenInOrder
<1>1. Inv => SeenInOrder
  BY DEF Inv, Frame
<1> QED
  BY <1>1, Invariance, PTL

\* With at most one sort column before the primary key a traversal that ends
\* well has shown every row that was left alone, whatever other clients did to
\* the rest. With two it is false: see PaginatorTwoColumns.
THEOREM NoneSkipped ==
  ASSUME NSort \in {0, 1}
  PROVE  Spec => []StableRowsSeen
<1>1. Inv => StableRowsSeen
  BY DEF Inv, Frame, Reached, ToCome, StableRowsSeen
<1> QED
  BY <1>1, Invariance, PTL

-----------------------------------------------------------------------------
(* The pages of a table that nobody changes *)

\* The rows a page starts from are the end of the list of all rows.
LEMMA RestSelected ==
  ASSUME NSort \in {0, 1}, TypeOK
  PROVE  /\ Selected \in SUBSET Matching
         /\ Position = 1 + Cardinality(Matching \ Selected)
         /\ \A p \in Selected, q \in Matching \ Selected : <<q, p>> \in SortOrder(Matching)
<1>1. TableTyped
  BY DEF TypeOK, TableTyped
<1>2. Selected \in SUBSET Matching
  BY DEF Selected
<1>3. CASE values = NoValues
  <2>1. Matching \ Selected = {}
    BY <1>3 DEF Selected
  <2>2. Cardinality(Matching \ Selected) = 0
    BY <2>1, FS_EmptySet
  <2>3. Position = 1 + 0
    BY <1>3 DEF Position
  <2> QED
    BY <1>2, <2>1, <2>2, <2>3
<1>4. CASE values # NoValues
  <2>1. values \in Keys
    BY <1>4 DEF TypeOK, Keys
  <2>2. \A p \in Matching : Key(p) \in Keys
    BY <1>1, MatchingTyped
  <2>3. \A p \in Matching : p \in Selected <=> InPage(Key(p), values)
    BY <1>4 DEF Selected
  <2>4. ASSUME NEW p \in Matching
        PROVE  p \in Selected <=> ~SortsAfter(values, Key(p))
    <3>1. InPage(Key(p), values) <=> Key(p) = values \/ SortsAfter(Key(p), values)
      BY <2>1, <2>2, FilterExact DEF AtOrAfter
    <3>2. /\ ~SortsAfter(values, values)
          /\ Key(p) = values \/ SortsAfter(Key(p), values) \/ SortsAfter(values, Key(p))
      BY <2>1, <2>2, KeysOrdered
    <3>3. ~(SortsAfter(Key(p), values) /\ SortsAfter(values, Key(p)))
      <4>1. Key(p) \in Keys /\ ~SortsAfter(values, values)
        BY <2>2, <3>2
      <4> QED
        BY <2>1, <4>1, KeysTransitive
    <3> QED
      BY <2>3, <3>1, <3>2, <3>3
  <2>5. Matching \ Selected = {p \in Matching : SortsAfter(values, Key(p))}
    BY <2>4
  <2>6. Position = 1 + Cardinality(Matching \ Selected)
    BY <1>4, <2>5 DEF Position
  <2>7. ASSUME NEW p \in Selected, NEW q \in Matching \ Selected
        PROVE  <<q, p>> \in SortOrder(Matching)
    <3>1. p \in Matching /\ Key(p) \in Keys /\ Key(q) \in Keys
      BY <1>2, <2>2
    <3>2. SortsAfter(values, Key(q)) /\ ~SortsAfter(values, Key(p))
      BY <2>4, <3>1
    <3>3. Key(p) = values \/ SortsAfter(Key(p), values)
      BY <2>1, <3>1, <3>2, KeysOrdered
    <3>4. SortsAfter(Key(p), Key(q))
      BY <2>1, <3>1, <3>2, <3>3, KeysTransitive
    <3> QED
      BY <3>1, <3>4 DEF SortOrder
  <2> QED
    BY <1>2, <2>6, <2>7
<1> QED
  BY <1>3, <1>4

LEMMA RestListed ==
  ASSUME NSort \in {0, 1}, TypeOK
  PROVE  /\ Position \in Nat /\ Position > 0
         /\ Listed \in Seq(Matching) /\ Len(Listed) = Cardinality(Matching)
         /\ Ordered(Selected) \in Seq(Selected)
         /\ Len(Listed) = (Position - 1) + Len(Ordered(Selected))
         /\ \A k \in 1..Len(Ordered(Selected)) :
               Ordered(Selected)[k] = Listed[(Position - 1) + k]
<1>1. TableTyped
  BY DEF TypeOK, TableTyped
<1>2. IsFiniteSet(Matching) /\ Orders(SortOrder(Matching), Matching)
  BY <1>1, RowsOrdered
<1>3. /\ Selected \in SUBSET Matching
      /\ Position = 1 + Cardinality(Matching \ Selected)
      /\ \A p \in Selected, q \in Matching \ Selected : <<q, p>> \in SortOrder(Matching)
  BY RestSelected
<1>4. \A p, q \in Selected : <<p, q>> \in SortOrder(Selected) <=> <<p, q>> \in SortOrder(Matching)
  BY <1>3 DEF SortOrder
<1>5. /\ Listed = Arranged(Matching, SortOrder(Matching))
      /\ Ordered(Selected) = Arranged(Selected, SortOrder(Selected))
  BY DEF Listed, Ordered, SortOrder
<1>6. /\ Cardinality(Selected) \in Nat /\ Cardinality(Matching \ Selected) \in Nat
      /\ Cardinality(Matching) = Cardinality(Matching \ Selected) + Cardinality(Selected)
      /\ \A k \in 1..Cardinality(Selected) :
            Arranged(Selected, SortOrder(Selected))[k]
              = Arranged(Matching, SortOrder(Matching))[Cardinality(Matching \ Selected) + k]
  <2>1. Ends(Selected, SortOrder(Selected), Matching, SortOrder(Matching))
    BY <1>3, <1>4 DEF Ends
  <2>2. /\ Cardinality(Selected) \in Nat /\ Cardinality(Matching \ Selected) \in Nat
        /\ Cardinality(Matching) = Cardinality(Matching \ Selected) + Cardinality(Selected)
    BY <1>2, <1>3, RestCounted
  <2>3. ASSUME NEW k \in 1..Cardinality(Selected)
        PROVE  Arranged(Selected, SortOrder(Selected))[k]
                 = Arranged(Matching, SortOrder(Matching))[Cardinality(Matching \ Selected) + k]
    BY <1>2, <2>1, RestArranged
  <2> QED
    BY <2>2, <2>3
<1>7. /\ Ordered(Selected) \in Seq(Selected)
      /\ Len(Ordered(Selected)) = Cardinality(Selected)
  BY <1>1, <1>3, OrderedRows
<1>8. Listed \in Seq(Matching) /\ Len(Listed) = Cardinality(Matching)
  BY <1>1, OrderedRows DEF Listed
<1>9. Position \in Nat /\ Position > 0 /\ Position - 1 = Cardinality(Matching \ Selected)
  BY <1>3, <1>6
<1> QED
  BY <1>5, <1>6, <1>7, <1>8, <1>9

\* Two parts of sequences are the same when they have the same elements.
LEMMA SameWindow ==
  ASSUME NEW S, NEW s \in Seq(S), NEW t \in Seq(S), NEW m \in Nat, NEW n \in Nat,
         Len(s) = m + Len(t), n <= Len(t),
         \A k \in 1..Len(t) : t[k] = s[m + k]
  PROVE  SubSeq(s, m + 1, m + n) = SubSeq(t, 1, n)
<1>1. SubSeq(s, m + 1, m + n) \in Seq(S) /\ Len(SubSeq(s, m + 1, m + n)) = n
  OBVIOUS
<1>2. SubSeq(t, 1, n) \in Seq(S) /\ Len(SubSeq(t, 1, n)) = n
  OBVIOUS
<1>3. ASSUME NEW k \in 1..n
      PROVE  SubSeq(s, m + 1, m + n)[k] = SubSeq(t, 1, n)[k]
  <2>1. SubSeq(t, 1, n)[k] = t[k]
    OBVIOUS
  <2>2. SubSeq(s, m + 1, m + n)[k] = s[m + k]
    <3>1. k + (m + 1) - 1 = m + k
      OBVIOUS
    <3> QED
      BY <3>1
  <2>3. k \in 1..Len(t)
    OBVIOUS
  <2> QED
    BY <2>1, <2>2, <2>3
<1> DEFINE a == SubSeq(s, m + 1, m + n)
           b == SubSeq(t, 1, n)
<1>4. /\ a \in Seq(S) /\ b \in Seq(S) /\ Len(a) = n /\ Len(b) = n
      /\ \A k \in 1..n : a[k] = b[k]
  BY <1>1, <1>2, <1>3
<1> HIDE DEF a, b
<1>5. a = b
  BY <1>4
<1> QED
  BY <1>5 DEF a, b

LEMMA WindowSelected ==
  ASSUME NSort \in {0, 1}, TypeOK
  PROVE  WindowOf!Window = Limited(Ordered(Selected))
<1> DEFINE o == Ordered(Selected)
           m == Position - 1
           n == IF Len(o) < count THEN Len(o) ELSE count
<1>1. /\ Position \in Nat /\ Position > 0
      /\ Listed \in Seq(Matching) /\ o \in Seq(Matching)
      /\ Len(Listed) = m + Len(o)
      /\ \A k \in 1..Len(o) : o[k] = Listed[m + k]
  <2>1. o \in Seq(Selected) /\ Selected \in SUBSET Matching
    BY RestListed, RestSelected
  <2>2. o \in Seq(Matching)
    BY <2>1
  <2> QED
    BY <2>2, RestListed
<1>2. count \in Nat
  BY DEF TypeOK
<1>3. Limited(Ordered(Selected)) = SubSeq(o, 1, n)
  BY DEF Limited
<1>4. WindowOf!Window = SubSeq(Listed, Position, IF Position + count - 1 < Len(Listed)
                                               THEN Position + count - 1 ELSE Len(Listed))
  BY DEF WindowOf!Window
<1> HIDE DEF o
<1>5. n \in Nat /\ n <= Len(o) /\ m \in Nat /\ Position = m + 1
      /\ (IF Position + count - 1 < Len(Listed) THEN Position + count - 1 ELSE Len(Listed)) = m + n
  BY <1>1, <1>2
<1> HIDE DEF m, n
<1>6. SubSeq(Listed, m + 1, m + n) = SubSeq(o, 1, n)
  BY <1>1, <1>5, SameWindow
<1> QED
  BY <1>3, <1>4, <1>5, <1>6

\* The list does not move unless the table does.
LEMMA ListStays ==
  ASSUME UNCHANGED table
  PROVE  Listed' = Listed /\ Matching' = Matching /\ \A p : Key(p)' = Key(p)
BY DEF Listed, Ordered, Matching, Key

LEMMA PositionStays ==
  ASSUME UNCHANGED <<table, values>>
  PROVE  Position' = Position /\ Selected' = Selected /\ Ordered(Selected)' = Ordered(Selected)
BY DEF Position, Selected, Ordered, Matching, Key

\* Until something happens the page is the one its query would give again.
Still ==
    changes = 0 /\ faults = 0 /\ pc = "cursor" => page = Limited(Ordered(Selected))

WInv == Inv /\ Still

LEMMA StillInductive ==
  ASSUME Inv, Still, [Next]_vars
  PROVE  Still'
<1> SUFFICES ASSUME changes' = 0, faults' = 0, pc' = "cursor"
             PROVE  (page = Limited(Ordered(Selected)))'
  BY DEF Still
<1>1. changes \in Nat /\ faults \in Nat
  BY DEF Inv, Frame, TypeOK
<1>2. CASE UNCHANGED vars
  <2>1. UNCHANGED <<table, values, count, page, changes, faults, pc>>
    BY <1>2 DEF vars, clientVars, historyVars
  <2>2. Ordered(Selected)' = Ordered(Selected)
    BY <2>1, PositionStays
  <2>3. page = Limited(Ordered(Selected))
    BY <2>1 DEF Still
  <2> QED
    BY <2>1, <2>2, <2>3 DEF Limited
<1>3. CASE All
  <2>1. UNCHANGED <<table, values, count>> /\ page' = Limited(Ordered(Selected))
    BY <1>3 DEF All, Show
  <2>2. Ordered(Selected)' = Ordered(Selected)
    BY <2>1, PositionStays
  <2> QED
    BY <2>1, <2>2 DEF Limited
<1>4. CASE AllCutShort
  BY <1>1, <1>4 DEF AllCutShort
<1>5. CASE Paginate
  BY <1>5 DEF Paginate
<1>6. CASE NextCursor
  BY <1>6 DEF NextCursor
<1>7. CASE QueryFails
  BY <1>7 DEF QueryFails
<1>8. CASE Others
  BY <1>1, <1>8, OthersChange DEF Change
<1> QED
  BY <1>2, <1>3, <1>4, <1>5, <1>6, <1>7, <1>8 DEF Next, Client

LEMMA PaginateOpens ==
  ASSUME Paginate
  PROVE  WindowOf!Open
<1>1. /\ pc = "new" /\ UNCHANGED <<table, values, page>>
      /\ \/ pc' = "refused" /\ UNCHANGED count
         \/ pc' = "all" /\ count' \in Nat \ {0, 1}
  BY CountAssumption DEF Paginate
<1>2. Listed' = Listed /\ Position' = Position
  BY <1>1, ListStays, PositionStays
<1>3. Phase = "new" /\ (pc' = "refused" => Phase' = "refused") /\ (pc' = "all" => Phase' = "show")
  BY <1>1 DEF Phase
<1> QED
  BY <1>1, <1>2, <1>3 DEF WindowOf!Open

LEMMA AllShows ==
  ASSUME NSort \in {0, 1}, TypeOK, All
  PROVE  WindowOf!Show
<1> DEFINE rows == Limited(Ordered(Selected))
<1>1. /\ pc = "all" /\ UNCHANGED <<table, values, count>>
      /\ page' = rows /\ pc' = IF rows = <<>> THEN "done" ELSE "cursor"
  BY DEF All, Show
<1>2. Listed' = Listed /\ Position' = Position
  BY <1>1, ListStays, PositionStays
<1>3. WindowOf!Window = rows
  BY WindowSelected
<1> HIDE DEF rows
<1>4. Phase = "show" /\ Phase' = IF rows = <<>> THEN "end" ELSE "move"
  BY <1>1 DEF Phase
<1> QED
  BY <1>1, <1>2, <1>3, <1>4 DEF WindowOf!Show

LEMMA CursorMoves ==
  ASSUME NSort \in {0, 1}, TypeOK, AtCursor, NextCursor, page = Limited(Ordered(Selected))
  PROVE  WindowOf!Move
<1> DEFINE last == Last(page)
           o == Ordered(Selected)
<1>1. TableTyped /\ count \in Nat
  BY DEF TypeOK, TableTyped
<1>2. pc = "cursor" /\ UNCHANGED <<table, page, count>> /\ page # <<>>
  BY DEF NextCursor, AtCursor
<1>3. /\ page \in Seq(Selected) /\ Len(page) \in Nat /\ Len(page) <= Len(o)
      /\ o \in Seq(Selected) /\ Len(o) \in Nat
      /\ \A k \in 1..Len(page) : page[k] = o[k]
  <2>1. /\ page \in Seq(Selected) /\ Len(page) \in Nat
        /\ Len(page) = IF Len(o) < count THEN Len(o) ELSE count
        /\ \A k \in 1..Len(page) : page[k] = o[k]
    BY <1>1, LimitedRows
  <2>2. o \in Seq(Selected) /\ Len(o) \in Nat
    BY <1>1, SelectedTyped, OrderedRows
  <2> QED
    BY <1>1, <2>1, <2>2
<1>4. /\ Position \in Nat /\ Position > 0 /\ Len(Listed) = Cardinality(Matching)
      /\ Len(Listed) = (Position - 1) + Len(o)
      /\ \A k \in 1..Len(o) : o[k] = Listed[(Position - 1) + k]
  BY RestListed
<1> HIDE DEF o
<1>5. Len(page) \in 1..Len(page) /\ Len(page) \in 1..Len(o)
  <2>1. Len(page) > 0
    BY <1>2, <1>3
  <2> QED
    BY <1>3, <2>1
<1>6. last \in Selected /\ last = Listed[(Position - 1) + Len(page)]
  BY <1>3, <1>4, <1>5 DEF Last
<1> HIDE DEF last
<1>7. last \in Matching /\ table[last] # Absent /\ Key(last) \in Keys
  BY <1>1, <1>6, SelectedTyped, MatchingTyped
<1>8. /\ values' = Key(last) /\ pc' = IF Len(page) <= count - 1 THEN "done" ELSE "all"
      /\ values' # NoValues
  <2>1. Key(last) # NoValues
    BY <1>7, ValueAssumption DEF Keys
  <2> QED
    BY <1>7, <2>1 DEF NextCursor, last
<1>9. Listed' = Listed /\ Matching' = Matching /\ \A p : Key(p)' = Key(p)
  BY <1>2, ListStays
<1>10. Rank(last, Matching, SortOrder(Matching)) = ((Position - 1) + Len(page)) - 1
  <2>1. (Position - 1) + Len(page) \in 1..Cardinality(Matching)
    BY <1>3, <1>4, <1>5
  <2>2. Listed = Arranged(Matching, SortOrder(Matching))
    BY DEF Listed, Ordered, SortOrder
  <2>3. IsFiniteSet(Matching) /\ Orders(SortOrder(Matching), Matching)
    BY <1>1, RowsOrdered
  <2> QED
    BY <1>6, <2>1, <2>2, <2>3, ArrangedRank
<1>11. Position' = 1 + Rank(last, Matching, SortOrder(Matching))
  <2>1. Position' = 1 + Cardinality({p \in Matching : SortsAfter(Key(last), Key(p))})
    BY <1>8, <1>9 DEF Position
  <2>2. {p \in Matching : SortsAfter(Key(last), Key(p))}
          = {p \in Matching : <<p, last>> \in SortOrder(Matching)}
    BY <1>7 DEF SortOrder
  <2> QED
    BY <2>1, <2>2 DEF Rank
<1>12. Position' = Position + Len(page) - 1
  BY <1>3, <1>4, <1>10, <1>11
<1>13. Phase = "move" /\ Phase' = IF Len(page) < count THEN "end" ELSE "show"
  BY <1>1, <1>2, <1>3, <1>8 DEF Phase
<1> QED
  BY <1>2, <1>9, <1>12, <1>13 DEF WindowOf!Move

\* As long as nobody changes the table and no query fails, every step is one
\* of the windows'.
LEMMA StepsOfWindows ==
  ASSUME NSort \in {0, 1}, WInv, [Next]_vars, changes' = 0, faults' = 0
  PROVE  WindowOf!WNext \/ UNCHANGED WindowOf!wvars
<1> USE DEF WInv, Inv, Frame
<1>1. changes \in Nat /\ faults \in Nat
  BY DEF TypeOK
<1>2. CASE UNCHANGED vars
  <2>1. UNCHANGED <<table, values, count, page, pc>>
    BY <1>2 DEF vars, clientVars
  <2>2. Listed' = Listed /\ Position' = Position
    BY <2>1, ListStays, PositionStays
  <2>3. Phase' = Phase
    BY <2>1 DEF Phase
  <2> QED
    BY <2>1, <2>2, <2>3 DEF WindowOf!wvars
<1>3. CASE All
  BY <1>3, AllShows DEF WindowOf!WNext
<1>4. CASE Paginate
  BY <1>4, PaginateOpens DEF WindowOf!WNext
<1>5. CASE NextCursor
  <2>1. page = Limited(Ordered(Selected))
    BY <1>5 DEF NextCursor, historyVars, Still
  <2> QED
    BY <1>5, <2>1, CursorMoves DEF WindowOf!WNext
<1>6. CASE AllCutShort
  BY <1>1, <1>6 DEF AllCutShort
<1>7. CASE QueryFails
  BY <1>1, <1>7 DEF QueryFails
<1>8. CASE Others
  BY <1>1, <1>8, OthersChange DEF Change
<1> QED
  BY <1>2, <1>3, <1>4, <1>5, <1>6, <1>7, <1>8 DEF Next, Client

\* Every step of Paginate, All and NextCursor on a table that nobody changes is
\* one of WindowScan's: the next page starts at the row the last one ended with.
THEOREM WindowsOfOneList ==
  ASSUME NSort \in {0, 1}
  PROVE  Spec => PagesAreWindows
<1>1. Init => WInv
  BY InvInitially DEF Init, Still, WInv
<1>2. WInv /\ [Next]_vars => WInv'
  BY InvInductive, StillInductive DEF WInv
<1>3. WInv /\ [Next]_vars
        => [changes' = 0 /\ faults' = 0 => WindowOf!WNext \/ UNCHANGED WindowOf!wvars]_vars
  BY StepsOfWindows
<1> QED
  BY <1>1, <1>2, <1>3, PTL DEF Spec, PagesAreWindows
===========================================================================
