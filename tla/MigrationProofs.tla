-------------------------- MODULE MigrationProofs --------------------------
(* Migration, for any number of migrators and whatever their structs and    *)
(* tables are: its types, and its four properties. What a migration has     *)
(* read of the catalogue is true of the table as long as nobody has changed *)
(* it and no listing broke off (Fresh), and a statement computed from a     *)
(* true reading is accepted; the table a migration has found stays there    *)
(* (There), with the unique indexes it counts on (UniqHeld).                *)

EXTENDS Migration, ListProofs

Places == {"start", "exists", "columns", "indexes", "key", "create", "alter", "end"}
Answers == {"none", "nil", "ddl error", "io error", "panic"}

\* The types the argument needs, which are less than TypeOK.
Types ==
    /\ pc \in [Migrators -> Places]
    /\ result \in [Migrators -> Answers]
    /\ DOMAIN raced = Migrators
    /\ cut \in [Migrators -> BOOLEAN]
    /\ DOMAIN cols = Migrators /\ DOMAIN idxs = Migrators
    /\ hasPk \in [Migrators -> BOOLEAN]

TableOK == table = NoTable \/ WellFormed(table)

\* What is read is made of columns.
ReadOK ==
    /\ cols \in [Migrators -> Seq(Columns)]
    /\ idxs \in [Migrators -> SUBSET Columns]

\* What migration m has read so far is what the table is.
FreshFor(m) ==
    /\ pc[m] = "create" => table = NoTable
    /\ pc[m] \in {"columns", "indexes", "key", "alter"} => table # NoTable
    /\ pc[m] \in {"indexes", "key", "alter"} => cols[m] = table.cols
    /\ pc[m] \in {"key", "alter"} => idxs[m] = table.uniq
    /\ pc[m] = "alter" => (hasPk[m] <=> table.pk # NoKey)

Undisturbed(m) == ~raced[m] /\ ~cut[m]

Fresh == \A m \in Migrators : Undisturbed(m) => FreshFor(m)

\* The table a migration works on is there, until somebody drops it.
There ==
    drops = 0 => \A m \in Migrators :
       result[m] = "nil" \/ pc[m] \in {"columns", "indexes", "key", "alter"}
          => table # NoTable

\* The unique indexes a migration has seen and wants are there until it sends
\* its statement.
UniqHeld ==
    \A m \in Migrators :
       drops = 0 /\ UniqueKept(m) /\ pc[m] \in {"key", "alter"}
          => idxs[m] \cap Entity[m].uniq \subseteq table.uniq

\* A count.
Dropping == drops \in Nat

Inv ==
    /\ Types /\ TableOK /\ ReadOK
    /\ Fresh
    /\ There /\ SafeKeepsColumns /\ UniqHeld /\ Dropping

-----------------------------------------------------------------------------
(* What the statements make of a table *)

LEMMA ConcatSet ==
  ASSUME NEW S, NEW s \in Seq(S), NEW t \in Seq(S)
  PROVE  ToSet(s \o t) = ToSet(s) \cup ToSet(t)
<1>1. /\ Len(s) \in Nat /\ DOMAIN s = 1..Len(s)
      /\ Len(t) \in Nat /\ DOMAIN t = 1..Len(t)
      /\ DOMAIN (s \o t) = 1..(Len(s) + Len(t))
      /\ \A i \in 1..(Len(s) + Len(t)) :
            (s \o t)[i] = IF i <= Len(s) THEN s[i] ELSE t[i - Len(s)]
  OBVIOUS
<1>2. ASSUME NEW i \in 1..(Len(s) + Len(t)) PROVE (s \o t)[i] \in ToSet(s) \cup ToSet(t)
  <2>1. CASE i <= Len(s)
    BY <1>1, <2>1 DEF ToSet
  <2>2. CASE i > Len(s)
    <3>1. i - Len(s) \in 1..Len(t)
      BY <1>1, <2>2
    <3> QED
      BY <1>1, <2>2, <3>1 DEF ToSet
  <2> QED
    BY <1>1, <2>1, <2>2
<1>3. ASSUME NEW i \in 1..Len(s) PROVE s[i] \in ToSet(s \o t)
  <2>1. i \in 1..(Len(s) + Len(t)) /\ i <= Len(s)
    BY <1>1
  <2> QED
    BY <1>1, <2>1 DEF ToSet
<1>4. ASSUME NEW i \in 1..Len(t) PROVE t[i] \in ToSet(s \o t)
  <2>1. Len(s) + i \in 1..(Len(s) + Len(t)) /\ ~(Len(s) + i <= Len(s)) /\ (Len(s) + i) - Len(s) = i
    BY <1>1
  <2> QED
    BY <1>1, <2>1 DEF ToSet
<1> QED
  BY <1>1, <1>2, <1>3, <1>4 DEF ToSet

\* Two sequences of different elements, one behind the other.
LEMMA ConcatDistinct ==
  ASSUME NEW S, NEW s \in Seq(S), NEW t \in Seq(S), Distinct(s), Distinct(t),
         ToSet(s) \cap ToSet(t) = {}
  PROVE  Distinct(s \o t)
<1>1. /\ Len(s) \in Nat /\ DOMAIN s = 1..Len(s)
      /\ Len(t) \in Nat /\ DOMAIN t = 1..Len(t)
      /\ DOMAIN (s \o t) = 1..(Len(s) + Len(t))
      /\ \A i \in 1..(Len(s) + Len(t)) :
            (s \o t)[i] = IF i <= Len(s) THEN s[i] ELSE t[i - Len(s)]
  OBVIOUS
<1>2. \A i \in 1..Len(s) : s[i] \in ToSet(s)
  BY <1>1 DEF ToSet
<1>3. \A i \in 1..Len(t) : t[i] \in ToSet(t)
  BY <1>1 DEF ToSet
<1> SUFFICES ASSUME NEW i \in 1..(Len(s) + Len(t)), NEW j \in 1..(Len(s) + Len(t)),
                    (s \o t)[i] = (s \o t)[j]
             PROVE  i = j
  BY <1>1 DEF Distinct
<1>4. CASE i <= Len(s) /\ j <= Len(s)
  <2>1. i \in 1..Len(s) /\ j \in 1..Len(s)
    BY <1>1, <1>4
  <2> QED
    BY <1>1, <1>4, <2>1 DEF Distinct
<1>5. CASE i > Len(s) /\ j > Len(s)
  <2>1. i - Len(s) \in 1..Len(t) /\ j - Len(s) \in 1..Len(t)
    BY <1>1, <1>5
  <2>2. t[i - Len(s)] = t[j - Len(s)]
    BY <1>1, <1>5
  <2>3. i - Len(s) = j - Len(s)
    BY <1>1, <2>1, <2>2 DEF Distinct
  <2> QED
    BY <1>1, <2>3
<1>6. CASE i <= Len(s) /\ j > Len(s)
  <2>1. i \in 1..Len(s) /\ j - Len(s) \in 1..Len(t)
    BY <1>1, <1>6
  <2> QED
    BY <1>1, <1>2, <1>3, <1>6, <2>1
<1>7. CASE i > Len(s) /\ j <= Len(s)
  <2>1. j \in 1..Len(s) /\ i - Len(s) \in 1..Len(t)
    BY <1>1, <1>7
  <2> QED
    BY <1>1, <1>2, <1>3, <1>7, <2>1
<1> QED
  BY <1>1, <1>4, <1>5, <1>6, <1>7

LEMMA ConcatPrefix ==
  ASSUME NEW S, NEW s \in Seq(S), NEW t \in Seq(S)
  PROVE  IsPrefix(s, s \o t)
<1>1. Len(s) \in Nat /\ Len(t) \in Nat /\ Len(s \o t) = Len(s) + Len(t)
  OBVIOUS
<1>2. s = SubSeq(s, 1, Len(s))
  OBVIOUS
<1>3. SubSeq(s \o t, 1, Len(s)) = s
  OBVIOUS
<1> QED
  BY <1>1, <1>2, <1>3 DEF IsPrefix

\* The columns a statement does not name: those of the table that are neither
\* the struct's nor dropped, each once.
LEMMA Others ==
  ASSUME WellFormed(table), NEW m \in Migrators
  PROVE  LET others == [k \in DOMAIN Unnamed(m) |-> table.cols[Unnamed(m)[k]]]
         IN  /\ others \in Seq(Columns)
             /\ Distinct(others)
             /\ ToSet(others) = ToSet(table.cols) \ (ToSet(Entity[m].fields) \cup Dropped(m))
             /\ ToSet(others) = {} => others = <<>>
<1> DEFINE gone == ToSet(Entity[m].fields) \cup Dropped(m)
           at == {i \in DOMAIN table.cols : table.cols[i] \notin gone}
           u == Unnamed(m)
           others == [k \in DOMAIN u |-> table.cols[u[k]]]
           n == Cardinality(at)
<1>1. /\ table.cols \in Seq(Columns) /\ Distinct(table.cols)
      /\ Len(table.cols) \in Nat /\ DOMAIN table.cols = 1..Len(table.cols)
  BY DEF WellFormed, TableRecords
<1>2. at \in SUBSET (1..Len(table.cols)) /\ at \in SUBSET Nat
  BY <1>1
<1>3. IsFiniteSet(at)
  <2>1. 1 \in Int /\ Len(table.cols) \in Int
    BY <1>1
  <2>2. IsFiniteSet(1..Len(table.cols))
    BY <2>1, FS_Interval
  <2> QED
    BY <1>2, <2>2, FS_Subset
<1>4. Orders(NumberOrder(at), at)
  BY <1>2, NumbersOrdered
<1>5. u = Arranged(at, NumberOrder(at))
  BY DEF Unnamed, NumberOrder
<1> HIDE DEF u, at
<1>6. /\ n \in Nat /\ u \in [1..n -> at]
      /\ \A x \in at : \E k \in 1..n : u[k] = x
      /\ \A i, j \in 1..n : i < j => <<u[i], u[j]>> \in NumberOrder(at)
  BY <1>3, <1>4, <1>5, ArrangedInOrder
<1>7. DOMAIN u = 1..n /\ \A k \in 1..n : u[k] \in at
  BY <1>6
<1>8. \A i, j \in 1..n : i < j => u[i] < u[j]
  BY <1>6 DEF NumberOrder
<1>9. \A i, j \in 1..n : u[i] = u[j] => i = j
  <2> SUFFICES ASSUME NEW i \in 1..n, NEW j \in 1..n, u[i] = u[j] PROVE i = j
    OBVIOUS
  <2>1. u[i] \in Nat
    BY <1>2, <1>7
  <2>2. n \in Nat /\ i \in Nat /\ j \in Nat
    BY <1>6
  <2> QED
    BY <1>8, <2>1, <2>2
<1>10. \A i \in at : i \in 1..Len(table.cols) /\ table.cols[i] \in Columns /\ table.cols[i] \notin gone
  BY <1>1 DEF at
<1>11. \A i \in 1..Len(table.cols) : table.cols[i] \notin gone => i \in at
  BY <1>1 DEF at
<1>12. others \in Seq(Columns) /\ DOMAIN others = 1..n /\ Len(others) = n
  BY <1>6, <1>7, <1>10
<1>13. Distinct(others)
  <2> SUFFICES ASSUME NEW i \in 1..n, NEW j \in 1..n, table.cols[u[i]] = table.cols[u[j]]
               PROVE  i = j
    BY <1>7, <1>12 DEF Distinct
  <2>1. u[i] \in 1..Len(table.cols) /\ u[j] \in 1..Len(table.cols)
    BY <1>7, <1>10
  <2>2. u[i] = u[j]
    BY <1>1, <2>1 DEF Distinct
  <2> QED
    BY <1>9, <2>2
<1>14. ASSUME NEW k \in 1..n PROVE others[k] \in ToSet(table.cols) \ gone
  BY <1>1, <1>7, <1>10 DEF ToSet
<1>15. ASSUME NEW i \in 1..Len(table.cols), table.cols[i] \notin gone
       PROVE  table.cols[i] \in ToSet(others)
  <2>1. PICK k \in 1..n : u[k] = i
    BY <1>6, <1>11, <1>15
  <2>2. others[k] = table.cols[i]
    BY <1>7, <2>1
  <2> QED
    BY <1>12, <2>2 DEF ToSet
<1>16. ToSet(others) = ToSet(table.cols) \ gone
  <2> HIDE DEF others, gone
  <2>1. \A x \in ToSet(others) : x \in ToSet(table.cols) \ gone
    BY <1>12, <1>14 DEF ToSet
  <2>2. \A x \in ToSet(table.cols) \ gone : x \in ToSet(others)
    BY <1>1, <1>15 DEF ToSet
  <2> QED
    BY <2>1, <2>2
<1>17. ToSet(others) = {} => others = <<>>
  <2> SUFFICES ASSUME ToSet(others) = {} PROVE others = <<>>
    OBVIOUS
  <2> HIDE DEF others
  <2>1. 1 \notin 1..n
    BY <1>12 DEF ToSet
  <2>2. n = 0
    BY <1>6, <2>1
  <2> QED
    BY <1>12, <2>2
<1> QED
  BY <1>12, <1>13, <1>16, <1>17 DEF u

\* A primary key is a column of the struct.
LEMMA PkIsField ==
  ASSUME NEW m \in Migrators, NEW tagged
  PROVE  PkOf(Entity[m], tagged) \in ToSet(Entity[m].fields) \cup {NoKey}
<1> DEFINE fields == Entity[m].fields
           at == {i \in DOMAIN fields : fields[i] \in tagged}
<1>1. fields \in Seq(Columns) /\ Len(fields) \in Nat /\ DOMAIN fields = 1..Len(fields)
  BY StructAssumption
<1>2. CASE at # {}
  <2>1. at \in SUBSET (1..Len(fields))
    BY <1>1
  <2>2. IsFiniteSet(at) /\ at \in SUBSET Nat
    <3>1. 1 \in Int /\ Len(fields) \in Int
      BY <1>1
    <3>2. IsFiniteSet(1..Len(fields))
      BY <3>1, FS_Interval
    <3>3. \A i \in 1..Len(fields) : i \in Nat
      BY <1>1
    <3> QED
      BY <2>1, <3>2, <3>3, FS_Subset
  <2>3. \E i \in at : \A j \in at : j <= i
    BY <1>2, <2>2, FirstAndLast
  <2>4. (CHOOSE i \in at : \A j \in at : j <= i) \in at
    BY <2>3
  <2>5. PkOf(Entity[m], tagged) = fields[CHOOSE i \in at : \A j \in at : j <= i]
    BY <1>2 DEF PkOf
  <2> QED
    BY <2>1, <2>4, <2>5 DEF ToSet
<1>3. CASE at = {}
  BY <1>3 DEF PkOf
<1> QED
  BY <1>2, <1>3

LEMMA FieldsTyped ==
  ASSUME NEW m \in Migrators
  PROVE  /\ Entity[m].fields \in Seq(Columns)
         /\ ToSet(Entity[m].fields) \subseteq Columns
         /\ Distinct(Entity[m].fields)
         /\ Entity[m].uniq \subseteq ToSet(Entity[m].fields)
         /\ Entity[m].auto \subseteq ToSet(Entity[m].fields)
         /\ Entity[m].virtual \subseteq ToSet(Entity[m].fields)
         /\ Entity[m].narrow \subseteq ToSet(Entity[m].fields)
<1>1. /\ Entity[m].fields \in Seq(Columns) /\ Distinct(Entity[m].fields)
      /\ Entity[m].uniq \subseteq ToSet(Entity[m].fields)
      /\ Entity[m].auto \subseteq ToSet(Entity[m].fields)
      /\ Entity[m].virtual \subseteq ToSet(Entity[m].fields)
      /\ Entity[m].narrow \subseteq ToSet(Entity[m].fields)
  BY StructAssumption
<1>2. \A i \in DOMAIN Entity[m].fields : Entity[m].fields[i] \in Columns
  BY <1>1
<1> QED
  BY <1>1, <1>2 DEF ToSet

\* CREATE TABLE makes a table of the struct.
LEMMA CreatedWellFormed ==
  ASSUME NEW m \in Migrators, Creatable(m)
  PROVE  WellFormed(Created(m))
<1> DEFINE t == Created(m)
<1>1. CreatePk(Entity[m]) \in ToSet(Entity[m].fields) \cup {NoKey}
  BY PkIsField DEF CreatePk
<1>2. /\ t.cols = Entity[m].fields /\ t.uniq = Entity[m].uniq /\ t.pk = CreatePk(Entity[m])
      /\ t.auto = Entity[m].auto /\ t.virtual = Entity[m].virtual
      /\ t.narrow = Entity[m].narrow
      /\ t.rows = [count |-> 0, same |-> {}, large |-> {}]
  BY DEF Created
<1>3. t.rows \in RowRecords
  BY <1>2 DEF RowRecords
<1>4. t \in TableRecords
  <2>1. /\ t.cols \in Seq(Columns) /\ t.uniq \in SUBSET Columns
        /\ t.pk \in Columns \cup {NoKey} /\ t.auto \in SUBSET Columns
        /\ t.virtual \in SUBSET Columns /\ t.narrow \in SUBSET Columns
    BY <1>1, <1>2, FieldsTyped
  <2> QED
    BY <1>3, <2>1 DEF TableRecords, Created
<1>5. OneAuto(t)
  BY DEF Creatable
<1>6. Holds(t, t.rows)
  BY <1>2 DEF Holds
<1>7. Distinct(t.cols)
  BY <1>2, FieldsTyped
<1>8. Keys(t) \cup t.virtual \cup t.narrow \subseteq ToSet(t.cols)
  BY <1>1, <1>2, FieldsTyped DEF Keys
<1> QED
  BY <1>4, <1>5, <1>6, <1>7, <1>8 DEF WellFormed

\* What an ALTER TABLE clause leaves of a tag: columns of the new table.
LEMMA RestatedColumns ==
  ASSUME NEW m \in Migrators, NEW old, NEW new, old \subseteq ToSet(table.cols),
         new \subseteq ToSet(Entity[m].fields)
  PROVE  Restated(m, old, new)
           \subseteq ToSet(Entity[m].fields) \cup (ToSet(table.cols) \ Dropped(m))
BY DEF Restated

\* ALTER TABLE makes a table of what was there and the struct.
LEMMA AlteredColumns ==
  ASSUME NEW m \in Migrators, WellFormed(table)
  PROVE  /\ Altered(m).cols \in Seq(Columns) /\ Distinct(Altered(m).cols)
         /\ ToSet(Altered(m).cols)
              = ToSet(Entity[m].fields) \cup (ToSet(table.cols) \ Dropped(m))
         /\ IsPrefix(Entity[m].fields, Altered(m).cols)
         /\ ToSet(table.cols) \subseteq ToSet(Entity[m].fields) \cup Dropped(m)
              => Altered(m).cols = Entity[m].fields
<1> DEFINE fields == Entity[m].fields
           others == [k \in DOMAIN Unnamed(m) |-> table.cols[Unnamed(m)[k]]]
<1>1. /\ others \in Seq(Columns) /\ Distinct(others)
      /\ ToSet(others) = ToSet(table.cols) \ (ToSet(fields) \cup Dropped(m))
      /\ ToSet(others) = {} => others = <<>>
  BY Others
<1>2. Altered(m).cols = fields \o others
  BY DEF Altered
<1> HIDE DEF others
<1>3. fields \in Seq(Columns) /\ ToSet(fields) \subseteq Columns /\ Distinct(fields)
  BY FieldsTyped
<1>4. Dropped(m) \cap ToSet(fields) = {}
  BY DEF Dropped
<1>5. ToSet(fields \o others) = ToSet(fields) \cup (ToSet(table.cols) \ Dropped(m))
  BY <1>1, <1>3, <1>4, ConcatSet
<1>6. Distinct(fields \o others)
  BY <1>1, <1>3, ConcatDistinct
<1>7. fields \o others \in Seq(Columns)
  BY <1>1, <1>3
<1>8. IsPrefix(fields, fields \o others)
  BY <1>1, <1>3, ConcatPrefix
<1>9. ToSet(table.cols) \subseteq ToSet(fields) \cup Dropped(m) => fields \o others = fields
  BY <1>1, <1>3
<1> QED
  BY <1>2, <1>5, <1>6, <1>7, <1>8, <1>9

LEMMA AlteredParts ==
  ASSUME NEW m \in Migrators
  PROVE  LET t == Altered(m)
         IN  /\ t.uniq = (table.uniq \ Dropped(m)) \cup NewUniq(m)
             /\ t.pk = IF NewPk(m) # NoKey THEN NewPk(m)
                       ELSE IF table.pk \in Dropped(m) THEN NoKey ELSE table.pk
             /\ t.auto = Restated(m, table.auto, Entity[m].auto)
             /\ t.virtual = Restated(m, table.virtual, Entity[m].virtual)
             /\ t.narrow = Restated(m, table.narrow, Entity[m].narrow)
             /\ t.rows = [count |-> table.rows.count,
                          same  |-> (table.rows.same \ Dropped(m)) \cup Filled(m),
                          large |-> table.rows.large \ Dropped(m)]
             /\ t = [cols |-> t.cols, uniq |-> t.uniq, pk |-> t.pk, auto |-> t.auto,
                     virtual |-> t.virtual, narrow |-> t.narrow, rows |-> t.rows]
BY DEF Altered

\* The rows fit the table an accepted statement makes of theirs.
LEMMA AlteredHolds ==
  ASSUME NEW m \in Migrators, WellFormed(table), Accepted(m)
  PROVE  Holds(Altered(m), Altered(m).rows)
<1> DEFINE t == Altered(m)
           fields == ToSet(Entity[m].fields)
<1>1. /\ t.uniq = (table.uniq \ Dropped(m)) \cup NewUniq(m)
      /\ t.pk = IF NewPk(m) # NoKey THEN NewPk(m)
                ELSE IF table.pk \in Dropped(m) THEN NoKey ELSE table.pk
      /\ t.narrow = Restated(m, table.narrow, Entity[m].narrow)
      /\ t.rows = [count |-> table.rows.count,
                   same  |-> (table.rows.same \ Dropped(m)) \cup Filled(m),
                   large |-> table.rows.large \ Dropped(m)]
  BY AlteredParts
<1>2. ToSet(t.cols) = fields \cup (ToSet(table.cols) \ Dropped(m))
  BY AlteredColumns
<1> HIDE DEF t
<1>3. /\ table.rows.same \subseteq ToSet(table.cols) \ Keys(table)
      /\ table.rows.large \subseteq ToSet(table.cols) \ table.narrow
      /\ Keys(table) \subseteq ToSet(table.cols)
  BY DEF WellFormed, Holds
<1>4. /\ (table.rows.same \cup Filled(m)) \cap (NewUniq(m) \cup ({NewPk(m)} \ {NoKey})) = {}
      /\ table.rows.large \cap Modified(m) \cap Entity[m].narrow = {}
      /\ Added(m) \cap ToSet(table.cols) = {}
  BY DEF Accepted, RowsFit
<1>5. Filled(m) \subseteq Added(m) /\ Added(m) \subseteq fields
  BY DEF Filled, Added
<1>6. Keys(t) \subseteq Keys(table) \cup NewUniq(m) \cup ({NewPk(m)} \ {NoKey})
  BY <1>1 DEF Keys
<1>7. t.rows.same \cap Keys(t) = {}
  BY <1>1, <1>3, <1>4, <1>5, <1>6
<1>8. t.rows.same \subseteq ToSet(t.cols)
  BY <1>1, <1>2, <1>3, <1>5
<1>9. t.rows.large \subseteq ToSet(t.cols)
  BY <1>1, <1>2, <1>3
<1>10. t.rows.large \cap t.narrow = {}
  <2> SUFFICES ASSUME NEW c \in t.rows.large, c \in t.narrow PROVE FALSE
    OBVIOUS
  <2>1. c \in table.rows.large /\ c \in ToSet(table.cols) /\ c \notin table.narrow
    BY <1>1, <1>3
  <2>2. c \in Entity[m].narrow /\ c \in fields
    BY <1>1, <2>1, FieldsTyped DEF Restated
  <2>3. c \in Modified(m)
    BY <1>4, <2>1, <2>2 DEF Added, Modified
  <2> QED
    BY <1>4, <2>1, <2>2, <2>3
<1> QED
  BY <1>7, <1>8, <1>9, <1>10 DEF Holds, t

LEMMA AlteredWellFormed ==
  ASSUME NEW m \in Migrators, WellFormed(table), Accepted(m)
  PROVE  WellFormed(Altered(m))
<1> DEFINE t == Altered(m)
           fields == ToSet(Entity[m].fields)
<1>1. /\ t.uniq = (table.uniq \ Dropped(m)) \cup NewUniq(m)
      /\ t.pk = IF NewPk(m) # NoKey THEN NewPk(m)
                ELSE IF table.pk \in Dropped(m) THEN NoKey ELSE table.pk
      /\ t.auto = Restated(m, table.auto, Entity[m].auto)
      /\ t.virtual = Restated(m, table.virtual, Entity[m].virtual)
      /\ t.narrow = Restated(m, table.narrow, Entity[m].narrow)
      /\ t.rows = [count |-> table.rows.count,
                   same  |-> (table.rows.same \ Dropped(m)) \cup Filled(m),
                   large |-> table.rows.large \ Dropped(m)]
      /\ t = [cols |-> t.cols, uniq |-> t.uniq, pk |-> t.pk, auto |-> t.auto,
              virtual |-> t.virtual, narrow |-> t.narrow, rows |-> t.rows]
  BY AlteredParts
<1>2. /\ t.cols \in Seq(Columns) /\ Distinct(t.cols)
      /\ ToSet(t.cols) = fields \cup (ToSet(table.cols) \ Dropped(m))
  BY AlteredColumns
<1>3. OneAuto(t) /\ Holds(t, t.rows)
  BY AlteredHolds DEF Accepted
<1> HIDE DEF t
<1>4. /\ table.uniq \subseteq ToSet(table.cols) /\ table.pk \in ToSet(table.cols) \cup {NoKey}
      /\ table.virtual \subseteq ToSet(table.cols) /\ table.narrow \subseteq ToSet(table.cols)
      /\ table.auto \subseteq ToSet(table.cols)
  BY DEF WellFormed, Keys, OneAuto
<1>5. /\ ToSet(table.cols) \subseteq Columns /\ table.rows.count \in 0..2
      /\ table.rows.same \subseteq Columns /\ table.rows.large \subseteq Columns
  BY DEF WellFormed, TableRecords, RowRecords, ToSet
<1>6. fields \subseteq Columns
  BY FieldsTyped
<1>7. NewUniq(m) \subseteq fields
  BY FieldsTyped DEF NewUniq
<1>8. NewPk(m) \in fields \cup {NoKey}
  BY PkIsField DEF NewPk, AlterPk
<1>9. t.uniq \subseteq ToSet(t.cols) /\ t.pk \in ToSet(t.cols) \cup {NoKey}
  BY <1>1, <1>2, <1>4, <1>7, <1>8
<1>10. /\ t.auto \subseteq ToSet(t.cols) /\ t.virtual \subseteq ToSet(t.cols)
       /\ t.narrow \subseteq ToSet(t.cols)
  BY <1>1, <1>2, <1>4, RestatedColumns, FieldsTyped
<1>11. ToSet(t.cols) \subseteq Columns
  BY <1>2, <1>5, <1>6
<1>12. t.rows \in RowRecords
  <2>1. Filled(m) \subseteq Columns
    BY <1>6 DEF Filled, Added
  <2> QED
    BY <1>1, <1>5, <2>1 DEF RowRecords
<1>13. t \in TableRecords
  <2>1. /\ t.uniq \in SUBSET Columns /\ t.pk \in Columns \cup {NoKey}
        /\ t.auto \in SUBSET Columns /\ t.virtual \in SUBSET Columns
        /\ t.narrow \in SUBSET Columns
    BY <1>9, <1>10, <1>11
  <2> QED
    BY <1>1, <1>2, <1>12, <2>1 DEF TableRecords
<1>14. Keys(t) \cup t.virtual \cup t.narrow \subseteq ToSet(t.cols)
  BY <1>9, <1>10 DEF Keys
<1> QED
  BY <1>2, <1>3, <1>13, <1>14 DEF WellFormed, t

-----------------------------------------------------------------------------
(* What a step changes, and what stays true of the readings *)

\* Where no two columns would be AUTO_INCREMENT, a statement computed from a
\* true reading leaves one, with a key: AlterTable adds the index.
LEMMA OneAutoWhenFresh ==
  ASSUME NEW m \in Migrators, WellFormed(table), ~SecondAuto(m), table # NoTable,
         cols[m] = table.cols, idxs[m] = table.uniq, hasPk[m] <=> table.pk # NoKey
  PROVE  OneAuto(Altered(m))
<1> DEFINE t == Altered(m)
           fields == ToSet(Entity[m].fields)
           kept == table.auto \ (fields \cup Dropped(m))
<1>1. /\ t.uniq = (table.uniq \ Dropped(m)) \cup NewUniq(m)
      /\ t.pk = IF NewPk(m) # NoKey THEN NewPk(m)
                ELSE IF table.pk \in Dropped(m) THEN NoKey ELSE table.pk
      /\ t.auto = Entity[m].auto \cup kept
  BY AlteredParts DEF Restated
<1> HIDE DEF t
<1>2. /\ table.auto \subseteq Keys(table) /\ \A c, d \in table.auto : c = d
      /\ Keys(table) \subseteq ToSet(table.cols)
  BY DEF WellFormed, OneAuto
<1>3. ASSUME NEW c \in Entity[m].auto PROVE c \in Keys(t)
  <2>1. c \notin Dropped(m)
    BY FieldsTyped DEF Dropped
  <2>2. c \in table.uniq \/ c \in NewUniq(m)
    BY DEF NewUniq
  <2> QED
    BY <1>1, <2>1, <2>2 DEF Keys
<1>4. ASSUME NEW c \in kept PROVE c \in Keys(t)
  <2>1. c \in Keys(table) /\ c \notin Dropped(m)
    BY <1>2
  <2>2. CASE c \in table.uniq
    BY <1>1, <2>1, <2>2 DEF Keys
  <2>3. CASE c = table.pk /\ c # NoKey
    BY <1>1, <2>1, <2>3 DEF Keys, NewPk
  <2> QED
    BY <2>1, <2>2, <2>3 DEF Keys
<1>5. Entity[m].auto # {} => kept = {}
  BY <1>2 DEF SecondAuto, Dropped
<1>6. \A c, d \in t.auto : c = d
  <2>1. \A c, d \in Entity[m].auto : c = d
    BY DEF SecondAuto
  <2> QED
    BY <1>1, <1>2, <1>5, <2>1
<1> QED
  BY <1>1, <1>3, <1>4, <1>6 DEF OneAuto, t

\* Where the rows are not in the way, they fit a statement computed from a true
\* reading.
LEMMA RowsFitWhenFresh ==
  ASSUME NEW m \in Migrators, WellFormed(table), ~RowsInTheWay(m), table # NoTable,
         cols[m] = table.cols
  PROVE  RowsFit(m)
<1> DEFINE keys == Entity[m].uniq \cup Entity[m].auto \cup {AlterPk(Entity[m])}
<1>1. Added(m) = ToSet(Entity[m].fields) \ ToSet(table.cols)
  BY DEF Added
<1>2. /\ table.rows.same \cap keys = {}
      /\ table.rows.large \cap Entity[m].narrow = {}
      /\ table.rows.count > 0 => Added(m) \cap Entity[m].unfilled = {}
      /\ table.rows.count = 2
           => (Added(m) \cap keys) \ (Entity[m].auto \cup Entity[m].null) = {}
  BY <1>1 DEF RowsInTheWay
<1>3. NewUniq(m) \cup ({NewPk(m)} \ {NoKey}) \subseteq keys
  BY DEF NewUniq, NewPk
<1>4. Filled(m) \cap keys = {}
  <2> HIDE DEF keys
  <2> QED
    BY <1>2 DEF Filled
<1> HIDE DEF keys
<1> QED
  BY <1>2, <1>3, <1>4 DEF RowsFit

\* Nothing about the table itself keeps it from becoming the struct's.
Possible(m) == ~SecondAuto(m) /\ ~KeylessAuto(m) /\ ~TurnsVirtual(m) /\ ~RowsInTheWay(m)

\* From a true reading the statement is accepted: CreateTable and AlterTable
\* (sqlike/table.go, mysql/table.go) write no clause MySQL refuses.
LEMMA AcceptedWhenFresh ==
  ASSUME NEW m \in Migrators, FreshFor(m), TableOK, Possible(m)
  PROVE  /\ pc[m] = "create" => Creatable(m)
         /\ pc[m] = "alter" => Accepted(m)
<1>1. ASSUME pc[m] = "create" PROVE Creatable(m)
  <2>1. table = NoTable
    BY <1>1 DEF FreshFor
  <2>2. \A c, d \in Entity[m].auto : c = d
    BY DEF Possible, SecondAuto
  <2>3. Entity[m].auto \subseteq Entity[m].uniq \cup {CreatePk(Entity[m])}
    BY <2>1 DEF Possible, KeylessAuto
  <2>4. CASE Entity[m].auto = {}
    BY <2>1, <2>4 DEF Creatable, OneAuto, Created
  <2>5. CASE Entity[m].auto # {}
    <3>1. Entity[m].auto \subseteq Keys(Created(m))
      <4>1. NoKey \notin Entity[m].auto
        BY NoKeyAssumption, FieldsTyped
      <4> QED
        BY <2>3, <4>1 DEF Keys, Created
    <3> QED
      BY <2>1, <2>2, <3>1 DEF Creatable, OneAuto, Created
  <2> QED
    BY <2>4, <2>5
<1>2. ASSUME pc[m] = "alter" PROVE Accepted(m)
  <2>1. /\ table # NoTable /\ cols[m] = table.cols /\ idxs[m] = table.uniq
        /\ hasPk[m] <=> table.pk # NoKey
    BY <1>2 DEF FreshFor
  <2>2. Modified(m) \cup Dropped(m) \subseteq ToSet(table.cols)
    BY <2>1 DEF Modified, Dropped
  <2>3. Added(m) \cap ToSet(table.cols) = {}
    BY <2>1 DEF Added
  <2>4. NewUniq(m) \cap table.uniq = {}
    BY <2>1 DEF NewUniq
  <2>5. NewPk(m) # NoKey => table.pk = NoKey
    BY <2>1 DEF NewPk
  <2>6. WellFormed(table)
    BY <2>1 DEF TableOK
  <2>7. OneAuto(Altered(m))
    BY <2>1, <2>6, OneAutoWhenFresh DEF Possible
  <2>8. Modified(m) \cap table.virtual = Modified(m) \cap Entity[m].virtual
    BY <2>1 DEF Possible, TurnsVirtual, Modified
  <2>9. RowsFit(m)
    BY <2>1, <2>6, RowsFitWhenFresh DEF Possible
  <2> QED
    BY <2>1, <2>2, <2>3, <2>4, <2>5, <2>7, <2>8, <2>9 DEF Accepted
<1> QED
  BY <1>1, <1>2

\* A change of the table by one migration, which ends with it, disturbs every
\* other one that is under way.
LEMMA ApplyDisturbs ==
  ASSUME Types, Fresh, NEW m \in Migrators, NEW t, Apply(m, t), NEW o \in Migrators, o # m,
         pc'[o] = pc[o], Undisturbed(o)', cut'[o] = cut[o]
  PROVE  pc[o] \in {"start", "end"} /\ FreshFor(o)'
<1>1. raced'[o] = (raced[o] \/ pc[o] \notin {"start", "end"})
  BY DEF Apply
<1>2. pc[o] \in {"start", "end"}
  BY <1>1 DEF Undisturbed, Types
<1> QED
  BY <1>2 DEF FreshFor

\* A step of one migration leaves what the others have read.
StepOf(m) == migrateOne(m) \/ ListingCutShort(m) \/ ConnectionBreaks(m)

LEMMA OthersKeep ==
  ASSUME Types, NEW m \in Migrators, StepOf(m), NEW o \in Migrators, o # m
  PROVE  /\ pc'[o] = pc[o] /\ cols'[o] = cols[o] /\ idxs'[o] = idxs[o]
         /\ hasPk'[o] = hasPk[o] /\ result'[o] = result[o] /\ cut'[o] = cut[o]
<1> USE DEF Types, Goto, End
<1>1. CASE Start(m)
  BY <1>1 DEF Start
<1>2. CASE Exists(m)
  BY <1>2 DEF Exists
<1>3. CASE ListColumns(m)
  BY <1>3 DEF ListColumns
<1>4. CASE ListIndexes(m)
  BY <1>4 DEF ListIndexes
<1>5. CASE HasPrimaryKey(m)
  BY <1>5 DEF HasPrimaryKey
<1>6. CASE CreateTable(m)
  BY <1>6 DEF CreateTable
<1>7. CASE AlterTable(m)
  BY <1>7 DEF AlterTable
<1>8. CASE ListingCutShort(m)
  BY <1>8 DEF ListingCutShort
<1>9. CASE ConnectionBreaks(m)
  BY <1>9 DEF ConnectionBreaks
<1> QED
  BY <1>1, <1>2, <1>3, <1>4, <1>5, <1>6, <1>7, <1>8, <1>9 DEF StepOf, migrateOne

LEMMA TypesStep ==
  ASSUME Types, NEW m \in Migrators, StepOf(m)
  PROVE  Types'
<1> USE DEF Types, Goto, End, Apply, Places, Answers
<1>1. CASE Start(m)
  BY <1>1 DEF Start
<1>2. CASE Exists(m)
  BY <1>2 DEF Exists
<1>3. CASE ListColumns(m)
  BY <1>3 DEF ListColumns
<1>4. CASE ListIndexes(m)
  BY <1>4 DEF ListIndexes
<1>5. CASE HasPrimaryKey(m)
  BY <1>5 DEF HasPrimaryKey
<1>6. CASE CreateTable(m)
  <2>1. /\ UNCHANGED <<cols, idxs, hasPk, cut>>
        /\ pc' = [pc EXCEPT ![m] = "end"]
        /\ \E r \in Answers : result' = [result EXCEPT ![m] = r]
    BY <1>6 DEF CreateTable
  <2>2. DOMAIN raced' = Migrators
    BY <1>6 DEF CreateTable
  <2> QED
    BY <2>1, <2>2
<1>7. CASE AlterTable(m)
  <2>1. /\ UNCHANGED <<cols, idxs, hasPk, cut>>
        /\ pc' = [pc EXCEPT ![m] = "end"]
        /\ \E r \in Answers : result' = [result EXCEPT ![m] = r]
    BY <1>7 DEF AlterTable
  <2>2. DOMAIN raced' = Migrators
    BY <1>7 DEF AlterTable
  <2> QED
    BY <2>1, <2>2
<1>8. CASE ListingCutShort(m)
  BY <1>8 DEF ListingCutShort
<1>9. CASE ConnectionBreaks(m)
  BY <1>9 DEF ConnectionBreaks
<1> QED
  BY <1>1, <1>2, <1>3, <1>4, <1>5, <1>6, <1>7, <1>8, <1>9 DEF StepOf, migrateOne

\* A step changes the table only as the last of its migration.
LEMMA TableChanges ==
  ASSUME NEW m \in Migrators, StepOf(m), Types
  PROVE  UNCHANGED <<table, raced>> \/ (pc'[m] = "end" /\ \E t : Apply(m, t))
<1> USE DEF Types, Goto, End
<1>1. CASE CreateTable(m)
  BY <1>1 DEF CreateTable
<1>2. CASE AlterTable(m)
  BY <1>2 DEF AlterTable
<1>3. CASE ConnectionBreaks(m)
  BY <1>3 DEF ConnectionBreaks
<1>4. CASE \/ Start(m) \/ Exists(m) \/ ListColumns(m) \/ ListIndexes(m)
           \/ HasPrimaryKey(m) \/ ListingCutShort(m)
  BY <1>4 DEF Start, Exists, ListColumns, ListIndexes, HasPrimaryKey, ListingCutShort
<1> QED
  BY <1>1, <1>2, <1>3, <1>4 DEF StepOf, migrateOne

\* A migration reads the table as it is.
LEMMA OwnReading ==
  ASSUME Types, Fresh, NEW m \in Migrators, StepOf(m), Undisturbed(m)'
  PROVE  FreshFor(m)'
<1> USE DEF Types, Goto, End
<1>1. CASE pc'[m] = "end"
  BY <1>1 DEF FreshFor
<1>2. CASE pc'[m] # "end"
  <2>1. ~ListingCutShort(m)
    BY DEF ListingCutShort, Undisturbed
  <2>2. ~CreateTable(m) /\ ~AlterTable(m) /\ ~ConnectionBreaks(m)
    BY <1>2 DEF CreateTable, AlterTable, ConnectionBreaks
  <2>3. Start(m) \/ Exists(m) \/ ListColumns(m) \/ ListIndexes(m) \/ HasPrimaryKey(m)
    BY <2>1, <2>2 DEF StepOf, migrateOne
  <2>4. UNCHANGED <<table, raced, cut>>
    BY <2>3 DEF Start, Exists, ListColumns, ListIndexes, HasPrimaryKey
  <2>5. FreshFor(m)
    BY <2>4 DEF Fresh, Undisturbed
  <2>6. CASE Start(m)
    BY <2>6 DEF Start, FreshFor
  <2>7. CASE Exists(m)
    BY <2>7 DEF Exists, FreshFor
  <2>8. CASE ListColumns(m)
    BY <2>5, <2>8 DEF ListColumns, FreshFor
  <2>9. CASE ListIndexes(m)
    BY <2>5, <2>9 DEF ListIndexes, FreshFor
  <2>10. CASE HasPrimaryKey(m)
    BY <2>5, <2>10 DEF HasPrimaryKey, FreshFor
  <2> QED
    BY <2>3, <2>6, <2>7, <2>8, <2>9, <2>10
<1> QED
  BY <1>1, <1>2

LEMMA FreshStep ==
  ASSUME Types, Fresh, NEW m \in Migrators, StepOf(m)
  PROVE  Fresh'
<1> SUFFICES ASSUME NEW o \in Migrators, Undisturbed(o)', o # m
             PROVE  FreshFor(o)'
  BY OwnReading DEF Fresh
<1>1. /\ pc'[o] = pc[o] /\ cols'[o] = cols[o] /\ idxs'[o] = idxs[o]
      /\ hasPk'[o] = hasPk[o] /\ cut'[o] = cut[o]
  BY OthersKeep
<1>2. CASE UNCHANGED <<table, raced>>
  <2>1. FreshFor(o)
    BY <1>1, <1>2 DEF Fresh, Undisturbed
  <2> QED
    BY <1>1, <1>2, <2>1 DEF FreshFor
<1>3. CASE \E t : Apply(m, t)
  BY <1>1, <1>3, ApplyDisturbs
<1> QED
  BY <1>2, <1>3, TableChanges

\* Only CreateTable and AlterTable end with a refusal.
LEMMA RefusedStep ==
  ASSUME Types, NEW m \in Migrators, StepOf(m), Refused(m)
  PROVE  (pc[m] = "create" /\ ~Creatable(m)) \/ (pc[m] = "alter" /\ ~Accepted(m))
<1> USE DEF Types, Goto, End, Refused
<1>1. CASE CreateTable(m)
  BY <1>1 DEF CreateTable
<1>2. CASE AlterTable(m)
  BY <1>2 DEF AlterTable
<1>3. CASE ConnectionBreaks(m)
  BY <1>3 DEF ConnectionBreaks
<1>4. CASE \/ Start(m) \/ Exists(m) \/ ListColumns(m) \/ ListIndexes(m)
           \/ HasPrimaryKey(m) \/ ListingCutShort(m)
  BY <1>4 DEF Start, Exists, ListColumns, ListIndexes, HasPrimaryKey, ListingCutShort
<1> QED
  BY <1>1, <1>2, <1>3, <1>4 DEF StepOf, migrateOne

-----------------------------------------------------------------------------
(* The table under the statements *)

\* A statement that the server executes, and what it makes of the table.
Executed(m) ==
    /\ pc'[m] = "end" /\ result'[m] # "none"
    /\ \/ pc[m] = "create" /\ Creatable(m) /\ table' = Created(m)
       \/ pc[m] = "alter" /\ Accepted(m) /\ table' = Altered(m)

LEMMA StepExecutes ==
  ASSUME Types, NEW m \in Migrators, StepOf(m)
  PROVE  /\ table' = table \/ Executed(m)
         /\ drops' = drops
         /\ result'[m] # result[m] => pc'[m] = "end" /\ result'[m] # "none"
<1> USE DEF Types, Goto, End, Apply, Executed
<1>1. CASE CreateTable(m)
  BY <1>1 DEF CreateTable
<1>2. CASE AlterTable(m)
  BY <1>2 DEF AlterTable
<1>3. CASE ConnectionBreaks(m)
  BY <1>3 DEF ConnectionBreaks
<1>4. CASE \/ Start(m) \/ Exists(m) \/ ListColumns(m) \/ ListIndexes(m)
           \/ HasPrimaryKey(m) \/ ListingCutShort(m)
  BY <1>4 DEF Start, Exists, ListColumns, ListIndexes, HasPrimaryKey, ListingCutShort
<1> QED
  BY <1>1, <1>2, <1>3, <1>4 DEF StepOf, migrateOne

LEMMA ExecutedWellFormed ==
  ASSUME TableOK, NEW m \in Migrators, Executed(m)
  PROVE  WellFormed(table')
<1>1. CASE Creatable(m) /\ table' = Created(m)
  BY <1>1, CreatedWellFormed
<1>2. CASE Accepted(m) /\ table' = Altered(m)
  <2>1. WellFormed(table)
    BY <1>2 DEF Accepted, TableOK
  <2> QED
    BY <1>2, <2>1, AlteredWellFormed
<1> QED
  BY <1>1, <1>2 DEF Executed

LEMMA ReadStep ==
  ASSUME Types, TableOK, ReadOK, NEW m \in Migrators, StepOf(m)
  PROVE  ReadOK'
<1>1. ASSUME table # NoTable
      PROVE  /\ table.cols \in Seq(Columns) /\ table.uniq \in SUBSET Columns
             /\ \A n \in 0..(Len(table.cols) - 1) : SubSeq(table.cols, 1, n) \in Seq(Columns)
  <2>1. table.cols \in Seq(Columns) /\ table.uniq \in SUBSET Columns
    BY <1>1 DEF TableOK, WellFormed, TableRecords
  <2>2. Len(table.cols) \in Nat
    BY <2>1
  <2>3. ASSUME NEW n \in 0..(Len(table.cols) - 1)
        PROVE  SubSeq(table.cols, 1, n) \in Seq(Columns)
    <3>1. n \in Nat /\ n <= Len(table.cols)
      BY <2>2
    <3> QED
      BY <2>1, <3>1
  <2> QED
    BY <2>1, <2>3
<1> USE DEF ReadOK
<1>2. CASE ListColumns(m)
  BY <1>1, <1>2 DEF ListColumns
<1>3. CASE ListIndexes(m)
  BY <1>1, <1>3 DEF ListIndexes
<1>4. CASE ListingCutShort(m)
  <2>1. CASE /\ \E n \in 0..(Len(table.cols) - 1) :
                   cols' = [cols EXCEPT ![m] = SubSeq(table.cols, 1, n)]
             /\ UNCHANGED idxs
    BY <1>1, <1>4, <2>1 DEF ListingCutShort
  <2>2. CASE /\ \E some \in SUBSET table.uniq : idxs' = [idxs EXCEPT ![m] = some]
             /\ UNCHANGED cols
    BY <1>1, <1>4, <2>2 DEF ListingCutShort
  <2> QED
    BY <1>4, <2>1, <2>2 DEF ListingCutShort
<1>5. CASE \/ Start(m) \/ Exists(m) \/ HasPrimaryKey(m) \/ CreateTable(m)
           \/ AlterTable(m) \/ ConnectionBreaks(m)
  BY <1>5 DEF Start, Exists, HasPrimaryKey, CreateTable, AlterTable, ConnectionBreaks
<1> QED
  BY <1>2, <1>3, <1>4, <1>5 DEF StepOf, migrateOne

LEMMA TableStep ==
  ASSUME Types, TableOK, NEW m \in Migrators, StepOf(m)
  PROVE  TableOK' /\ (table # NoTable => table' # NoTable)
<1>1. CASE table' = table
  BY <1>1 DEF TableOK, WellFormed, TableRecords
<1>2. CASE Executed(m)
  <2>1. WellFormed(table')
    BY <1>2, ExecutedWellFormed
  <2>2. table' # NoTable
    BY <2>1, TableAssumption DEF WellFormed
  <2> QED
    BY <2>1, <2>2 DEF TableOK, WellFormed, TableRecords
<1> QED
  BY <1>1, <1>2, StepExecutes

\* Success is the answer to a statement that the server executed.
LEMMA NilExecuted ==
  ASSUME Types, NEW m \in Migrators, StepOf(m), result'[m] = "nil", result[m] # "nil"
  PROVE  Executed(m)
<1> USE DEF Types, Goto, End, Apply, Executed
<1>1. CASE CreateTable(m)
  BY <1>1 DEF CreateTable
<1>2. CASE AlterTable(m)
  BY <1>2 DEF AlterTable
<1>3. CASE ConnectionBreaks(m)
  BY <1>3 DEF ConnectionBreaks
<1>4. CASE \/ Start(m) \/ Exists(m) \/ ListColumns(m) \/ ListIndexes(m)
           \/ HasPrimaryKey(m) \/ ListingCutShort(m)
  BY <1>4 DEF Start, Exists, ListColumns, ListIndexes, HasPrimaryKey, ListingCutShort
<1> QED
  BY <1>1, <1>2, <1>3, <1>4 DEF StepOf, migrateOne

LEMMA ThereStep ==
  ASSUME Types, TableOK, There, NEW m \in Migrators, StepOf(m)
  PROVE  There'
<1> SUFFICES ASSUME drops = 0, NEW o \in Migrators,
                    result'[o] = "nil" \/ pc'[o] \in {"columns", "indexes", "key", "alter"}
             PROVE  table' # NoTable
  BY StepExecutes DEF There
<1>1. table # NoTable => table' # NoTable
  BY TableStep
<1>2. CASE o # m
  BY <1>1, <1>2, OthersKeep DEF There
<1>3. CASE o = m /\ result'[m] = "nil"
  <2>1. CASE result[m] = "nil"
    BY <1>1, <2>1 DEF There
  <2>2. CASE result[m] # "nil"
    <3>1. Executed(m)
      BY <1>3, <2>2, NilExecuted
    <3>2. WellFormed(table')
      BY <3>1, ExecutedWellFormed
    <3> QED
      BY <3>2, TableAssumption DEF WellFormed
  <2> QED
    BY <2>1, <2>2
<1>4. CASE o = m /\ pc'[m] \in {"columns", "indexes", "key", "alter"}
  <2> USE DEF Types, Goto, End
  <2>1. CASE Start(m)
    BY <1>4, <2>1 DEF Start
  <2>2. CASE Exists(m)
    BY <1>1, <1>4, <2>2 DEF Exists
  <2>3. CASE ListColumns(m) \/ ListIndexes(m) \/ HasPrimaryKey(m) \/ ListingCutShort(m)
    BY <1>1, <1>4, <2>3 DEF There, ListColumns, ListIndexes, HasPrimaryKey, ListingCutShort
  <2>4. CASE CreateTable(m) \/ AlterTable(m) \/ ConnectionBreaks(m)
    BY <1>4, <2>4 DEF CreateTable, AlterTable, ConnectionBreaks
  <2> QED
    BY <2>1, <2>2, <2>3, <2>4 DEF StepOf, migrateOne
<1> QED
  BY <1>2, <1>3, <1>4

LEMMA KeptStep ==
  ASSUME Types, TableOK, There, SafeKeepsColumns, NEW m \in Migrators, StepOf(m)
  PROVE  SafeKeepsColumns'
<1> SUFFICES ASSUME drops = 0, \A u \in Unsafe : result'[u] = "none",
                    NEW o \in Migrators, result'[o] = "nil"
             PROVE  ToSet(Entity[o].fields) \subseteq ToSet(table'.cols)
  BY StepExecutes DEF SafeKeepsColumns
<1>1. \A u \in Unsafe : result[u] = "none"
  BY UnsafeAssumption, OthersKeep, StepExecutes
<1>2. CASE result[o] = "nil"
  <2>1. table # NoTable /\ ToSet(Entity[o].fields) \subseteq ToSet(table.cols)
    BY <1>1, <1>2 DEF There, SafeKeepsColumns
  <2>2. CASE table' = table
    BY <2>1, <2>2
  <2>3. CASE Executed(m)
    <3>1. m \notin Unsafe /\ table' = Altered(m) /\ WellFormed(table)
      BY <2>1, <2>3 DEF Executed, TableOK, Creatable
    <3>2. Dropped(m) = {}
      BY <3>1 DEF Dropped
    <3> QED
      BY <2>1, <3>1, <3>2, AlteredColumns
  <2> QED
    BY <2>2, <2>3, StepExecutes
<1>3. CASE result[o] # "nil"
  <2>1. o = m /\ Executed(m)
    BY <1>3, OthersKeep, NilExecuted
  <2>2. CASE table' = Created(m)
    BY <2>1, <2>2 DEF Created
  <2>3. CASE table # NoTable /\ table' = Altered(m)
    BY <2>1, <2>3, AlteredColumns DEF TableOK
  <2> QED
    BY <2>1, <2>2, <2>3 DEF Executed, Accepted
<1> QED
  BY <1>2, <1>3

LEMMA UniqHeldStep ==
  ASSUME Types, TableOK, There, UniqHeld, NEW m \in Migrators, StepOf(m)
  PROVE  UniqHeld'
<1> SUFFICES ASSUME NEW o \in Migrators, drops = 0, UniqueKept(o)', pc'[o] \in {"key", "alter"}
             PROVE  idxs'[o] \cap Entity[o].uniq \subseteq table'.uniq
  BY StepExecutes DEF UniqHeld
<1>1. UniqueKept(o)
  <2>1. ASSUME NEW u \in Unsafe, result'[u] = "none" PROVE result[u] = "none"
    BY <2>1, UnsafeAssumption, OthersKeep, StepExecutes
  <2> QED
    BY <2>1 DEF UniqueKept
<1>2. CASE o = m
  <2> USE DEF Types, Goto, End
  <2>1. CASE ListIndexes(m)
    <3>1. table # NoTable
      BY <2>1 DEF ListIndexes, There
    <3> QED
      BY <1>2, <2>1, <3>1 DEF ListIndexes
  <2>2. CASE ListingCutShort(m)
    <3>1. pc[m] = "indexes" /\ table' = table
      BY <1>2, <2>2 DEF ListingCutShort
    <3>2. PICK some \in SUBSET table.uniq : idxs' = [idxs EXCEPT ![m] = some]
      BY <2>2, <3>1 DEF ListingCutShort
    <3> QED
      BY <1>2, <3>1, <3>2
  <2>3. CASE HasPrimaryKey(m)
    BY <1>1, <1>2, <2>3 DEF HasPrimaryKey, UniqHeld
  <2>4. CASE \/ Start(m) \/ Exists(m) \/ ListColumns(m) \/ CreateTable(m)
             \/ AlterTable(m) \/ ConnectionBreaks(m)
    BY <1>2, <2>4 DEF Start, Exists, ListColumns, CreateTable, AlterTable, ConnectionBreaks
  <2> QED
    BY <2>1, <2>2, <2>3, <2>4 DEF StepOf, migrateOne
<1>3. CASE o # m
  <2>1. pc[o] \in {"key", "alter"} /\ idxs'[o] = idxs[o]
    BY <1>3, OthersKeep
  <2>2. idxs[o] \cap Entity[o].uniq \subseteq table.uniq /\ table # NoTable
    BY <1>1, <2>1 DEF UniqHeld, There
  <2>3. CASE Executed(m)
    <3>1. table' = Altered(m) /\ result'[m] # "none"
      BY <2>2, <2>3 DEF Executed, Creatable
    <3>2. Dropped(m) \cap Entity[o].uniq = {}
      <4>1. CASE m \in Unsafe
        <5>1. Entity[o].uniq \subseteq ToSet(Entity[m].fields)
          BY <1>3, <3>1, <4>1 DEF UniqueKept
        <5> QED
          BY <5>1 DEF Dropped
      <4>2. CASE m \notin Unsafe
        BY <4>2 DEF Dropped
      <4> QED
        BY <4>1, <4>2
    <3>3. table'.uniq = (table.uniq \ Dropped(m)) \cup NewUniq(m)
      BY <3>1 DEF Altered
    <3> QED
      BY <2>1, <2>2, <3>2, <3>3
  <2>4. CASE table' = table
    BY <2>1, <2>2, <2>4
  <2> QED
    BY <2>3, <2>4, StepExecutes
<1> QED
  BY <1>2, <1>3

-----------------------------------------------------------------------------
(* The theorems *)

LEMMA DropStep ==
  ASSUME Inv, Drop
  PROVE  Inv'
<1>1. /\ UNCHANGED <<local, cut>> /\ table' = NoTable /\ drops' = drops + 1
      /\ raced' = [o \in Migrators |-> raced[o] \/ pc[o] \notin {"start", "end"}]
  BY DEF Drop
<1>2. Types' /\ TableOK' /\ ReadOK'
  BY <1>1 DEF Inv, Types, TableOK, ReadOK, local
<1>3. Fresh'
  <2> SUFFICES ASSUME NEW o \in Migrators, Undisturbed(o)' PROVE FreshFor(o)'
    BY DEF Fresh
  <2>1. pc'[o] \in {"start", "end"}
    BY <1>1 DEF Undisturbed, local, Inv, Types
  <2> QED
    BY <2>1 DEF FreshFor
<1>5. drops' # 0
  BY <1>1 DEF Inv, Dropping
<1>6. There' /\ SafeKeepsColumns' /\ UniqHeld'
  BY <1>5 DEF There, SafeKeepsColumns, UniqHeld
<1> QED
  BY <1>1, <1>2, <1>3, <1>6 DEF Inv, Dropping

\* New rows leave the columns, indexes and keys.
LEMMA WriteStep ==
  ASSUME Inv, Write
  PROVE  Inv'
<1>1. PICK rows \in Contents : Holds(table, rows) /\ table' = [table EXCEPT !.rows = rows]
  BY DEF Write
<1>2. UNCHANGED <<local, raced, cut, drops>> /\ table # NoTable
  BY DEF Write
<1>3. WellFormed(table)
  BY <1>2 DEF Inv, TableOK
<1>4. rows \in RowRecords
  BY ContentsAssumption
<1>5. table' \in TableRecords
  BY <1>1, <1>3, <1>4 DEF WellFormed, TableRecords
<1>6. /\ table'.cols = table.cols /\ table'.uniq = table.uniq /\ table'.pk = table.pk
      /\ table'.auto = table.auto /\ table'.virtual = table.virtual
      /\ table'.narrow = table.narrow /\ table'.rows = rows
  BY <1>1, <1>3 DEF WellFormed, TableRecords
<1>7. WellFormed(table')
  BY <1>1, <1>3, <1>5, <1>6 DEF WellFormed, Keys, OneAuto, Holds
<1>8. table' # NoTable
  BY <1>5, TableAssumption
<1>9. Types' /\ TableOK' /\ ReadOK' /\ Dropping'
  BY <1>2, <1>7 DEF Inv, Types, TableOK, WellFormed, TableRecords, Keys, OneAuto, Holds,
                    ReadOK, Dropping, local
<1>10. Fresh'
  BY <1>2, <1>6, <1>8 DEF Inv, Fresh, FreshFor, Undisturbed, local
<1>11. There' /\ SafeKeepsColumns' /\ UniqHeld'
  BY <1>2, <1>6, <1>8 DEF Inv, There, SafeKeepsColumns, UniqHeld, UniqueKept, local
<1> QED
  BY <1>9, <1>10, <1>11 DEF Inv

LEMMA InvInitially == Init => Inv
<1> SUFFICES ASSUME Init PROVE Inv
  OBVIOUS
<1>1. Types
  BY DEF Init, Types, Places, Answers
<1>2. TableOK /\ ReadOK
  BY TableAssumption DEF Init, TableOK, ReadOK
<1>3. Fresh
  BY DEF Init, Fresh, FreshFor
<1>4. There /\ SafeKeepsColumns /\ UniqHeld /\ Dropping
  BY DEF Init, There, SafeKeepsColumns, UniqHeld, Dropping
<1> QED
  BY <1>1, <1>2, <1>3, <1>4 DEF Inv

LEMMA InvInductive ==
  ASSUME Inv, [Next]_vars
  PROVE  Inv'
<1>1. CASE UNCHANGED vars
  BY <1>1 DEF vars, local, Inv, Types, TableOK, WellFormed, ReadOK, Fresh, FreshFor, Undisturbed,
              There, SafeKeepsColumns, UniqHeld, UniqueKept, Dropping
<1>2. CASE Drop
  BY <1>2, DropStep
<1>3. ASSUME NEW m \in Migrators, StepOf(m) PROVE Inv'
  <2>1. Types' /\ Fresh'
    BY <1>3, TypesStep, FreshStep DEF Inv
  <2>2. TableOK' /\ ReadOK' /\ Dropping'
    BY <1>3, TableStep, ReadStep, StepExecutes DEF Inv, Dropping
  <2>3. There' /\ SafeKeepsColumns' /\ UniqHeld'
    BY <1>3, ThereStep, KeptStep, UniqHeldStep DEF Inv
  <2> QED
    BY <2>1, <2>2, <2>3 DEF Inv
<1>4. CASE Write
  BY <1>4, WriteStep
<1> QED
  BY <1>1, <1>2, <1>3, <1>4 DEF Next, StepOf

LEMMA Invariance == Spec => []Inv
BY InvInitially, InvInductive, PTL DEF Spec

\* What the migrations read, and the tables they make: columns once each,
\* indexes and primary key on columns of the table.
THEOREM TypeCorrect == Spec => []TypeOK
<1>1. Inv => TypeOK
  BY DEF Inv, Types, Places, Answers, TableOK, ReadOK, TypeOK
<1> QED
  BY <1>1, Invariance, PTL

\* Migrate and UnsafeMigrate (sqlike/table.go) are refused only for what others
\* did meanwhile, for a listing that broke off, or for what the table and the
\* struct are: AUTO_INCREMENT columns, virtual ones, rows in the way.
THEOREM RefusalExplained == Spec => FailureExplained
<1>1. ASSUME Inv, [Next]_vars, NEW m \in Migrators, Refused(m), Undisturbed(m), Possible(m)
      PROVE  FALSE
  <2>1. ~UNCHANGED vars /\ ~Drop /\ ~Write
    BY <1>1 DEF Refused, vars, local, Drop, Write
  <2>2. PICK o \in Migrators : StepOf(o)
    BY <1>1, <2>1 DEF Next, StepOf
  <2>3. o = m
    BY <1>1, <2>2, OthersKeep DEF Refused, Inv
  <2>4. (pc[m] = "create" /\ ~Creatable(m)) \/ (pc[m] = "alter" /\ ~Accepted(m))
    BY <1>1, <2>2, <2>3, RefusedStep DEF Inv
  <2> QED
    BY <1>1, <2>4, AcceptedWhenFresh DEF Inv, Fresh
<1>2. Inv /\ [Next]_vars =>
        [\A m \in Migrators :
            Refused(m) => \/ raced[m] \/ cut[m]
                          \/ SecondAuto(m) \/ KeylessAuto(m)
                          \/ TurnsVirtual(m) \/ RowsInTheWay(m)]_vars
  BY <1>1 DEF Undisturbed, Possible
<1> QED
  BY <1>2, Invariance, PTL DEF Spec, FailureExplained

\* Migrate keeps every column a migration has put into the table, however
\* many migrate at once and whatever their structs are.
THEOREM ColumnsKept == Spec => []SafeKeepsColumns
<1>1. Inv => SafeKeepsColumns
  BY DEF Inv
<1> QED
  BY <1>1, Invariance, PTL

\* Who finishes with success has had a statement executed in that step.
LEMMA FinishStep ==
  ASSUME Inv, [Next]_vars, NEW m \in Migrators, Finishes(m)
  PROVE  StepOf(m) /\ Executed(m)
<1>1. ~UNCHANGED vars /\ ~Drop /\ ~Write
  BY DEF Finishes, vars, local, Drop, Write
<1>2. PICK o \in Migrators : StepOf(o)
  BY <1>1 DEF Next, StepOf
<1>3. o = m
  BY <1>2, OthersKeep DEF Finishes, Inv
<1> QED
  BY <1>2, <1>3, NilExecuted DEF Finishes, Inv

\* Success means that the table fits the struct, however old the reading is.
THEOREM SuccessMeansFit == Spec => SuccessFits
<1>1. ASSUME Inv, [Next]_vars, NEW m \in Migrators, Finishes(m)
      PROVE  FitsStruct(m)
  <2>1. Executed(m)
    BY <1>1, FinishStep
  <2>4. WellFormed(table')
    BY <1>1, <2>1, ExecutedWellFormed DEF Inv
  <2>2. CASE table' = Created(m)
    <3>2. table'.cols = Entity[m].fields /\ table'.uniq = Entity[m].uniq
      BY <2>2 DEF Created
    <3>3. IsPrefix(Entity[m].fields, table'.cols)
      BY <3>2 DEF IsPrefix
    <3> QED
      BY <2>4, <3>2, <3>3, TableAssumption DEF FitsStruct, WellFormed
  <2>3. CASE table # NoTable /\ table' = Altered(m) /\ pc[m] = "alter"
    <3>1. IsPrefix(Entity[m].fields, table'.cols)
      BY <1>1, <2>3, AlteredColumns DEF Inv, TableOK
    <3>2. table'.uniq = (table.uniq \ Dropped(m)) \cup NewUniq(m)
      BY <2>3 DEF Altered
    <3>3. ASSUME drops = 0, UniqueKept(m) PROVE Entity[m].uniq \subseteq table'.uniq
      <4>1. idxs[m] \cap Entity[m].uniq \subseteq table.uniq
        BY <1>1, <2>3, <3>3 DEF Inv, UniqHeld
      <4>2. Entity[m].uniq \cap Dropped(m) = {}
        BY FieldsTyped DEF Dropped
      <4>3. Entity[m].uniq \ idxs[m] \subseteq NewUniq(m)
        BY DEF NewUniq
      <4> QED
        BY <3>2, <4>1, <4>2, <4>3
    <3> QED
      BY <2>4, <3>1, <3>3, TableAssumption DEF FitsStruct, WellFormed
  <2> QED
    BY <2>1, <2>2, <2>3 DEF Executed, Accepted
<1>2. Inv /\ [Next]_vars => [\A m \in Migrators : Finishes(m) => FitsStruct(m)]_vars
  BY <1>1
<1> QED
  BY <1>2, Invariance, PTL DEF Spec, SuccessFits

\* UnsafeMigrate from a true reading leaves the struct's columns only.
THEOREM UnsafeMakesExact == Spec => UnsafeIsExact
<1>1. ASSUME Inv, [Next]_vars, NEW m \in Unsafe, Finishes(m), Undisturbed(m)
      PROVE  table'.cols = Entity[m].fields
  <2>1. m \in Migrators
    BY UnsafeAssumption
  <2>2. Executed(m) /\ FreshFor(m)
    BY <1>1, <2>1, FinishStep DEF Inv, Fresh
  <2>3. CASE table' = Created(m)
    BY <2>3 DEF Created
  <2>4. CASE table # NoTable /\ table' = Altered(m) /\ pc[m] = "alter"
    <3>1. cols[m] = table.cols
      BY <2>2, <2>4 DEF FreshFor
    <3>2. ToSet(table.cols) \subseteq ToSet(Entity[m].fields) \cup Dropped(m)
      BY <3>1 DEF Dropped
    <3> QED
      BY <1>1, <2>1, <2>4, <3>2, AlteredColumns DEF Inv, TableOK
  <2> QED
    BY <2>2, <2>3, <2>4 DEF Executed, Accepted
<1>2. Inv /\ [Next]_vars => [\A m \in Unsafe : Finishes(m) => MadeExact(m)]_vars
  BY <1>1 DEF MadeExact, Undisturbed
<1> QED
  BY <1>2, Invariance, PTL DEF Spec, UnsafeIsExact
=============================================================================
