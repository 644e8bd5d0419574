---------------------------- MODULE Migration ----------------------------
(* Table.Migrate and UnsafeMigrate (sqlike/table.go) and the DDL they send  *)
(* (mysql CreateTable and AlterTable), run by several processes at once as  *)
(* in a rolling deployment. A migration reads the catalogue in up to four   *)
(* queries and then executes one statement computed from what it read.      *)

EXTENDS SequencesExt, Ranking

CONSTANTS
    Migrators,   \* the processes that migrate
    Entity,      \* the struct each one migrates to
    Unsafe,      \* those that call UnsafeMigrate
    PkName,      \* the table's default primary key column
    NoTable,     \* the table does not exist
    NoKey,       \* no primary key
    Tables,      \* the tables that may be there at first
    Contents,    \* the rows that other programs may put into the table
    MaxStarts,   \* bound: how many of the migrators migrate
    MaxDrops,    \* bound: DROP TABLE by somebody else
    MaxWrites,   \* bound: changes of the rows
    MaxFaults    \* bound: broken connections

\* A struct: its columns in order (generated ones included) and which of them
\* are tagged primary_key (pktag), auto_increment (auto), unique_index (uniq)
\* and virtual_column (virtual), are NULL in the rows there when they are
\* added (null), have a type that some values of a wider one do not fit, NOT
\* NULL for one (narrow), and cannot be added where there are rows because
\* they have no value for them, a DATE for one (unfilled).
\* A table: its columns in order, the columns with a unique index, its primary
\* key, which columns are AUTO_INCREMENT, virtual and narrow, and of its rows
\* how many there are (2: two or more), the columns that are equal in two of
\* them and the columns with a value that does not fit a narrow type.
Columns == UNION {ToSet(Entity[m].fields) : m \in Migrators}
             \cup UNION {ToSet(t.cols) : t \in Tables \ {NoTable}}

Distinct(s) == \A i, j \in DOMAIN s : s[i] = s[j] => i = j

RowRecords == [count : 0..2, same : SUBSET Columns, large : SUBSET Columns]

TableRecords ==
    [cols : Seq(Columns), uniq : SUBSET Columns, pk : Columns \cup {NoKey},
     auto : SUBSET Columns, virtual : SUBSET Columns, narrow : SUBSET Columns,
     rows : RowRecords]

Keys(t) == t.uniq \cup ({t.pk} \ {NoKey})

\* What MySQL has a table of: at most one AUTO_INCREMENT column, with a key.
OneAuto(t) == t.auto \subseteq Keys(t) /\ \A c, d \in t.auto : c = d

\* The rows that a table can hold.
Holds(t, rows) ==
    /\ rows.same \subseteq ToSet(t.cols) \ Keys(t)
    /\ rows.large \subseteq ToSet(t.cols) \ t.narrow

WellFormed(t) ==
    /\ t \in TableRecords
    /\ Distinct(t.cols)
    /\ Keys(t) \cup t.virtual \cup t.narrow \subseteq ToSet(t.cols)
    /\ OneAuto(t) /\ Holds(t, t.rows)

\* The tags of a struct are on columns of it, and a key field is no pointer.
ASSUME StructAssumption ==
    \A m \in Migrators :
       /\ Entity[m].fields \in Seq(Columns) /\ Distinct(Entity[m].fields)
       /\ Entity[m].uniq \cup Entity[m].auto \cup Entity[m].pktag
            \cup Entity[m].virtual \cup Entity[m].narrow
            \subseteq ToSet(Entity[m].fields)
       /\ Entity[m].null \cap (Entity[m].auto \cup Entity[m].pktag \cup {PkName}) = {}

ASSUME UnsafeAssumption == Unsafe \subseteq Migrators

ASSUME TableAssumption ==
    NoTable \notin TableRecords /\ \A t \in Tables \ {NoTable} : WellFormed(t)

ASSUME NoKeyAssumption == NoKey \notin Columns

ASSUME ContentsAssumption == Contents \subseteq RowRecords

VARIABLES
    table,
    pc, cols, idxs, hasPk,   \* what each migration has read so far
    result,
    raced,      \* history: during the migration others changed the table
    cut,        \* history: a listing broke off and the migration was not told
    drops, writes, faults

local == <<pc, cols, idxs, hasPk, result>>
vars == <<table, local, raced, cut, drops, writes, faults>>

TypeOK ==
    /\ table = NoTable \/ WellFormed(table)
    /\ pc \in [Migrators -> {"start", "exists", "columns", "indexes", "key",
                             "create", "alter", "end"}]
    /\ result \in [Migrators -> {"none", "nil", "ddl error", "io error", "panic"}]
    /\ cols \in [Migrators -> Seq(Columns)]
    /\ idxs \in [Migrators -> SUBSET Columns]
    /\ hasPk \in [Migrators -> BOOLEAN]

Init ==
    /\ table \in Tables
    /\ pc = [m \in Migrators |-> "start"]
    /\ cols = [m \in Migrators |-> <<>>]
    /\ idxs = [m \in Migrators |-> {}]
    /\ hasPk = [m \in Migrators |-> FALSE]
    /\ result = [m \in Migrators |-> "none"]
    /\ raced = [m \in Migrators |-> FALSE]
    /\ cut = [m \in Migrators |-> FALSE]
    /\ drops = 0 /\ writes = 0 /\ faults = 0

Goto(m, place) == pc' = [pc EXCEPT ![m] = place]

End(m, answer) ==
    /\ Goto(m, "end")
    /\ result' = [result EXCEPT ![m] = answer]

\* The table changes under every other migration that is under way.
Apply(m, t) ==
    /\ table' = t
    /\ raced' = [o \in Migrators |->
                   raced[o] \/ (o # m /\ pc[o] \notin {"start", "end"})]

-----------------------------------------------------------------------------
(* Primary keys *)

\* The last of the tagged columns, the default one if none is tagged.
PkOf(e, tagged) ==
    LET at == {i \in DOMAIN e.fields : e.fields[i] \in tagged}
    IN  IF at # {} THEN e.fields[CHOOSE i \in at : \A j \in at : j <= i]
        ELSE IF PkName \in ToSet(e.fields) THEN PkName ELSE NoKey

\* CREATE TABLE counts an auto_increment tag as a primary key ...
CreatePk(e) == PkOf(e, e.pktag \cup e.auto)

\* ... ALTER TABLE does not.
AlterPk(e) == PkOf(e, e.pktag)

-----------------------------------------------------------------------------
(* Reading the catalogue *)

Start(m) ==
    /\ pc[m] = "start"
    /\ Cardinality({o \in Migrators : pc[o] # "start"}) < MaxStarts
    /\ Goto(m, "exists")
    /\ UNCHANGED <<table, cols, idxs, hasPk, result, raced, cut, drops, writes, faults>>

Exists(m) ==
    /\ pc[m] = "exists"
    /\ Goto(m, IF table = NoTable THEN "create" ELSE "columns")
    /\ UNCHANGED <<table, cols, idxs, hasPk, result, raced, cut, drops, writes, faults>>

\* The catalogue has no rows for a table that is gone.
ListColumns(m) ==
    /\ pc[m] = "columns"
    /\ cols' = [cols EXCEPT ![m] = IF table = NoTable THEN <<>> ELSE table.cols]
    /\ Goto(m, "indexes")
    /\ UNCHANGED <<table, idxs, hasPk, result, raced, cut, drops, writes, faults>>

ListIndexes(m) ==
    /\ pc[m] = "indexes"
    /\ idxs' = [idxs EXCEPT ![m] = IF table = NoTable THEN {} ELSE table.uniq]
    /\ Goto(m, "key")
    /\ UNCHANGED <<table, cols, hasPk, result, raced, cut, drops, writes, faults>>

\* The rows of a listing break off: nobody asks for rows.Err, so what has
\* arrived is taken for the whole.
ListingCutShort(m) ==
    /\ table # NoTable /\ faults < MaxFaults
    /\ \/ /\ pc[m] = "columns"
          /\ \E n \in 0..(Len(table.cols) - 1) :
                cols' = [cols EXCEPT ![m] = SubSeq(table.cols, 1, n)]
          /\ Goto(m, "indexes") /\ UNCHANGED idxs
       \/ /\ pc[m] = "indexes"
          /\ \E some \in SUBSET table.uniq : idxs' = [idxs EXCEPT ![m] = some]
          /\ Goto(m, "key") /\ UNCHANGED cols
    /\ cut' = [cut EXCEPT ![m] = TRUE]
    /\ faults' = faults + 1
    /\ UNCHANGED <<table, hasPk, result, raced, drops, writes>>

HasPrimaryKey(m) ==
    /\ pc[m] = "key"
    /\ hasPk' = [hasPk EXCEPT ![m] = table # NoTable /\ table.pk # NoKey]
    /\ Goto(m, "alter")
    /\ UNCHANGED <<table, cols, idxs, result, raced, cut, drops, writes, faults>>

-----------------------------------------------------------------------------
(* The statements *)

Created(m) ==
    [cols |-> Entity[m].fields, uniq |-> Entity[m].uniq, pk |-> CreatePk(Entity[m]),
     auto |-> Entity[m].auto, virtual |-> Entity[m].virtual, narrow |-> Entity[m].narrow,
     rows |-> [count |-> 0, same |-> {}, large |-> {}]]

\* MySQL refuses CREATE TABLE when the table exists by now, and when two
\* columns are AUTO_INCREMENT or one is that has no key.
Creatable(m) == table = NoTable /\ OneAuto(Created(m))

\* Mutant: CREATE TABLE IF NOT EXISTS, which says nothing about the columns.
CreateTable_IfNotExists(m) ==
    /\ pc[m] = "create"
    /\ IF Creatable(m) THEN Apply(m, Created(m)) ELSE UNCHANGED <<table, raced>>
    /\ End(m, "nil")
    /\ UNCHANGED <<cols, idxs, hasPk, cut, drops, writes, faults>>

CreateTable(m) ==
    /\ pc[m] = "create"
    /\ IF Creatable(m)
       THEN Apply(m, Created(m)) /\ End(m, "nil")
       ELSE End(m, "ddl error") /\ UNCHANGED <<table, raced>>
    /\ UNCHANGED <<cols, idxs, hasPk, cut, drops, writes, faults>>

\* The clauses AlterTable writes, from the lists the migration has read.
Modified(m) == ToSet(Entity[m].fields) \cap ToSet(cols[m])
Added(m)    == ToSet(Entity[m].fields) \ ToSet(cols[m])
NewPk(m)    == IF hasPk[m] THEN NoKey ELSE AlterPk(Entity[m])

\* Mutant: the indexes that exist are not looked up.
NewUniq_Blind(m) == Entity[m].uniq \cup Entity[m].auto

NewUniq(m) == (Entity[m].uniq \cup Entity[m].auto) \ idxs[m]

\* Mutant: leftover columns are dropped whether the migration is unsafe or not.
Dropped_Always(m) == ToSet(cols[m]) \ ToSet(Entity[m].fields)

\* Mutant: the loop over the listed columns starts behind the first one.
Dropped_KeepsFirst(m) ==
    IF m \in Unsafe
    THEN (ToSet(cols[m]) \ ToSet(Entity[m].fields)) \ ToSet(SubSeq(cols[m], 1, 1)) ELSE {}

Dropped(m) == IF m \in Unsafe THEN ToSet(cols[m]) \ ToSet(Entity[m].fields) ELSE {}

\* The places of the columns that the statement does not name, in order.
Unnamed(m) ==
    LET at == {i \in DOMAIN table.cols :
                  table.cols[i] \notin ToSet(Entity[m].fields) \cup Dropped(m)}
    IN  Arranged(at, {ij \in at \X at : ij[1] < ij[2]})

\* The added columns that get the same value in every row.
Filled(m) ==
    IF table.rows.count = 2 THEN Added(m) \ (Entity[m].auto \cup Entity[m].null) ELSE {}

\* What the struct says of its columns, and the table's of the others.
Restated(m, old, new) == new \cup (old \ (ToSet(Entity[m].fields) \cup Dropped(m)))

\* FIRST and AFTER put the struct's columns first, in its order. A dropped
\* column takes its unique index and its primary key along.
Altered(m) ==
    LET others == [k \in DOMAIN Unnamed(m) |-> table.cols[Unnamed(m)[k]]]
    IN  [cols |-> Entity[m].fields \o others,
         uniq |-> (table.uniq \ Dropped(m)) \cup NewUniq(m),
         pk   |-> IF NewPk(m) # NoKey THEN NewPk(m)
                  ELSE IF table.pk \in Dropped(m) THEN NoKey ELSE table.pk,
         auto    |-> Restated(m, table.auto, Entity[m].auto),
         virtual |-> Restated(m, table.virtual, Entity[m].virtual),
         narrow  |-> Restated(m, table.narrow, Entity[m].narrow),
         rows |-> [count |-> table.rows.count,
                   same  |-> (table.rows.same \ Dropped(m)) \cup Filled(m),
                   large |-> table.rows.large \ Dropped(m)]]

\* Every row fits: no two are equal in a new key, the values go into the new
\* types, and the new columns have values.
RowsFit(m) ==
    /\ (table.rows.same \cup Filled(m))
         \cap (NewUniq(m) \cup ({NewPk(m)} \ {NoKey})) = {}
    /\ table.rows.large \cap Modified(m) \cap Entity[m].narrow = {}
    /\ table.rows.count > 0 => Added(m) \cap Entity[m].unfilled = {}

\* MySQL executes all clauses of the statement or none. It does not make a
\* virtual column of another one, or the other way about. (The definition of
\* every single column is one that MySQL takes: no index on a JSON column.)
Accepted(m) ==
    /\ table # NoTable
    /\ Modified(m) \cup Dropped(m) \subseteq ToSet(table.cols)
    /\ Added(m) \cap ToSet(table.cols) = {}
    /\ NewUniq(m) \cap table.uniq = {}
    /\ NewPk(m) # NoKey => table.pk = NoKey
    /\ OneAuto(Altered(m))
    /\ Modified(m) \cap table.virtual = Modified(m) \cap Entity[m].virtual
    /\ RowsFit(m)

AlterTable(m) ==
    /\ pc[m] = "alter"
    /\ IF Accepted(m)
       THEN Apply(m, Altered(m)) /\ End(m, "nil")
       ELSE End(m, "ddl error") /\ UNCHANGED <<table, raced>>
    /\ UNCHANGED <<cols, idxs, hasPk, cut, drops, writes, faults>>

\* A query breaks, or the answer to the statement is lost after the server
\* has executed it. Exists panics.
ConnectionBreaks(m) ==
    /\ pc[m] \notin {"start", "end"} /\ faults < MaxFaults
    /\ \/ UNCHANGED <<table, raced>>
       \/ pc[m] = "create" /\ Creatable(m) /\ Apply(m, Created(m))
       \/ pc[m] = "alter" /\ Accepted(m) /\ Apply(m, Altered(m))
    /\ End(m, IF pc[m] = "exists" THEN "panic" ELSE "io error")
    /\ faults' = faults + 1
    /\ UNCHANGED <<cols, idxs, hasPk, cut, drops, writes>>

\* Table.Drop, by somebody else.
Drop ==
    /\ table # NoTable /\ drops < MaxDrops
    /\ table' = NoTable
    /\ raced' = [o \in Migrators |-> raced[o] \/ pc[o] \notin {"start", "end"}]
    /\ drops' = drops + 1
    /\ UNCHANGED <<local, cut, writes, faults>>

\* Other programs insert, update and delete rows.
Write ==
    /\ table # NoTable /\ writes < MaxWrites
    /\ \E rows \in Contents :
          Holds(table, rows) /\ table' = [table EXCEPT !.rows = rows]
    /\ writes' = writes + 1
    /\ UNCHANGED <<local, raced, cut, drops, faults>>

migrateOne(m) ==
    \/ Start(m) \/ Exists(m) \/ ListColumns(m) \/ ListIndexes(m)
    \/ HasPrimaryKey(m) \/ CreateTable(m) \/ AlterTable(m)

Next == (\E m \in Migrators : migrateOne(m) \/ ListingCutShort(m)
                               \/ ConnectionBreaks(m)) \/ Drop \/ Write

Spec == Init /\ [][Next]_vars

-----------------------------------------------------------------------------
(* Properties *)

Finishes(m) == result[m] = "none" /\ result'[m] = "nil"

\* No UnsafeMigrate has sent a statement that drops a unique column of m.
UniqueKept(m) ==
    \A u \in Unsafe \ {m} :
       result[u] = "none" \/ Entity[m].uniq \subseteq ToSet(Entity[u].fields)

\* What migration m's statement makes of the table.
FitsStruct(m) ==
    /\ table' # NoTable
    /\ IsPrefix(Entity[m].fields, table'.cols)
    /\ drops = 0 /\ UniqueKept(m) => Entity[m].uniq \subseteq table'.uniq

\* A migration that reports success has made the table fit its struct at that
\* moment, however stale its reading of the catalogue was: every column of
\* the struct, in its order and before all others, and every unique index,
\* unless its column was dropped and made anew after the indexes were read.
SuccessFits == [][\A m \in Migrators : Finishes(m) => FitsStruct(m)]_vars

\* Two columns of the table would be AUTO_INCREMENT: two fields are, or one is
\* and a column of another release stays.
SecondAuto(m) ==
    \/ \E c, d \in Entity[m].auto : c # d
    \/ /\ table # NoTable /\ Entity[m].auto # {}
       /\ m \notin Unsafe /\ ~(table.auto \subseteq ToSet(Entity[m].fields))

\* CREATE TABLE, other than ALTER TABLE, makes no index for auto_increment: the
\* column has no key where another one is the primary key.
KeylessAuto(m) ==
    table = NoTable /\ ~(Entity[m].auto \subseteq Entity[m].uniq \cup {CreatePk(Entity[m])})

\* A column of the table is virtual and the field is not, or the other way
\* about.
TurnsVirtual(m) ==
    /\ table # NoTable
    /\ \E c \in ToSet(Entity[m].fields) \cap ToSet(table.cols) :
          ~(c \in table.virtual <=> c \in Entity[m].virtual)

\* The rows are equal in a key the struct asks for, have values its types do
\* not take, or get no value, or one and the same, in a new column.
RowsInTheWay(m) ==
    /\ table # NoTable
    /\ LET new == ToSet(Entity[m].fields) \ ToSet(table.cols)
           keys == Entity[m].uniq \cup Entity[m].auto \cup {AlterPk(Entity[m])}
       IN  \/ table.rows.same \cap keys # {}
           \/ table.rows.large \cap Entity[m].narrow # {}
           \/ table.rows.count > 0 /\ new \cap Entity[m].unfilled # {}
           \/ /\ table.rows.count = 2
              /\ (new \cap keys) \ (Entity[m].auto \cup Entity[m].null) # {}

Refused(m) == result[m] = "none" /\ result'[m] = "ddl error"

\* A statement of a migration is refused only if somebody changed the table's
\* columns since it began, a listing broke off, or the table cannot become the
\* struct's for a reason of its own: a second or keyless AUTO_INCREMENT column,
\* a column that would turn virtual, or the rows that are in it.
FailureExplained ==
    [][\A m \in Migrators :
          Refused(m) => \/ raced[m] \/ cut[m]
                        \/ SecondAuto(m) \/ KeylessAuto(m)
                        \/ TurnsVirtual(m) \/ RowsInTheWay(m)]_vars

\* Migrate deletes nothing: what a migration has put into the table stays,
\* whoever migrates to another struct afterwards, as long as no UnsafeMigrate
\* has sent its statement.
SafeKeepsColumns ==
    drops = 0 /\ (\A m \in Unsafe : result[m] = "none") =>
       \A m \in Migrators :
          result[m] = "nil" => ToSet(Entity[m].fields) \subseteq ToSet(table.cols)

MadeExact(m) == ~raced[m] /\ ~cut[m] => table'.cols = Entity[m].fields

\* An UnsafeMigrate that nobody disturbed, and that read all columns, leaves
\* the struct's columns and no others.
UnsafeIsExact == [][\A m \in Unsafe : Finishes(m) => MadeExact(m)]_vars
==========================================================================
