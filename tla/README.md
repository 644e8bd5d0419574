# sqlike in TLA+

sqlike is a Go library that builds SQL for MySQL from Go structs and runs it
through `database/sql`. It has little state of its own. What is hard about it
happens between its calls and the things it shares with others: the connection
pool, the server's transactions, tables other clients change, the catalogue
other instances of the same service migrate. The specifications here put the
control of those calls (every query, early return, deferred call and error path,
in order) next to these actors and check what a caller relies on.

All paths below are relative to the repository's root.

## 1. The system

| Component | Code | State | Operations | Talks to |
|---|---|---|---|---|
| Transactions | `sqlike/database.go`, `sqlike/transaction.go` | one `sql.Tx` per transaction, its context | `RunInTransaction`, `BeginTransaction`, `Commit`/`RollbackTransaction`, statements | pool and watcher of `database/sql`, server |
| Pagination | `sqlike/paginate.go` | the action, the cursor's key, the fields | `Paginate`, `All`, `NextCursor` | a table others change |
| Results | `sqlike/find.go`, `sqlike/result.go` | `sql.Rows`, the columns, an error | `Find`, `FindOne`, `Next`, `Decode`, `Scan`, `ScanSlice`, `All`, `Error`, `Close` | the pool |
| Migration | `sqlike/table.go`, `sql/dialect/mysql/table.go` | none; the catalogue | `Migrate`, `UnsafeMigrate`, `Exists`, listings, `Drop`, `Rename`, `Truncate` | other migrations |
| Indexes | `sqlike/index.go`, `sqlike/database.go` (`BuildIndexes`), `sql/dialect/mysql/index.go` | none; the catalogue | `Create`, `CreateIfNotExists`, `DropOne`, `DropAll`, `BuildIndexes` | other instances |
| Record writes | `sqlike/insert.go`, `update.go`, `delete.go`, `modify.go`, `replace.go` | none; the table | `Insert`, `InsertOne`, `ModifyOne`, `Update`, `Delete`, `DestroyOne`, `ReplaceOne` | the row locks |
| Client | `sqlike/client.go`, `connection.go` | the pool, the version, codecs | `Open`, `Connect`, `Database` (with replicas) | every component |
| Resolutions | `sqlike/context.go` | conditions in a context | `InjectResolution` | `find` |
| Statements | `sql/stmt`, `sql/driver` | a pool of statements | `AcquireStmt`, `ReleaseStmt`, `Execute`, `Query` | every component |
| Builder | `sql/dialect/mysql`, `sql/expr`, `sqlike/actions`, `sqlike/primitive` | the statement being written | `Select`, `Update`, `Delete`, `InsertInto` ... | codecs |
| Codecs | `sql/codec`, `jsonb`, `reflext`, `types`, `spatial` | registries, the cache of structs | `LookupEncoder`/`Decoder`, `Marshal`, `Unmarshal`, `CodecByType` | user types |
| Dump | `sql/dump` | a map of parsers and its mutex | `RegisterParser`, `BackupTo` | the pool |
| Casbin plugin | `plugin/casbin` | `filtered`, a table | `LoadPolicy`, `SavePolicy`, `AddPolicy`, `RemovePolicy` ... | enforcer, table |
| Instrumentation | `sql/instrumented`, `plugin/opentracing` | none | wraps every driver call | driver |

What is hard, and what makes each component correct:

* **Transactions.** Five parties touch one transaction: the callback, the commit,
  the deferred rollback, the goroutine of `database/sql` that waits for the end of
  the context, and the server, which may kill the transaction or lose the
  connection, with the answer of COMMIT on the way. Correct means: each connection
  is in one place, one party finishes the transaction, and the answer is true.
* **Pagination.** Two queries per page, with changes by others between any two of
  them. Correct means that a row nobody touches is shown, in order, once.
* **Results.** A result holds a connection until the right call; rows can break off.
* **Migration, Indexes.** Check-then-act on a catalogue that several instances change
  at once, with statements that the server executes whole or not at all, and with
  work left half done. Correct means that success can be believed, that failure is
  explained by a race or by the table and its rows, and that work can be done again.
* **Record writes.** `ModifyOne` writes back all columns of a struct that was read
  before; a statement may be refused, deadlock or lose its answer. Correct means that
  under the lock modes concurrent calls are as good as one after the other.
* **Builder, resolutions.** Conditions are nested values that become one text with marks;
  they are shared slices, appended to by several goroutines. Correct means that a call
  selects what its own conditions mean.
* **Codecs.** `jsonb` has a reader of its own that skips a value to find where it ends
  and then reads the bytes it skipped, while it removes white space from under its own
  positions. Keys are paths with escapes. Correct means that what is read is what was
  written, and that writing it back changes nothing more.
* **Records and columns.** A record passes seven conversions on its way to a column and
  back: the field is found through embedded structs and pointers, its column is made from
  its type and tag, an encoder is chosen by the first record of a batch, the server
  rounds, pads or refuses, the driver hands out one of two forms, and a decoder chosen
  by the type that reads it makes a value of it. Correct means that what is read is what
  was inserted, that a refusal has a reason, and that nothing changes in silence.
* **Dump.** It holds one connection while it asks for a second, and describes rows by a
  catalogue it has read before. Correct means that it ends and that its file gives the
  rows back.
* **Client, plugin.** Listed with their hazards in `PROJECT.json`; section 8 says why
  they are not modelled.

## 2. The modules

| Module | What it is |
|---|---|
| `AtomicTx` | what a transaction promises: one decision, one truthful answer |
| `Transaction` | `RunInTransaction` and `BeginTransaction` over the pool, `Tx.awaitDone` and the server |
| `TransactionProofs` | its theorems |
| `Keyset` | the sort order of a page and the filter for a cursor, as operators |
| `WindowScan` | what paging promises over a list that stands still |
| `Ranking` | a finite set in an order: `ORDER BY`, and what is left of a list |
| `ListProofs` | lemmas about it, about finite sets of numbers, and about functions that are defined step by step |
| `Paginator` | `Paginate`, `All`, `NextCursor`, the client loop and other clients |
| `PaginatorProofs` | theorems about the filter and the traversal |
| `Migration` | `Migrate` and `UnsafeMigrate` by several processes |
| `MigrationProofs` | its theorems: when a migration is refused, what stays, what success means |
| `Result` | `Find`, `FindOne` and the methods of a result, over the pool |
| `Dump` | `BackupTo` over the same pool, the file it writes and what MySQL reads in it |
| `DumpProofs` | theorems about the connections of both and the files of dumps |
| `Indexes` | `IndexView` and `BuildIndexes` by several processes |
| `IndexProofs` | its theorems: who succeeds, what the answers mean |
| `SerialRecords` | what writers of records rely on: each call takes effect at one moment |
| `Records` | inserts, updates, deletions and read-modify-write transactions, over row locks |
| `RecordsProofs` | its theorems: types, and that it implements `SerialRecords` |
| `Keys` | the path of a `types.Key` and its parser |
| `KeyColumn` | the column of a key: written, read, and written again |
| `JsonText` | the writer, the reader and the skipping functions of `jsonb` |
| `Rows` | a record with a key and a JSON column that is written, read, walked and written back |
| `Clauses` | conditions: their tree, the text written for it, its reading by the server |
| `Fields` | the fields of a struct, their names, paths and positions, and access to them |
| `Columns` | the column of a field, and what the server makes of a table with it |
| `Values` | the encoders, the driver's two protocols, the decoders |
| `Entities` | `Migrate`, `Insert` and `Find` of records of any of many struct types |
| `Contexts` | slices that share arrays: the resolutions of contexts, the conditions of an action |
| `WritingProofs` | theorems about the slices of `Contexts`, about `KeyColumn` and about the values of `Entities` |
| `Statements` | `InjectResolution`, `Find`, `Update` and `Delete` with conditions that are used again |
| `MC...` | the instances TLC checks |

`Entities` extends `Values`, that extends `Columns`, that extends `Fields`: each is a layer of
the way of a record. `Dump` extends `Result`: both take connections from one pool. `Statements` extends `Clauses` and
`Contexts`: each of its steps is a step of `ContextsSpec` or leaves the slices alone.

`Transaction` implements `AtomicTx`, `Paginator` over a still table implements
`WindowScan`, and `Records` with locks implements `SerialRecords`; all three are
`INSTANCE ... WITH` refinements, used as properties.

### Transaction

A session is a call of `RunInTransaction` (`Managed`) or a user of
`BeginTransaction` (`Manual`). `pc` is the place in the code, `ctx` the context made
at `database.go:153`, `finished` the `done` flag that `Tx.Commit`, `Tx.Rollback` and
`Tx.awaitDone` compare and swap, `conn` and `free` the pool, `server` and `written`
the server's side, `reply` the answer. Every statement, `COMMIT` and `ROLLBACK` is a
step for the call and a step for the server's answer, so a deadline, a deadlock or
a broken connection falls between any two. `CallDB` is a callback that uses the
`Database`, and so a second connection, instead of its transaction. The deferred
`RollbackTransaction` is part of every way out of `RunInTransaction`
(`AfterCommit`, `CallbackFails`, `CallbackReturnsNil`). `database/sql` and the server
are external: they are written from what the code in `sqlike/` relies on.

### Keyset, Paginator

A row is its primary key and its sort values, which are NOT NULL: over a nullable sort column the comparisons
of the filter are NULL and rows are skipped, which is outside of the model and of its theorems; `Columns` is the sort list with the
primary key behind it, as `Paginate` completes it. `InPage` is the filter
`buildAction` writes, `SortsAfter` is `ORDER BY`. The client is the loop of
`examples/pagination.go`: a first page, then `NextCursor` with the last row's key and
the next page, until a page is short. `Insert`, `Update` and `Delete` are other
clients'. `QueryFails` and `AllCutShort` are a query that fails, in `NextCursor` with the
panic of `nextValues` on nil rows, and rows that break off unnoticed.

### Migration

A struct is the sequence of its columns with the columns tagged `primary_key`,
`auto_increment`, `unique_index` and `virtual_column`, and with what decides whether rows
fit: the columns that are NULL in the rows there when they are added, that have a type which some values do
not fit (NOT NULL for one), or that have no default and cannot be added beside rows. A table is its columns, unique indexes and
primary key, which columns are `AUTO_INCREMENT`, virtual and narrow, and of its rows how many there are, which
columns are equal in two of them and which have a value that does not fit a narrow type. `Write` puts other rows
into it. What MySQL refuses is `Creatable` and `Accepted`: a table has one `AUTO_INCREMENT` column with a key
(error 1075), a column does not turn virtual, and the rows must fit (`RowsFit`). A definition of a single column
that MySQL never takes, such as an index on a JSON column, is outside of the model. `Start` to `HasPrimaryKey` are the catalogue queries in their order,
`CreateTable` and `AlterTable` the one statement that ends a migration, computed from
what was read (`Added`, `Modified`, `Dropped`, `NewUniq`, `NewPk`) and applied, or
refused, on the table as it is then. `CreatePk` and `AlterPk` differ as in the code: only
`CREATE TABLE` counts an `auto_increment` tag as a primary key tag, and so lets a
later `auto_increment` field replace the field tagged `primary_key`, although
`sql/dialect/mysql/table.go:78` says "allow primary_key tag to override".

### Result

A handle is one result and its user. `rows` says whether it occupies a connection
(`Busy`); `lent` counts the connections that others have, which are the dumps of `Dump`. `Break` is a lost connection or the end of the query's context, after which
the rows close themselves. Two more readings of the code that the comments would not
suggest: `Result.Scan` closes the rows of a `Find` after one row although it is
documented as like `sql.Scan`, and `FindOne` answers `ErrNoRows` for a row that did not
arrive.

### Dump

A dump's `stage` is the query it is about to send, or the rows. `GetColumns` and `GetVersion`
take a connection and give it back, `Query` takes one that `Row` and `End` keep. `Free` of
`Result` is the pool's condition for all of them. A line is made of the columns of the
catalogue (`columns`), each from the value at its place in the result (`cols`), by the
parsers of `mapper.go`; `Loaded` is how MySQL reads such a literal, external like the driver.
What the driver hands out depends on the connection string (`conn`): `Connect` asks for parsed times in UTC, a raw
string for what it likes. A moment is a day and an hour; parsed, it comes as RFC 3339 with its location's distance from UTC, which
`UTC` takes away, and otherwise as a text for which `time.Parse` fails and leaves the zero time. The table may be altered by another program in between,
the action may select some of the columns, and rows may break off, those of the catalogue
too. A context that ends while a call waits for the pool is `GiveUp`; nothing forces it to end.

### Fields, Columns, Values, Entities

`Structs` gives each struct type its declared fields. `Visit` is the queue of `getCodec`, breadth
first, which stops at a struct inside of itself; `AddField` its second loop, in the order of
declaration, where a later field takes the place of a property of the same name. `ValueAt` and
`WithValue` are `FieldByIndexesReadOnly` and `FieldByIndexes`. `GetColumn` is the type mapping with
the builder of each type; `CreateColumns` the loop of `CreateTable` with the generated columns.
The server's part (strict mode) is external: `Created` refuses a table, `Stored` says what a column
makes of an argument. Texts are tagged with what they spell, so that "2" in a text column is
not a number until something parses it; moments are ticks, three of them to the default precision of a column, so that
rounding matters; floats are halves, and integers have 2, 4 and 6 bits instead of 8, 32 and 64, so that
overflow, rounding and the limits of a signed number occur among a handful of values. `Refused` is what an
operation leaves that returns an error or panics.

Floats have four limits that the decoders meet. MySQL prints a float from `Exponent` on (10^15) with an exponent
(`Printed`), whose text the decoders of integers do not parse; by the binary protocol the same float arrives as one, and
is converted. Go does not check that conversion: a float beyond 64 bits becomes whatever the processor makes of it
(`Beyond`, in `ToInt64` and `ToUint64`), and `OverflowInt` of an `int64` finds nothing wrong with it. Above
`Precise` (2^53) a whole number read as a `float64` becomes the nearest one (`Double`). And some texts of numbers are
base64 by chance, or sixteen bytes that are taken for a UUID (`Mistaken`).

Assumptions are stated where the constants are: a day has
ticks (`DayAssumption`), no signed type is wider than `int64`, whose numbers all fit `uint64`
(`BitsAssumption`), what is printed without an exponent is precise (`ExponentAssumption`), `Beyond` consists of numbers
of 64 bits (`BeyondAssumption`), and a batch is a sequence (`CallsAssumption`).

`Entities` is the program: `Migrate` makes the table of the writer's struct, `Insert` is the loop
over the fields that takes omitted ones out of the slice (`List`), the encoders of the first record
(`Arguments`), the part on duplicates (`Updates`) and the server's execution of all rows or none;
`cache` is the slice that `CodecByType` keeps between calls. `Find` reads all rows by either
protocol into the reader's struct, which is the writer's own or that of another release.
`meant` is the history: what each row was meant to hold, in terms of fields and not of columns,
from `Columned`, which says in one sentence which fields are columns. It becomes `Mixed` after a batch whose
records differ from the first one in nil embedded pointers or have keys although that has
none: what such a batch stores has no intention behind it. `AsRead` lists what codecs and columns
do not keep and the code does not hide: trailing blanks of a `CHAR`, finer fractions of a second, the kind and
parents of a `datastore.Key`, nil bytes, `Local` for an empty location, a point at the origin.

### Indexes

A definition has a name or none, a type and columns; `GetName` is the given name or the hash
of type and columns, taken to be injective (`HashName`). `CheckOne` is one turn of the loop of
`CreateIfNotExists` with the query `HasIndex` writes: it counts indexes that have all the
columns, among others, in any order. `LookUp` is one turn of the loop of
`readAndBuildIndexes`, which asks by name. `AddIndexes` and `DropIndexes` are the `ALTER
TABLE`; `Malformed` is the comma `DropIndexes` leaves when the primary key stands first.
A primary key in an index file is looked up under its hash and never found, so a
second `BuildIndexes` with it is refused (`Clash`). Rows are outside of the model: so is a unique index that is refused
because two of them are equal in it.

### Records

A client makes one call, its `job`. A transaction goes through its keys: `FindOne` with a
lock mode, a change of the decoded `entity`, `ModifyOne` of all its columns; an error of
either ends in the deferred `Rollback`. Every other job is one statement outside of a
transaction. A row has a counter that transactions increment and a `note` that only single
statements write: it stands for the columns `ModifyOne` writes back although nobody meant to
change them. A `ModifyOne` outside of a transaction (`ModifyAlone`) is one statement; a call that was
answered by an error of the connection may be made again (`Retry`), and the abstract specification
says what its answer then means: `ErrNoRecordAffected` for a record that is gone and for one that has
the values already. `committed` and `current` are the rows without and with open transactions,
`xlock` and `slock` InnoDB's row locks, `DeadlockVictim` its choice among clients that wait
in a circle. A row that is not there is not locked, and rows of a transaction that reads
without a lock are the committed ones. The life of a connection and the lost answer of
`COMMIT` are left to `Transaction`.

### Keys, KeyColumn, JsonText, Rows

A key is the sequence of its levels, the root first, and its path a sequence of tokens: characters, percent escapes and
numerals. `Keys` writes it (`MarshalKey`) and reads it (`UnmarshalKey`) as functions over positions: `path` is
the path of the first n levels, `parts` in `Split` what the first n tokens are parted into. The code goes through
the elements from the last to the first and stops at the first bad one; as it returns the same error for all of
them, `UnmarshalKey` asks whether all are valid. `Numeral` gives the numerals of `strconv`: one token for each number,
no two the same. `KeyColumn` is a program that holds any key (`IsKey`), writes it and reads what is stored into a new
key, in any order; `KeyReadBack` says what it gets (`KeyAsRead`): its own key without the namespaces, and without the
number of a level that has a name. Kinds with a slash or a comma are excepted (`PlainKinds`): they are not escaped.

A text is a sequence of tokens: its characters, except that `null`, `true`, `false`, the
exponent of a written float and the decimal the server prints for it are one token each.
A reader is the text and a position; `NextToken` removes white space as the code does, so
that positions taken before it are as stale as in the code. `Skip`, `SkipMembers` and
`SkipArray` find the end of a value; `ReadBytes` cuts it out; `ReadObject`, `ReadArray` and
`ReadValue` read it with a new reader. A string whose reading never ends (an escape the
code does not know) is an error like a string without an end. `KeyLoop` and `ValueLoop` are
the two labels of `ReadFlattenObject`. The functions recurse over data, so they are for TLC
only. `Stored` is the JSON column of the server, external: it refuses control characters and
prints a space after commas and colons. Numbers are single digits with a sign: reading
stops at the same places as for longer ones.

`Rows` is the program: it has a key, whose steps are those of `KeyColumn`, and holds a document as a struct, a map or a slice, writes it, reads
it, may walk the text with `ReadFlattenObject`, and writes what it read. `DocAsRead` is what
it should get: its own document, except for what the code does not keep and says nowhere.
In an `interface{}` every number is a float and `EncodeFloat` writes a negative one as 0; an
empty array or object is read as nil and then written as `null`; a struct drops members it
has no field for; a key loses its namespace, and its number where it has a name.

### Clauses, Contexts, Statements

A condition of the program is a tree. `Built` makes of it what `expr.And` and `expr.Or` make, a
sequence of values with raw connectives and parentheses; `BuildStatement` writes these as
tokens with their arguments; `Evaluated` is a server that binds the arguments to the marks and
reads the tokens by precedence, in three-valued logic, and `Failed` is a text it refuses.
`Meaning` is the tree itself: conditions left out (`nil`, or zero values) say nothing. So a
parenthesis too few, an argument at the wrong mark or a lost condition changes what is
selected. `LikeMeant` is a pattern whose last character alone may be a wildcard, as
`escapeWildCard` has it.

`Contexts` has the slices that share arrays: `heap` holds the arrays, `Appended` is Go's `append`, in place when
there is room, `AppendedAll` several in a row. `InjectResolution` and `find` both append to slices of somebody
else: the former to the resolutions of the parent context, the latter to the conditions of the caller's action,
of which `Find` copies the slice and not the array. `FindAppends` (to the append) and `FindQueries` (the rest)
are two steps, so other goroutines append in between; `lost` marks a context or a find whose conditions
another append has changed. `SlicesKept` says what may be lost: a context with up to three resolutions keeps what was
injected into it and its parents (`groups`), the action keeps what it was `given`, and a Find sends the conditions
and those of its context unless the context had lost some, or another Find began meanwhile and the action's array has
room (`Crowded`). `Statements` is a program that keeps one action for many calls; those that lost conditions really
select something else, and `FindSelects` and `RefusedOnly` except them. In Go these appends are a data race as well;
the model takes each call's appends as one step. `Update` and `Delete` take the same conditions; resolutions do not apply to them. The other values an expression
can be made of, projections and `GROUP BY` are left out; `ORDER BY` with a limit is `Paginator`'s.

## 3. Runs

| Run | Instance | Shows |
|---|---|---|
| `TransactionSafety` | two `RunInTransaction` calls, two connections, two statements each | connections conserved, one finisher, true answers |
| `TransactionLive` | one managed and one manual session, one connection, one statement | refinement of `AtomicTx`; the deadline frees the connection; the call returns |
| `PaginatorChanging` | four keys, two values, one descending sort column, pages of 2 and 3, two changes, one fault | stable rows shown, in order, the loop ends; windows of a still table |
| `PaginatorTwoColumns` | two sort columns, three keys | **violation**: a page is not the window of the sorted list |
| `MigrationRolling` | three of five releases (one unsafe), five first tables, one drop, one change of the rows, one fault | success fits, failure is explained, columns kept |
| `ResultPool` | a user of results and two dumps, two connections, a table of ten columns and one row that is altered once, over four connection strings | ended use releases; waiting queries are served; dumps end, short of holding the whole pool together; their files give the rows back |
| `RecordsSerial` | three clients with every three of sixteen calls, two keys, two broken connections | concurrent calls are serial under the lock modes; every call ends, repeated ones too |
| `EntitiesReadBack` | 37 struct types with one to eight fields, each field with its extreme values, floats with an exponent and beyond 64 bits among them, two inserts in three modes, both protocols, 112 pairs of writer and reader | records are read back; refusals are explained; protocols agree; no value changes in silence, short of the named exceptions |
| `RowsReadBack` | some 7000 documents of depth up to three, strings of two characters, nine keys, three writes | documents and keys are read back; leaves have their paths; a refusal is explained; writing back settles |
| `RowsStrings` | the same with brackets in strings of inner arrays | **violation**: a bracket in a string ends the array around it |
| `StatementsSelect` | some 1500 sets of conditions over six rows with NULLs, two goroutines, contexts derived up to five times | `Find`, `Update` and `Delete` select what the conditions mean; refusals explained |
| `IndexesRaced` | three processes, ten calls in all combinations, three first catalogues, one fault | nil is true, refusals explained, somebody succeeds |

Why these bounds are enough. Two sessions and two connections let every pair of
parties of a transaction meet, a session wait for another, and a third connection
never matters, since a session uses at most two; the one-connection run is the
exhausted pool. Two statements are enough for a failure between the first write and
the commit. Four rows with two values give duplicates, a full page, a short page and
a cursor in the middle; two changes give a change before and after the cursor, and a
move across it. Three migrations are the fewest where one is overtaken by two
others, and one fault at any place is one per behaviour since a migration ends with
it; each reason that `FailureExplained` names refuses a migration of the run, as it fails without it. Three writers of two rows give deadlocks of two in both orders and of three
that share a row, with a third client behind their locks. Documents of depth three have
an array and an object in each other both ways, with a member behind them that is lost
when skipping stops elsewhere; strings of two characters have every escape before and
after every other character; the third write is the first one that must change nothing.
Conditions nested to depth two put every connective under every other, on both sides, next to
parts that are left out; five contexts are the fewest where two share an array with room, and
two finds at once over two contexts the fewest where one writes over the other. `DefaultLimit`
is 4 instead of 100, less than the rows. Two dumps on two connections, with the string that `Connect` writes, are the smallest pool that dumps can
block together, and over raw strings (west of UTC, east of it, without `parseTime`) one dump is enough for what its file holds; a user of results beside them is the smallest that is kept waiting. The structs of
`MCEntities` have every type of the default registry that is modelled as a field, nine of them also behind a pointer,
every tag, embedding through a pointer, by a name and recursively, and documents with
computed columns; one field at a time has another value than the plain one, since the
conversions of a record meet only in the key, in omitted fields and in documents, which vary
together. Their floats lie below and from the exponent on, and within and beyond the six bits of an integer; without any
one of the exceptions that `ProtocolsAgree` and `NoSilentChange` make for these, the run fails. Two inserts are the fewest where the second one could suffer from the first. Three
index users allow a refusal by a second and a drop by a third.

Every bound is a constant or a guard: `MaxStmts`, `MaxChanges`, `MaxFaults`, `MaxDrops`,
`MaxRows`, `MaxWrites`, `MaxInserts`, `PoolSize`, and the `room` of a program in `Statements`. `CHECK_DEADLOCK FALSE` is set everywhere because all these
programs end.

## 4. Fairness

* `LibrarySpec` (Transaction): weak fairness of the steps that belong to the library,
  the server's answers and the end of a context with a deadline: goroutines are
  scheduled, the server answers or the connection breaks, and timers fire. Nothing is
  assumed of callbacks. `RunReturns` adds as its antecedent that callbacks return
  (`CallbacksReturn`), which is the user's part.
* `FairSpec` (Paginator): the client goes on as long as its calls return.
* `DumpSpec` (Result, Dump): strong fairness of `Served`, and of `Connected` for a dump, because `database/sql` hands a
  connection that is returned to the request that has waited longest; weak fairness of
  the last call of each user, since a caller that never closes its result really
  starves the others; weak fairness of `Writes`, since the loop over the rows of a dump is the
  library's own. Nothing is assumed of the end of a context.
* `FairSpec` (Records): each client goes on when no lock is in its way, and the server
  breaks a deadlock.

## 5. Proofs

`TransactionProofs` proves, for any sets of sessions and connections and any number of
statements, under `Transaction`'s assumptions on its constants only: type
correctness, `ConnectionsConserved`, `OneFinisher`, `NilMeansCommitted`,
`RefusalMeansNothing`, `ReturnsFinished`, and that every behaviour is one of `AtomicTx`.

None of these is inductive alone: that a nil answer means committed work depends on
who may still send ROLLBACK, which depends on `finished`, which depends on where the
watcher and the deferred call are. The inductive invariant `IInv` is
`TypeOK /\ (\A s : Lifecycle(s)) /\ ConnectionsConserved`, where `Lifecycle` lists what
holds of one session in each phase: not begun, no transaction, unfinished, finishing,
answered. `StepFrame` says that a step of one session leaves the variables of the others
alone, so `LifecycleStep` is a case per action of a single session;
`ConnectionsStep` treats the eight actions that move a connection. For the refinement,
`AbstractStep` shows that each action maps to a step of the session's abstract
transaction or to a stutter.

`PaginatorProofs` proves for all keys that the filter of a page selects exactly what sorts
at or after the cursor if there is at most one sort column (`FilterExact`), and with
any number of columns never anything before it (`FilterNeverGoesBack`), which is why
the fault of `PaginatorTwoColumns` skips rows and never repeats them.

About the traversal it proves, for any table with NOT NULL sort columns, page sizes and number of changes and faults, type correctness and
`SeenInOrder` (`NeverBack`), and with at most one sort column `StableRowsSeen` (`NoneSkipped`) and the refinement
of `WindowScan` (`WindowsOfOneList`). With two columns the last two are false: that is the divergence the
run `PaginatorTwoColumns` shows. The invariant follows the cursor through its queries: between a page and its
`NextCursor` the cursor's row is the last one shown (`AtCursor`), afterwards the cursor's key is the key that
row had when it was read (`AtAll`), rows shown and left alone still match (`SeenStay`), and every
row that was left alone has been shown or is selected by a page to come (`Reached`). For the refinement,
`Still` says that over a table nobody changes a page in hand is what its query would give again. That `ORDER BY`
gives every row once and in order (`OrderedRows`) comes from `ListProofs`: a row's place is the
number of rows before it, and counting shows that no place is taken twice or left out (`ArrangedInOrder`).

`DumpProofs` proves, for finite sets of results and dumps and a pool of any size, that a
result that has been used to its end has given its connection back (`Released`), and that
the connections the pool is without are those of open results and of the queries of dumps, never
more than it has (`PoolConserved`). `EndedMeansReleased` needs `Fresh` beside it: `FindOne` answers
with an error and leaves `rows` as it is, which is right since there were none. `PoolShared` is counted by
`BusyStep` and `LendingStep`: a step takes or gives back one connection, and takes only a free one.
`TypeCorrect` adds the counts of rows. `FileRestored` proves `DumpRestores` for any table, any rows, any
texts and moments in them and any connection (`TablesAssumption`, `MomentsAssumption`, `ConnectionsAssumption`: columns are a
list, values are texts, moments or `Null`, and a location is at most a day from UTC), with the exceptions that `DumpRestores`
names (`Shifted`, `Unescaped`, the zero date). Its invariant, `FileInv`, has
two parts for each dump without an excuse: what it knows from the catalogue are the columns its query gives (`Matches`), and
each line of the file is made of the row at its place (`Filed`). `TextLoads`, `MomentLoads` and `DateLoads` show value by
value that MySQL reads back what a parser writes: a DATE survives a location west of UTC, whose hours stay within its
day (`HoursOfDays`).

`MigrationProofs` proves type correctness and all four properties for any migrators, structs and tables: `FailureExplained`
(`RefusalExplained`), `SafeKeepsColumns` (`ColumnsKept`), `SuccessFits` (`SuccessMeansFit`) and `UnsafeIsExact`
(`UnsafeMakesExact`). Assumed are that the lists of columns name each column once and tag only
their own, that a key field is no pointer (`StructAssumption`), and that the tables there at first are tables (`TableAssumption`);
nothing is assumed of what MySQL takes. The invariant has three parts.
`Fresh`: as long as nobody
changed the table under a migration and no listing of it broke off, `cols`, `idxs` and `hasPk` are what the
table is, as far as they have been read; `AcceptedWhenFresh` shows that a statement computed from them is
refused only for one of the table's own reasons (`OneAutoWhenFresh` for `AUTO_INCREMENT`, `RowsFitWhenFresh` for the
rows), `ApplyDisturbs` that whoever changes the table disturbs all others that are under way. `There`: the table a
migration has found is there until it is dropped. `UniqHeld`: the unique indexes a migration has seen and counts on
stay until it sends its statement, for only an unsafe one drops columns. `Others`, `AlteredColumns`,
`AlteredHolds` and `AlteredWellFormed` say what `ALTER TABLE` makes of the columns it does not name and of the rows.

`IndexProofs` proves the four properties for any processes, calls and finite catalogues, under the
assumption that there is a process and no definition names a column twice. For `SomebodySucceeds` (`Deployed`)
the invariant is `SomeSound`: there is always a
process that is `Sound`, whose remembered definitions have names that are still free, or that has
succeeded. At first all are; a step of the sound process keeps it sound (`CheckOneSound`: what `HasIndex` does not find
has a free name, if a name means one index), and the step of another can only take that away by changing
the table, after which that one is sound (`SoundStep`). For the answers, `NilMeansThere` (`NilSound`),
`RefusedOnlyRaced` (`RefusalExplained`) and `PrimaryStays` (`PrimaryKept`), it is what a call knows of the table: what the loop has
passed is there unless something was dropped (`NothingLost`), what it has missed is missing unless the
table was changed (`StillMissing`), and `DropAll` has listed every index there is (`AllListed`), with the place of
each call in the code (`Path`).

`RecordsProofs` proves type correctness, and that `Records` implements `SerialRecords` when transactions lock what
they read (`SerialCalls`), for any clients, keys and calls; a transaction goes through different keys
(`JobsAssumption`: the model's `entity` is the row of the key at hand). The invariant is `Types` and, with locks, `Orderly`: a row is locked for writing by one client or for
reading by several (`Exclusive`), and of each client, `Owns`: one without a transaction has no locks, one that is about to read a key
has not written it, the rows behind its
place are one higher than when it locked them and everything else it locked is as committed, and what it has in
hand is the row as it is. So at its commit a transaction changes, in one step of `SerialRecords`, exactly the
rows it has locked since it read them. `RowsMove` and `HeldStays` say that a step of one client touches no row
that another one holds; there is a lemma per statement.

`WritingProofs` proves three things about what is written. The first is `SlicesKept` (`SlicesHold`), for any
resolutions and conditions, any number of contexts and any number of goroutines that find at once. The invariant has three parts. Of each context (`Holds`): its slice has room behind it only if
it has three resolutions or more (`Roomy`), its array is never one of the action's, and unless it is lost it holds
what was injected. Of the action: it holds what it was given. Of each Find under way (`FindHolds`): its array is none of
a context's, it has lost conditions only with a deep context or in a crowd, and otherwise holds what it should
send. `AppendedIs` is the lemma about `append`; `ChangedOnlyDeep` shows that an append that changes another slice
had room, and that the other is longer; `AppendedAllAside` says what the appends of a Find do together: nothing is
written into other arrays or in front of the action's end, without room nothing at all, and what is held then is the
conditions and all the pieces. `AppendedAll` and `Flat` are recursive functions: that they are what they say follows from
`Iterates`, and what holds of each step by `UpTo`, both in `ListProofs`, by way of the least number for which it
would be false.

The second is `KeyReadBack` (`KeyComesBack`), for any key: any number of ancestors, any kinds and names, any
numbers that have a numeral. From `NumeralAssumption` only: numerals are different and hold no slash, comma or sign.
`Split` is a recursive function: `SplitIs` says that it is what each step makes of the one before, `SplitWhole` that what
has no separator stays whole, and `SplitBehind` that what comes behind a separator is the last part. So a level is
read as it was written (`LevelRead`: `EscapedIs` and `DecimalIs` say that names and numbers hold neither slash nor
comma, and are read back), and the path parts into the levels it was made of (`PathSplits`, along its recursion). The
invariant `KeyInv` says besides that what is held is a key again, for any text that can be read (`ReadIsKey`): what
is written next is under the same theorem, although kinds with a slash or a comma become other keys.

The third is about rows, for any structs, programs, records and calls of `Insert`, and any struct they are read
into: a query with arguments and one without give the same records (`ProtocolsAgree`, by `SameInBothProtocols`), and no
decoder makes another number or moment of one that is stored (`ValuesKept`, by `NoDecoderChanges`). Both have
exceptions, which the properties name: `Narrowing` (fractions, negative numbers and floats beyond 64 bits that
the binary protocol hands to a decoder of other numbers), `Exponential` (floats printed with an exponent, read into an integer or a
string), and, for what is kept, `Misread` and moments read as anything else. Whatever `Beyond`, `Mistaken`,
`Exponent` and `Precise` are, as long as their assumptions hold, there are no others. The invariant,
`EntitiesInv`, says that the columns have names of their own, that a column of numbers or moments holds nothing
else (`Fit`), and that what was found is the rows as they are. `Fit` survives an INSERT through everything that
`Executed` makes of a record: defaults, counted keys, generated columns, the update on a duplicate (`StoredFits` to
`AddedFits`); `Executed` is a recursive function, whose values exist for any number of records by `UpTo` (`AfterEach`).
What fits reaches the decoders in one of few forms, and each decoder reads the forms of one value alike
(`WholeAgrees`, `RealAgrees`) and, from text, as what it says (`KindKeeps`), a date because a whole number of days
is divided without a rest (`WholeDays`); binary follows from text where the protocols agree, and from the conversions
of a float with 64 bits (`ConvertedIs`) where they do not (`ExponentKeeps`).

The proof was refused at first, for reasons that were in the model. `Narrowing` left out decoders
that do treat the protocols differently: of a key, a location, a document. An updated row that a
column refuses was stored; a decoder of `uuid` took a moment, one of `any` took anything, and one of a key
did not take a time or a text that is no number for a name, as `parseKey` does. The runs had no reader of
these types; `Keyed`, `Zone` and `Lists` now read the numbers.

Only model-checked, with the reason:

* `ReadBack` and `RefusedOnly` of `Entities`: they compare a record with what was meant, through `GetCodec`, `ValueAt` and
  documents, which recurse over structs; what such a function computes for every struct is induction over data.
  `NoSilentChange` is about the value in the record, and is that of the decoder (`NoDecoderChanges`) unless a later column
  writes over it. For some structs one does: a property of a struct embedded by a name, `in.X`, before a
  document of another field with the name `in`. No program of the run has both.
* `DocReadBack`, `LeavesWalked` and `RefusedOnlyControl` of `Rows`, and its `KeyReadBack` in a document: trees of
  documents, with `RECURSIVE` operators. The key in a column of its own is `KeyComesBack`.
* `FindSelects`, `WriteSelects` and `RefusedOnly` of `Statements`: trees of conditions, and `RECURSIVE` operators in `Clauses`. What the
  slices keep, on which they rest, is `SlicesHold`.
* Every liveness property (`RunReturns` and the like): fairness and `ENABLED` are outside of the prover.

## 6. Divergences found

* `sqlike/paginate.go:151` (run `PaginatorTwoColumns`): with two sort columns rows after
  the cursor are filtered out.
* `jsonb/reader.go:96` (run `RowsStrings`): a string inside a skipped array is not skipped.

Each is quoted with the sentence it contradicts in `PROJECT.json`. Met while modelling, without
a run of their own; the properties of the passing runs name them as exceptions:

* `All` and `ScanSlice` (`sqlike/result.go:226`) and a dump (`sql/dump/dump.go:207`) never ask `rows.Err`:
  rows that break off are taken for all, although `result.go:199` says "this will map all the
  records from sql to a slice of struct" (`ReadAll`, `End`).
* `Insert` leaves a comma behind its column list when the last field is left out
  (`sql/dialect/mysql/insert.go:44`), and an empty list after ON DUPLICATE KEY UPDATE when all of
  them are (`RefusedOnly`). Its encoders are the first record's (`insert.go:69`).
* A column computed from a document, without a name in its tag, is read into the document again: a nil
  document comes back, and a `null` in it as the text `null` (`DocumentAsRead`).
* A time of day that rounds up to 24:00:00, and the default of a currency, are stored and cannot be
  read (`Unreadable`).
* A moment read into a number, a boolean or a string is the zero value without an error
  (`NoSilentChange`), and the two protocols treat fractions and negative numbers differently
  (`Narrowing`).
* A float beyond 64 bits that is read into an integer by the binary protocol becomes another number without an error
  (`sql/codec/decoder.go:436` and `:469`: the conversion is unchecked, and what it gives always fits 64 bits; `Huge`).
  By the text protocol a float from 10^15 on is an error for an integer, and for a string another text
  (`Exponential`).
* A whole number above 2^53 that is read as a `float64` is rounded (`decoder.go:500`); the text of a number that is read as
  `[]byte` is taken for base64 (`decoder.go:46`), and one of sixteen characters read as a UUID for its bytes (`Misread`).
* The column of a pointer to a currency is a `CHAR(191)` (`sql/dialect/mysql/schema.go:240` compares the type with
  `currency.Unit` alone; `CharDataType`).
* A `datastore.Key` with a name or a parent is refused by the JSON column made for it
  (`Unfit`), a polygon has a column and no codec that fits it, a negative default of an
  integer panics (`NumberDataType`), and `longtext` makes a `TEXT`, although `README.md:98` says otherwise.
* A dump whose action selects some columns panics or puts values under other names (`excused`); a
  table without rows, or with generated columns, gives a file that cannot be loaded;
  `RegisterParser` never returns (`sql/dump/dump.go:96` defers `Lock`); the count `BackupTo` returns is
  always 0.
* A dump writes the members of a SET as they are (`sql/dump/mapper.go:45`), so an apostrophe or a backslash
  in one gives another value or no statement. It takes moments to UTC and ignores the error of the parser
  (`mapper.go:28` and `:33`): over a raw connection string (`sqlike/options/connect.go:36`) with another `loc` a DATETIME is shifted and a DATE east of UTC is
  the day before, and without `parseTime` every moment becomes the zero time (`Shifted`, `Unescaped`).
* Two fields tagged `auto_increment`, or one beside a column of another release that is, give a statement that
  MySQL always refuses (`SecondAuto`); `CREATE TABLE` gives an `auto_increment` field no index, so it is refused
  where a field behind it is tagged `primary_key` (`KeylessAuto`).
* `getCodec` does not end on two structs that contain each other (`reflext/reflext.go:274`
  compares a struct with its parent only).
* `CREATE TABLE` takes an `auto_increment` field as the primary key and `ModifyOne` the default one
  (`sqlike/modify.go:70`), which need not be unique then.
* `UnsafeMigrate` deletes no indexes although `sqlike/table.go:176` says so
  (`AlterTable` in `Migration`); `FindActions.From` with three arguments takes the fourth
  (`sqlike/actions/find.go:65`); `Having` is kept and never written (`BuildFindActions`); a `CASE`
  without an else ends in `ELSE END` (`sql/dialect/mysql/builder.go:422`); resolutions are not
  applied by `Update` and `Delete`; `Paginate` applies them in `All` and `NextCursor`, which go through `find`.
* In the codecs of `jsonb`: a `\u` escape of another program is read as its
  letters (`jsonb/string.go:93`); a float that is read without going through the server is cut
  at its exponent (`jsonb/number.go:33`); `Key.Scan` into a key that was used before keeps parts
  of it (`types/key.go:415`); `MarshalText` and `UnmarshalText` of a key have different forms
  (`types/key.go:254`); `skipObject` looks past the end of a document that is one object
  (`jsonb/skip.go:117`).

## 7. Plan

Order: what the most callers rely on first. Done: transactions, pagination,
migration, results and dumps, indexes, record writes and retries, JSON documents and keys, conditions
and resolutions, the way of a record through fields, columns and codecs. Next, in this order:

1. Proofs: parts of `Statements` whose recursion can be written as functions over positions, as `AppendedAll` is
   (what a text of marks binds); the place of a value in a record (`ValueAt` of `WithValue`), with which
   `NoDecoderChanges` reaches the record; the counts of `RecordsSerial`'s repeated calls.
2. In `Rows`, map keys of other types than strings and the opaque form of a key; in `Entities`, arrays,
   raw bytes and spatial types beyond a line.

## 8. Not modelled

* The client: `USE` on one connection of the pool (`sqlike/client.go:146`) and replicas (`client.go:174`).
  The choice of a connection or a server is made by `database/sql` and by the application's
  resolver; the code promises nothing about it that a run could check.
* The registry of codecs and that of dialects: maps that are written by init functions and read
  afterwards. A lookup in the former takes no lock (`sql/codec/registry.go:166`), so
  `SetTypeCodec` beside a query is a data race that ends the program.
* The casbin plugin: sequential, one statement per method, over calls that are modelled. `LoadPolicy`
  loads at most a hundred rules and `loadPolicy` moves the members behind an empty one
  (`plugin/casbin/casbin.go:217`).
* The pool of statements: each belongs to one goroutine between `AcquireStmt` and `ReleaseStmt`, and
  what was written is reset.
* The text of SQL and of logs, projections, functions and spatial expressions, which are written one
  after the other; generated code; instrumentation (one call around another, no state);
  conversions of single values by the standard library.
