-------------------------------- MODULE Dump --------------------------------
(* Dumper.BackupTo (sql/dump): a table written to a file as an INSERT, over *)
(* the pool of connections that the results of module Result use too. It    *)
(* asks the catalogue for the columns, starts the query, asks for the       *)
(* server's version while the rows of the query are open, and writes a line *)
(* for each of them. The table may be altered by another program meanwhile. *)

EXTENDS Result, Integers, Sequences

CONSTANTS
    Dumpers,    \* calls of BackupTo, one each
    Tables,     \* the columns of the table before and after ALTER TABLE:
                \* sequences of [name, type]
    Stored,     \* the table's rows: column name -> text, or Null
    Connections,\* what the connection string may ask of the driver: to parse
                \* times, in a location so many hours east of UTC
    MaxDumps    \* bound: dumps that are begun, for each of Connections

ASSUME DumpersAssumption == IsFiniteSet(Dumpers)

Null == <<"NULL">>

\* A text is a sequence of characters, and a moment of a day and an hour.
IsText(v) == v = [i \in DOMAIN v |-> v[i]]

\* A table has columns, and its rows have a text or Null in each of them.
ASSUME TablesAssumption ==
    /\ \A t \in 1..2 : Tables[t] \in Seq({Tables[t][i] : i \in DOMAIN Tables[t]})
    /\ Stored \in Seq({Stored[r] : r \in DOMAIN Stored})
    /\ \A t \in 1..2, r \in DOMAIN Stored :
          \A i \in DOMAIN Tables[t] : IsText(Stored[r][Tables[t][i].name])

\* Connect asks for parsed times, in UTC; a raw string asks for what it likes.
ASSUME ConnectionsAssumption == Connections \subseteq [parseTime : BOOLEAN, loc : -12..14]

\* The days are counted from that of Go's zero time, and a day has 24 hours. A
\* DATE begins its day. MySQL has a zero date besides.
ZeroTime == <<0, 0>>
ZeroDate == <<-1, 0>>

Moment(v) == v = ZeroDate \/ v \in Nat \X (0..23)
Date(v) == v = ZeroDate \/ v \in Nat \X {0}

ASSUME MomentsAssumption ==
    \A t \in 1..2, r \in DOMAIN Stored : \A i \in DOMAIN Tables[t] :
       LET v == Stored[r][Tables[t][i].name]
       IN  /\ Tables[t][i].type \in {"TIMESTAMP", "DATETIME"} => v = Null \/ Moment(v)
           /\ Tables[t][i].type = "DATE" => v = Null \/ Date(v)

VARIABLES
    conn,       \* the connection string's choice
    table,      \* 1 or 2, the columns it has
    stage,      \* of the call
    columns,    \* what the catalogue said, by getColumns
    cols,       \* the columns of the query's result
    file,       \* the lines after VALUES
    excused     \* history: the query selects some columns, the table was
                \* altered before it, or the catalogue's rows broke off

dumpVars == <<conn, table, stage, columns, cols, file, excused>>
allVars == <<vars, dumpVars>>

Stages == {"idle", "columns", "query", "version", "rows", "done", "failed", "panicked"}

-----------------------------------------------------------------------------
(* Values and the texts that they become.                                   *)

Numbers == {"INT", "TINYINT", "SMALLINT", "MEDIUMINT", "BIGINT"}
Moments == {"TIMESTAMP", "DATETIME", "DATE"}

\* What the driver scans into raw bytes. Of a moment that it parses, the time
\* and its distance from UTC; a zero date becomes Go's zero time, in UTC.
Scanned(type, v) ==
    IF type \in Moments /\ conn.parseTime
    THEN IF v = ZeroDate THEN <<"RFC3339", ZeroTime, 0>> ELSE <<"RFC3339", v, conn.loc>>
    ELSE <<"text", v>>

UTC(v, loc) ==
    LET hours == 24 * v[1] + v[2] - loc IN <<hours \div 24, hours % 24>>

\* Characters that strconv.Quote writes as \x.. or in another way that MySQL
\* does not read as Go does.
Unprintable == {"bell"}

byteToString(raw) == <<"quoted", raw[2]>>
numToString(raw) == <<"bare", raw[2]>>

\* time.Parse, whose error is ignored: anything else is the zero time.
Parsed(raw) == IF raw[1] = "RFC3339" THEN UTC(raw[2], raw[3]) ELSE ZeroTime
tsToString(raw) == <<"stamp", Parsed(raw)>>
dateToString(raw) == <<"day", <<Parsed(raw)[1], 0>>>>

\* The members between apostrophes, as they are.
setToString(raw) == <<"apostrophes", raw[2]>>

\* Mutant: the document null is written without quotes.
jsonToString_Bare(raw) ==
    IF raw[2] = <<"n", "u", "l", "l">> THEN <<"bare", Null>> ELSE <<"quoted", raw[2]>>
jsonToString(raw) == <<"quoted", raw[2]>>

\* The parser of the column's type, or quotes around whatever it is.
Literal(type, raw) ==
    CASE type \in Numbers -> numToString(raw)
      [] type = "JSON" -> jsonToString(raw)
      [] type = "SET" -> setToString(raw)
      [] type \in {"TIMESTAMP", "DATETIME"} -> tsToString(raw)
      [] type = "DATE" -> dateToString(raw)
      [] OTHER -> byteToString(raw)

\* The line of a row: the columns of the catalogue, each from what is at its
\* place in the result.
Line(d, row) ==
    [i \in DOMAIN columns[d] |->
        LET v == Stored[row][cols[d][i].name]
        IN  IF v = Null THEN <<"bare", Null>>
            ELSE Literal(columns[d][i].type, Scanned(cols[d][i].type, v))]

\* Between apostrophes an apostrophe and a backslash mean something else,
\* except for a backslash before % or _.
Verbatim(t) ==
    \A k \in DOMAIN t :
       /\ t[k] # "'"
       /\ t[k] = "\\" => k + 1 \in DOMAIN t /\ t[k + 1] \in {"%", "_"}

\* MySQL reads a literal of the file. One that is not written as MySQL reads
\* it gives another text, or the file is no statement.
Garbled == <<"garbled">>

Loaded(literal) ==
    CASE literal = <<"bare", Null>> -> Null
      [] literal[1] = "quoted" ->
           [i \in DOMAIN literal[2] |-> IF literal[2][i] \in Unprintable THEN "x" ELSE literal[2][i]]
      [] literal[1] = "apostrophes" -> IF Verbatim(literal[2]) THEN literal[2] ELSE Garbled
      [] OTHER -> literal[2]

-----------------------------------------------------------------------------
(* BackupTo *)

DumpInit ==
    /\ Init
    /\ conn \in Connections
    /\ table = 1
    /\ stage = [d \in Dumpers |-> "idle"]
    /\ columns = [d \in Dumpers |-> <<>>]
    /\ cols = [d \in Dumpers |-> <<>>]
    /\ file = [d \in Dumpers |-> <<>>]
    /\ excused = [d \in Dumpers |-> FALSE]

Goes(d, next) == stage' = [stage EXCEPT ![d] = next]
\* The call returns or panics: what it knew is gone, the file is the caller's.
Ends(d, how) ==
    /\ Goes(d, how)
    /\ columns' = [columns EXCEPT ![d] = <<>>]
    /\ cols' = [cols EXCEPT ![d] = <<>>]
    /\ file' = [file EXCEPT ![d] = <<>>]
    /\ excused' = [excused EXCEPT ![d] = FALSE]
Lent(n) ==
    lent' = lent + n /\ UNCHANGED <<kind, rows, err, total, pos, broken, call, ret, conn>>

\* Only find actions can be dumped.
BackupTo(d) ==
    /\ stage[d] = "idle"
    /\ Cardinality({o \in Dumpers : stage[o] # "idle"}) < MaxDumps[conn]
    /\ Goes(d, "columns") \/ Goes(d, "failed")
    /\ Lent(0) /\ UNCHANGED <<table, columns, cols, file, excused>>

\* Mutant: the rows of the catalogue are left open.
GetColumns_Open(d) ==
    /\ stage[d] = "columns" /\ Free
    /\ columns' = [columns EXCEPT ![d] = Tables[table]]
    /\ Goes(d, "query")
    /\ Lent(1) /\ UNCHANGED <<table, cols, file, excused>>

\* getColumns: nobody asks whether the rows of the catalogue broke off; a list
\* that lacks the last column stands for every list cut short.
GetColumns(d) ==
    /\ stage[d] = "columns" /\ Free
    /\ \/ Ends(d, "failed")
       \/ /\ \E n \in {Len(Tables[table]) - 1, Len(Tables[table])} :
                /\ columns' = [columns EXCEPT ![d] = SubSeq(Tables[table], 1, n)]
                /\ excused' = [excused EXCEPT ![d] = n < Len(Tables[table])]
          /\ Goes(d, "query") /\ UNCHANGED <<cols, file>>
    /\ Lent(0) /\ UNCHANGED table

\* The result has all columns of the table as it is now, or the ones that the
\* query selects.
Query(d) ==
    /\ stage[d] = "query" /\ Free
    /\ \/ Ends(d, "failed") /\ Lent(0)
       \/ /\ \E some \in BOOLEAN :
                /\ cols' = [cols EXCEPT ![d] = IF some THEN Tail(Tables[table]) ELSE Tables[table]]
                /\ excused' = [excused EXCEPT ![d] = @ \/ some]
          /\ Goes(d, "version") /\ Lent(1) /\ UNCHANGED <<columns, file>>
    /\ UNCHANGED table

\* getVersion: a second connection, while the rows of the query keep theirs.
GetVersion(d) ==
    /\ stage[d] = "version" /\ Free
    /\ \/ Goes(d, "rows") /\ Lent(0) /\ UNCHANGED <<columns, cols, file, excused>>
       \/ Ends(d, "failed") /\ Lent(-1)
    /\ UNCHANGED table

\* A row of the query. With more columns than the row has values the loop
\* runs out of them and panics; the deferred calls end the file and close
\* the rows all the same.
Row(d) ==
    /\ stage[d] = "rows" /\ Len(file[d]) < Len(Stored)
    /\ \/ /\ Len(columns[d]) <= Len(cols[d])
          /\ file' = [file EXCEPT ![d] = Append(@, Line(d, Len(@) + 1))]
          /\ Lent(0) /\ UNCHANGED <<stage, columns, cols, excused>>
       \/ Len(columns[d]) > Len(cols[d]) /\ Ends(d, "panicked") /\ Lent(-1)
       \/ Ends(d, "failed") /\ Lent(-1)
    /\ UNCHANGED table

\* No next row: there are no more, or they broke off, which is not asked.
End(d) ==
    /\ stage[d] = "rows"
    /\ Ends(d, "done") /\ Lent(-1) /\ UNCHANGED table

\* The context of the call ends while it waits for a connection.
GiveUp(d) ==
    /\ stage[d] \in {"columns", "query", "version"}
    /\ Ends(d, "failed") /\ Lent(IF stage[d] = "version" THEN -1 ELSE 0)
    /\ UNCHANGED table

\* Another program.
Alter ==
    /\ table = 1 /\ table' = 2
    /\ excused' = [d \in Dumpers |-> excused[d] \/ stage[d] = "query"]
    /\ Lent(0) /\ UNCHANGED <<stage, columns, cols, file>>

Connected(d) == GetColumns(d) \/ Query(d) \/ GetVersion(d)
Writes(d) == Row(d) \/ End(d)

DumpNext ==
    \/ Next /\ UNCHANGED dumpVars
    \/ \E d \in Dumpers : BackupTo(d) \/ Connected(d) \/ Writes(d) \/ GiveUp(d)
    \/ Alter

\* The pool serves a dump as it serves a query.
DumpSpec ==
    /\ DumpInit /\ [][DumpNext]_allVars
    /\ \A h \in Handles : SF_vars(Served(h)) /\ WF_vars(LastCall(h))
    /\ \A d \in Dumpers : SF_allVars(Connected(d)) /\ WF_allVars(Writes(d))

-----------------------------------------------------------------------------
(* Properties *)

\* As many dumps as the pool has connections, each waiting for one more.
Locked == Cardinality({d \in Dumpers : stage[d] = "version"}) = PoolSize

\* The pool is not a trap: if every user ends as the API says, a query that
\* waits for a connection gets one. For FindOne to decode is to close.
QueriesServed ==
    \A h \in Handles :
       kind[h] \in {"waiting Find", "waiting FindOne"}
          ~> Locked \/ kind[h] \in {"Find", "FindOne", "failed"}

\* A dump that is under way ends, short of the one case in which dumps hold
\* the whole pool: nothing else keeps the connections it needs.
DumpsEnd ==
    \A d \in Dumpers :
       stage[d] = "columns" ~> Locked \/ stage[d] \in {"done", "failed", "panicked"}

\* A moment is another one in UTC, or no moment for time.Parse.
Shifted(type) ==
    type \in Moments
      /\ (~conn.parseTime \/ IF type = "DATE" THEN conn.loc > 0 ELSE conn.loc # 0)

\* Texts that a parser writes as MySQL does not read them.
Unescaped(type, v) ==
    \E k \in DOMAIN v : v[k] \in IF type = "SET" THEN {"'", "\\"} ELSE Unprintable

\* A dump that returns nil has written a file which, loaded, gives every row
\* the values that it had, and no dump panics: unless the query selects some
\* of the columns, the table was altered while the dump began or rows broke
\* off. Lost are texts with bytes that Go and MySQL do not escape alike, sets
\* with an apostrophe or a backslash, zero dates, and moments over a
\* connection that does not parse them or has another location than UTC (a
\* DATE: one to the east).
Restores(d) ==
    \A r \in DOMAIN Stored, i \in DOMAIN cols[d] :
       LET v == Stored[r][cols[d][i].name]
           type == cols[d][i].type
       IN  \/ Loaded(file[d][r][i]) = v
           \/ IF type \in Moments THEN Shifted(type) \/ v = ZeroDate ELSE Unescaped(type, v)

DumpRestores ==
    [][\A d \in Dumpers :
          stage[d] = "rows" /\ ~excused[d]
            => /\ stage'[d] # "panicked"
               /\ stage'[d] = "done" => Len(file[d]) < Len(Stored) \/ Restores(d)]_allVars
=============================================================================
