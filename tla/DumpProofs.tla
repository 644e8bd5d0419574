----------------------------- MODULE DumpProofs -----------------------------
(* Where the connections of the pool are and what the files of dumps hold,  *)
(* for any number of results and dumps and a pool of any size.              *)
(*                                                                          *)
(* A result is Fresh until Find or FindOne returns it; EndedMeansReleased   *)
(* is inductive only together with Fresh: FindOne must find no rows open    *)
(* that its error would leave behind. PoolShared counts; a step takes or    *)
(* gives back one connection, of one result (BusyStep) or of one dump       *)
(* (LendingStep), and only takes one that is free. FileInv relates what a   *)
(* dump knows from the catalogue to the columns its query gives, and its    *)
(* file to the rows.                                                        *)

EXTENDS Dump, FiniteSetTheorems, TLAPS

RowStates == {"nil", "open", "closed"}
Errors == {"none", "ErrNoRows", "query error"}

HandleTypes ==
    /\ kind \in [Handles -> Kinds]
    /\ rows \in [Handles -> RowStates]
    /\ err \in [Handles -> Errors]
    /\ call \in [Handles -> Calls] /\ ret \in [Handles -> BOOLEAN]

\* Before Find or FindOne has returned there are no rows and no error.
FreshAt(h) ==
    kind[h] \in {"none", "waiting Find", "waiting FindOne", "failed"}
       => rows[h] = "nil" /\ err[h] = "none"

Fresh == \A h \in Handles : FreshAt(h)

\* EndedMeansReleased, of one result.
EndedAt(h) ==
    \/ call[h] \in {"Scan", "ScanSlice", "All", "Error", "Close"}
    \/ call[h] = "Next" /\ ~ret[h]
    \/ call[h] = "Decode" /\ kind[h] = "FindOne"
    \/ call[h] = "FindOne" /\ err[h] # "none"
    => rows[h] # "open"

HandleInv == HandleTypes /\ Fresh /\ EndedMeansReleased

\* The dumps that have a query open.
Lending == {d \in Dumpers : stage[d] \in {"version", "rows"}}

\* Every connection lent is that of one dump's query, and the results and the
\* dumps together never have more than the pool.
PoolShared ==
    /\ lent = Cardinality(Lending)
    /\ Cardinality(Busy) + lent <= PoolSize

PoolInv == HandleTypes /\ Fresh /\ stage \in [Dumpers -> Stages] /\ PoolShared

-----------------------------------------------------------------------------
\* A step of a dump or of the other program leaves every result alone.
LEMMA DumpFrame ==
  ASSUME DumpNext, ~(Next /\ UNCHANGED dumpVars)
  PROVE  UNCHANGED <<kind, rows, err, total, pos, broken, call, ret>>
<1> USE DEF Lent
<1>1. CASE Alter
  BY <1>1 DEF Alter
<1>2. ASSUME NEW d \in Dumpers, BackupTo(d) \/ Connected(d) \/ Writes(d) \/ GiveUp(d)
      PROVE  UNCHANGED <<kind, rows, err, total, pos, broken, call, ret>>
  <2>1. CASE BackupTo(d)
    BY <2>1 DEF BackupTo
  <2>2. CASE Connected(d)
    BY <2>2 DEF Connected, GetColumns, Query, GetVersion
  <2>3. CASE Writes(d) \/ GiveUp(d)
    BY <2>3 DEF Writes, Row, End, GiveUp
  <2> QED
    BY <1>2, <2>1, <2>2, <2>3
<1> QED
  BY <1>1, <1>2 DEF DumpNext

\* What a step does to the result h that takes it.
StepOf(h) == Ask(h) \/ Served(h) \/ Break(h) \/ Use(h)

Moved(h) ==
    /\ \E k \in Kinds : kind' = [kind EXCEPT ![h] = k]
    /\ \E r \in RowStates : rows' = [rows EXCEPT ![h] = r]
    /\ \E e \in Errors : err' = [err EXCEPT ![h] = e]
    /\ \E c \in Calls : call' = [call EXCEPT ![h] = c]
    /\ \E ok \in BOOLEAN : ret' = [ret EXCEPT ![h] = ok]

\* What leaves a variable as it is sets it to what it is.
LEMMA Kept ==
  ASSUME HandleTypes, NEW h \in Handles
  PROVE  /\ kind = [kind EXCEPT ![h] = kind[h]] /\ kind[h] \in Kinds
         /\ rows = [rows EXCEPT ![h] = rows[h]] /\ rows[h] \in RowStates
         /\ err = [err EXCEPT ![h] = err[h]] /\ err[h] \in Errors
         /\ call = [call EXCEPT ![h] = call[h]] /\ call[h] \in Calls
         /\ ret = [ret EXCEPT ![h] = ret[h]] /\ ret[h] \in BOOLEAN
BY DEF HandleTypes

\* The calls of Result answer and may close their rows.
LEMMA UseMoves ==
  ASSUME HandleTypes, NEW h \in Handles, Use(h)
  PROVE  Moved(h)
<1>1. UNCHANGED <<kind, err>>
  BY DEF Use, Next_, Decode, Scan, ReadAll, Error, Close
<1>2. CloseRows(h) \/ UNCHANGED rows
  BY DEF Use, Next_, Decode, Scan, ReadAll, Error, Close
<1>3. \E r \in RowStates : rows' = [rows EXCEPT ![h] = r]
  BY <1>2, Kept DEF CloseRows, SetRows, RowStates
<1>4. \E c \in Calls, ok \in BOOLEAN : Called(h, c, ok)
  <2>1. /\ {"Next", "Decode", "Scan", "ScanSlice", "All", "Error", "Close"} \subseteq Calls
        /\ (err[h] = "none") \in BOOLEAN
    BY DEF Calls
  <2>2. CASE Next_(h)
    BY <2>1, <2>2 DEF Next_
  <2>3. CASE Decode(h)
    BY <2>1, <2>3 DEF Decode
  <2>4. CASE Scan(h)
    BY <2>1, <2>4 DEF Scan
  <2>5. CASE ReadAll(h)
    BY <2>1, <2>5 DEF ReadAll
  <2>6. CASE Error(h)
    BY <2>1, <2>6 DEF Error
  <2>7. CASE Close(h)
    BY <2>1, <2>7 DEF Close
  <2> QED
    BY <2>2, <2>3, <2>4, <2>5, <2>6, <2>7 DEF Use
<1>5. /\ \E c \in Calls : call' = [call EXCEPT ![h] = c]
      /\ \E ok \in BOOLEAN : ret' = [ret EXCEPT ![h] = ok]
  BY <1>4 DEF Called
<1> QED
  BY <1>1, <1>3, <1>5, Kept DEF Moved

LEMMA Moves ==
  ASSUME HandleTypes, NEW h \in Handles, StepOf(h)
  PROVE  Moved(h)
<1>1. CASE Ask(h)
  BY <1>1, Kept DEF Ask, Moved, Kinds
<1>2. CASE FindReturns(h)
  BY <1>2, Kept DEF FindReturns, Moved, Called, SetRows, Kinds, Calls, RowStates
<1>3. CASE FindOneReturns(h)
  <2>1. kind' = [kind EXCEPT ![h] = "FindOne"] /\ Called(h, "FindOne", TRUE)
    BY <1>3 DEF FindOneReturns
  <2>2. \E e \in Errors : err' = [err EXCEPT ![h] = e]
    BY <1>3, Kept DEF FindOneReturns, Errors
  <2>3. \E r \in RowStates : rows' = [rows EXCEPT ![h] = r]
    BY <1>3, Kept DEF FindOneReturns, SetRows, RowStates
  <2> QED
    BY <2>1, <2>2, <2>3 DEF Moved, Called, Kinds, Calls
<1>4. CASE Break(h)
  BY <1>4, Kept DEF Break, Moved, SetRows, RowStates
<1>5. CASE Use(h)
  BY <1>5, UseMoves
<1> QED
  BY <1>1, <1>2, <1>3, <1>4, <1>5 DEF StepOf, Served

\* A step of one result keeps the types, and leaves the others alone.
LEMMA MovedTypes ==
  ASSUME HandleTypes, NEW h \in Handles, Moved(h)
  PROVE  HandleTypes'
<1>1. kind' \in [Handles -> Kinds] /\ rows' \in [Handles -> RowStates]
  BY DEF Moved, HandleTypes
<1>2. err' \in [Handles -> Errors] /\ call' \in [Handles -> Calls]
  BY DEF Moved, HandleTypes
<1>3. ret' \in [Handles -> BOOLEAN]
  BY DEF Moved, HandleTypes
<1> QED
  BY <1>1, <1>2, <1>3 DEF HandleTypes

LEMMA OthersStay ==
  ASSUME HandleTypes, NEW h \in Handles, Moved(h), NEW t \in Handles, t # h
  PROVE  /\ kind'[t] = kind[t] /\ rows'[t] = rows[t] /\ err'[t] = err[t]
         /\ call'[t] = call[t] /\ ret'[t] = ret[t]
BY DEF Moved, HandleTypes

\* A step of one result keeps Fresh: of h by what the step does, of the
\* others since it leaves them alone.
LEMMA FreshStep ==
  ASSUME HandleTypes, Fresh, NEW h \in Handles, StepOf(h)
  PROVE  Fresh'
<1> SUFFICES FreshAt(h)'
  BY Moves, OthersStay DEF Fresh, FreshAt
<1>0. FreshAt(h)
  BY DEF Fresh
<1>1. CASE Ask(h)
  BY <1>0, <1>1 DEF Ask, FreshAt, HandleTypes
<1>2. CASE FindReturns(h)
  BY <1>0, <1>2 DEF FindReturns, FreshAt, HandleTypes, SetRows
<1>3. CASE FindOneReturns(h)
  <2>1. kind'[h] = "FindOne"
    BY <1>3 DEF FindOneReturns, HandleTypes
  <2> QED
    BY <2>1 DEF FreshAt
<1>4. CASE Break(h)
  BY <1>0, <1>4 DEF Break, FreshAt, HandleTypes
<1>5. CASE Use(h)
  <2>1. kind'[h] = kind[h] /\ kind[h] \in {"Find", "FindOne"}
    BY <1>5 DEF Use, Next_, Decode, Scan, ReadAll, Error, Close
  <2> QED
    BY <2>1 DEF FreshAt
<1> QED
  BY <1>1, <1>2, <1>3, <1>4, <1>5 DEF StepOf, Served

\* A step of one result h keeps EndedAt.
LEMMA EndedStep ==
  ASSUME HandleInv, NEW h \in Handles, StepOf(h)
  PROVE  EndedMeansReleased'
<1> USE DEF HandleInv
<1>0. \A t \in Handles : EndedAt(t)
  BY DEF EndedMeansReleased, EndedAt, Busy
<1>1. \A t \in Handles \ {h} : EndedAt(t)'
  <2> SUFFICES ASSUME NEW t \in Handles, t # h PROVE EndedAt(t)'
    OBVIOUS
  <2>1. /\ kind'[t] = kind[t] /\ rows'[t] = rows[t] /\ err'[t] = err[t]
        /\ call'[t] = call[t] /\ ret'[t] = ret[t]
    BY Moves, OthersStay
  <2> QED
    BY <1>0, <2>1 DEF EndedAt
<1>2. ASSUME rows'[h] # "open" PROVE EndedAt(h)'
  BY <1>2 DEF EndedAt
<1>3. ASSUME rows'[h] = "open" PROVE EndedAt(h)'
  <2>1. ~CloseRows(h)
    BY <1>3 DEF CloseRows, SetRows, HandleTypes
  <2>2. CASE Ask(h)
    <3>1. rows'[h] = rows[h] /\ rows[h] = "nil"
      BY <2>2 DEF Ask, Fresh, FreshAt
    <3> QED
      BY <1>3, <3>1
  <2>3. CASE FindReturns(h)
    <3>1. call'[h] = "Find"
      BY <2>3 DEF FindReturns, Called, HandleTypes
    <3> QED
      BY <3>1 DEF EndedAt
  <2>4. CASE FindOneReturns(h)
    <3>1. rows[h] = "nil" /\ err[h] = "none"
      BY <2>4 DEF FindOneReturns, Fresh, FreshAt
    <3>2. call'[h] = "FindOne"
      BY <2>4 DEF FindOneReturns, Called, HandleTypes
    <3>3. err'[h] = "none"
      BY <1>3, <2>4, <3>1 DEF FindOneReturns, SetRows, HandleTypes
    <3> QED
      BY <3>2, <3>3 DEF EndedAt
  <2>5. CASE Break(h)
    <3>1. UNCHANGED <<rows, call, kind, err, ret>>
      BY <1>3, <2>5 DEF Break, SetRows, HandleTypes
    <3> QED
      BY <1>0, <3>1 DEF EndedAt
  <2>6. CASE Next_(h)
    <3>1. call'[h] = "Next" /\ ret'[h] = TRUE
      BY <2>1, <2>6 DEF Next_, Called, HandleTypes
    <3> QED
      BY <3>1 DEF EndedAt
  <2>7. CASE Decode(h)
    <3>1. call'[h] = "Decode" /\ kind'[h] # "FindOne"
      BY <2>1, <2>7 DEF Decode, Called, HandleTypes
    <3> QED
      BY <3>1 DEF EndedAt
  <2>8. CASE Scan(h) \/ ReadAll(h) \/ Error(h) \/ Close(h)
    BY <2>1, <2>8 DEF Scan, ReadAll, Error, Close
  <2> QED
    BY <2>2, <2>3, <2>4, <2>5, <2>6, <2>7, <2>8 DEF StepOf, Served, Use
<1> QED
  <2>1. \A t \in Handles : EndedAt(t)'
    BY <1>1, <1>2, <1>3
  <2> QED
    BY <2>1 DEF EndedMeansReleased, EndedAt, Busy

LEMMA HandleInvInductive ==
  ASSUME HandleInv, [DumpNext]_allVars
  PROVE  HandleInv'
<1> USE DEF HandleInv
<1>1. CASE Next /\ UNCHANGED dumpVars
  <2>1. PICK h \in Handles : StepOf(h)
    BY <1>1 DEF Next, StepOf
  <2> QED
    BY <2>1, Moves, MovedTypes, FreshStep, EndedStep
<1>2. CASE DumpNext /\ ~(Next /\ UNCHANGED dumpVars)
  <2>1. UNCHANGED <<kind, rows, err, call, ret>>
    BY <1>2, DumpFrame
  <2> QED
    BY <2>1 DEF HandleTypes, Fresh, FreshAt, EndedMeansReleased, Busy
<1>3. CASE UNCHANGED allVars
  BY <1>3 DEF allVars, vars, HandleTypes, Fresh, FreshAt, EndedMeansReleased, Busy
<1> QED
  BY <1>1, <1>2, <1>3

LEMMA HandleInvInitially == DumpInit => HandleInv
BY DEF DumpInit, Init, HandleInv, HandleTypes, Fresh, FreshAt, EndedMeansReleased, Busy, Kinds,
       Calls, RowStates, Errors

\* However a call ends the use of a result, its connection is back in the pool
\* (the methods of Result in sqlike/result.go).
THEOREM Released == DumpSpec => []EndedMeansReleased
<1>1. HandleInv => EndedMeansReleased
  BY DEF HandleInv
<1> QED
  BY HandleInvInitially, HandleInvInductive, <1>1, PTL DEF DumpSpec

-----------------------------------------------------------------------------
\* A step of a result opens its rows, if there is a connection for them, or
\* closes them, or leaves the set of open rows as it was.
LEMMA BusyStep ==
  ASSUME HandleTypes, NEW h \in Handles, StepOf(h)
  PROVE  /\ lent' = lent
         /\ \/ Busy' \in SUBSET Busy
            \/ Free /\ Busy' = Busy \cup {h}
<1> USE DEF HandleTypes, RowStates, Busy, SetRows, CloseRows
<1>1. CASE Ask(h)
  BY <1>1 DEF Ask
<1>2. CASE FindReturns(h)
  <2>1. CASE UNCHANGED rows
    BY <1>2, <2>1 DEF FindReturns
  <2>2. CASE SetRows(h, "open")
    <3>1. Free /\ lent' = lent
      BY <1>2 DEF FindReturns
    <3>2. Busy' = Busy \cup {h}
      BY <2>2
    <3> QED
      BY <3>1, <3>2
  <2> QED
    BY <1>2, <2>1, <2>2 DEF FindReturns
<1>3. CASE FindOneReturns(h)
  <2>1. CASE UNCHANGED rows
    BY <1>3, <2>1 DEF FindOneReturns
  <2>2. CASE SetRows(h, "open")
    <3>1. Free /\ lent' = lent
      BY <1>3 DEF FindOneReturns
    <3>2. Busy' = Busy \cup {h}
      BY <2>2
    <3> QED
      BY <3>1, <3>2
  <2>3. CASE SetRows(h, "closed")
    BY <1>3, <2>3 DEF FindOneReturns
  <2> QED
    BY <1>3, <2>1, <2>2, <2>3 DEF FindOneReturns
<1>4. CASE Break(h)
  BY <1>4 DEF Break
<1>5. CASE Next_(h)
  BY <1>5 DEF Next_
<1>6. CASE Decode(h) \/ Scan(h) \/ ReadAll(h) \/ Error(h) \/ Close(h)
  BY <1>6 DEF Decode, Scan, ReadAll, Error, Close
<1> QED
  BY <1>1, <1>2, <1>3, <1>4, <1>5, <1>6 DEF StepOf, Served, Use

\* A step of a dump opens its query, if there is a connection for it, or
\* closes it, or leaves the set of open queries as it was.
LEMMA LendingStep ==
  ASSUME stage \in [Dumpers -> Stages],
         NEW d \in Dumpers, BackupTo(d) \/ Connected(d) \/ Writes(d) \/ GiveUp(d)
  PROVE  /\ stage' \in [Dumpers -> Stages]
         /\ \/ lent' = lent + 0 /\ Lending' = Lending
            \/ lent' = lent + 1 /\ Lending' = Lending \cup {d} /\ d \notin Lending /\ Free
            \/ lent' = lent - 1 /\ Lending' = Lending \ {d} /\ d \in Lending
<1> USE DEF Stages, Lending, Goes, Ends, Lent
<1>1. CASE BackupTo(d)
  BY <1>1 DEF BackupTo
<1>2. CASE GetColumns(d)
  BY <1>2 DEF GetColumns
<1>3. CASE Query(d)
  BY <1>3 DEF Query
<1>4. CASE GetVersion(d)
  BY <1>4 DEF GetVersion
<1>5. CASE Row(d)
  BY <1>5 DEF Row
<1>6. CASE End(d)
  BY <1>6 DEF End
<1>7. CASE GiveUp(d)
  BY <1>7 DEF GiveUp
<1> QED
  BY <1>1, <1>2, <1>3, <1>4, <1>5, <1>6, <1>7 DEF Connected, Writes

\* Sets of results and of dumps are finite, and can be counted.
LEMMA Counted ==
  ASSUME NEW S, NEW T \in SUBSET S, IsFiniteSet(S)
  PROVE  IsFiniteSet(T) /\ Cardinality(T) \in Nat
BY FS_Subset, FS_CardinalityType

LEMMA PoolInvInductive ==
  ASSUME PoolInv, HandleInv', [DumpNext]_allVars
  PROVE  PoolInv'
<1> USE DEF PoolInv, PoolShared
<1> DEFINE b == Cardinality(Busy)
           l == Cardinality(Lending)
<1>1. HandleTypes' /\ Fresh'
  BY DEF HandleInv
<1>2. /\ IsFiniteSet(Busy) /\ b \in Nat
      /\ IsFiniteSet(Lending) /\ l \in Nat
  BY Counted, HandlesAssumption, DumpersAssumption DEF Busy, Lending
<1>3. PoolSize \in Nat
  BY PoolAssumption
<1>4. CASE Next /\ UNCHANGED dumpVars
  <2>1. stage' = stage /\ Lending' = Lending
    BY <1>4 DEF dumpVars, Lending
  <2>2. PICK h \in Handles : StepOf(h)
    BY <1>4 DEF Next, StepOf
  <2>3. /\ lent' = lent
        /\ Busy' \in SUBSET Busy \/ (Free /\ Busy' = Busy \cup {h})
    BY <2>2, BusyStep
  <2>4. CASE Busy' \in SUBSET Busy
    <3>1. Cardinality(Busy') \in Nat /\ Cardinality(Busy') <= b
      BY <1>2, <2>4, FS_Subset, FS_CardinalityType
    <3> QED
      BY <1>1, <1>2, <1>3, <2>1, <2>3, <3>1
  <2>5. CASE Free /\ Busy' = Busy \cup {h}
    <3>1. Cardinality(Busy') = b \/ Cardinality(Busy') = b + 1
      BY <1>2, <2>5, FS_AddElement
    <3>2. b + lent < PoolSize
      BY <2>5 DEF Free
    <3> QED
      BY <1>1, <1>2, <1>3, <2>1, <2>3, <3>1, <3>2
  <2> QED
    BY <2>3, <2>4, <2>5
<1>5. CASE DumpNext /\ ~(Next /\ UNCHANGED dumpVars)
  <2>1. Busy' = Busy
    BY <1>5, DumpFrame DEF Busy
  <2>2. CASE Alter
    <3>1. stage' = stage /\ Lending' = Lending /\ lent' = lent + 0
      BY <2>2 DEF Alter, Lent, Lending
    <3> QED
      BY <1>1, <1>2, <2>1, <3>1
  <2>3. ASSUME NEW d \in Dumpers, BackupTo(d) \/ Connected(d) \/ Writes(d) \/ GiveUp(d)
        PROVE  PoolInv'
    <3>1. stage' \in [Dumpers -> Stages]
      BY <2>3, LendingStep
    <3>2. CASE lent' = lent + 0 /\ Lending' = Lending
      BY <1>1, <1>2, <2>1, <3>1, <3>2
    <3>3. CASE lent' = lent + 1 /\ Lending' = Lending \cup {d} /\ d \notin Lending /\ Free
      <4>1. Cardinality(Lending') = l + 1
        BY <1>2, <3>3, FS_AddElement
      <4>2. b + lent < PoolSize
        BY <3>3 DEF Free
      <4> QED
        BY <1>1, <1>2, <1>3, <2>1, <3>1, <3>3, <4>1, <4>2
    <3>4. CASE lent' = lent - 1 /\ Lending' = Lending \ {d} /\ d \in Lending
      <4>1. Cardinality(Lending') = l - 1
        BY <1>2, <3>4, FS_RemoveElement
      <4> QED
        BY <1>1, <1>2, <1>3, <2>1, <3>1, <3>4, <4>1
    <3> QED
      BY <2>3, <3>2, <3>3, <3>4, LendingStep
  <2> QED
    BY <1>5, <2>2, <2>3 DEF DumpNext
<1>6. CASE UNCHANGED allVars
  BY <1>1, <1>6 DEF allVars, vars, dumpVars, Busy, Lending
<1> QED
  BY <1>4, <1>5, <1>6

\* The results that are open and the dumps that have a query open never hold
\* more connections than the pool has, and nobody else holds one: the calls of
\* GetColumns and GetVersion give back what they take (sql/dump/dump.go).
THEOREM PoolConserved == DumpSpec => []PoolShared
<1>1. DumpInit => PoolInv
  <2> SUFFICES ASSUME DumpInit PROVE PoolInv
    OBVIOUS
  <2>1. Busy = {} /\ Lending = {}
    BY DEF DumpInit, Init, Busy, Lending
  <2>2. Cardinality({}) = 0
    BY FS_EmptySet
  <2> QED
    BY <2>1, <2>2, HandleInvInitially, PoolAssumption
    DEF PoolInv, PoolShared, HandleInv, DumpInit, Init, Stages
<1>2. PoolInv => PoolShared
  BY DEF PoolInv
<1> QED
  BY HandleInvInitially, HandleInvInductive, PoolInvInductive, <1>1, <1>2, PTL DEF DumpSpec

-----------------------------------------------------------------------------
(* The file of a dump                                                       *)

\* A literal of the file is read as the text it was made from, if the text
\* has no character that is written as MySQL does not read it (mapper.go).
LEMMA TextLoads ==
  ASSUME NEW type, type \notin Moments, NEW v, IsText(v), v # Null, ~Unescaped(type, v)
  PROVE  Loaded(Literal(type, Scanned(type, v))) = v
<1>1. Scanned(type, v) = <<"text", v>>
  BY DEF Scanned
<1>2. Literal(type, <<"text", v>>) \in {<<"bare", v>>, <<"quoted", v>>}
        \/ (type = "SET" /\ Literal(type, <<"text", v>>) = <<"apostrophes", v>>)
  BY DEF Literal, Moments, numToString, jsonToString, setToString, byteToString
<1>3. Loaded(<<"bare", v>>) = v
  BY DEF Loaded
<1>4. ASSUME type # "SET" PROVE Loaded(<<"quoted", v>>) = v
  <2>1. \A k \in DOMAIN v : v[k] \notin Unprintable
    BY <1>4 DEF Unescaped
  <2>2. [i \in DOMAIN v |-> IF v[i] \in Unprintable THEN "x" ELSE v[i]] = v
    BY <2>1 DEF IsText
  <2> QED
    BY <2>2 DEF Loaded
<1>5. ASSUME type = "SET" PROVE Loaded(<<"apostrophes", v>>) = v
  <2>1. Verbatim(v)
    BY <1>5 DEF Unescaped, Verbatim
  <2> QED
    BY <2>1 DEF Loaded
<1>6. type = "SET" => Literal(type, <<"text", v>>) = <<"apostrophes", v>>
  BY DEF Literal, Numbers, setToString
<1> QED
  BY <1>1, <1>2, <1>3, <1>4, <1>5, <1>6

\* The hours of a moment make it again, and hours before its end the day.
LEMMA HoursOfDays ==
  ASSUME NEW day \in Nat, NEW hour \in 0..23
  PROVE  (24 * day + hour) \div 24 = day /\ (24 * day + hour) % 24 = hour
OBVIOUS

\* A moment that the driver parses in UTC is written as it was.
LEMMA MomentLoads ==
  ASSUME conn \in Connections, NEW type \in {"TIMESTAMP", "DATETIME"}, NEW v, Moment(v),
         v # ZeroDate, ~Shifted(type)
  PROVE  Loaded(Literal(type, Scanned(type, v))) = v
<1>1. conn.parseTime /\ conn.loc = 0 /\ type \in Moments
  BY ConnectionsAssumption DEF Shifted, Moments
<1>2. PICK day \in Nat, hour \in 0..23 : v = <<day, hour>>
  BY DEF Moment
<1>3. Scanned(type, v) = <<"RFC3339", v, 0>>
  BY <1>1 DEF Scanned
<1>4. 24 * day + hour - 0 = 24 * day + hour
  OBVIOUS
<1>5. UTC(v, 0) = v
  BY <1>2, <1>4, HoursOfDays DEF UTC
<1>6. Literal(type, <<"RFC3339", v, 0>>) = <<"stamp", v>>
  BY <1>5 DEF Literal, Numbers, tsToString, Parsed
<1>7. Loaded(<<"stamp", v>>) = v
  BY DEF Loaded
<1> QED
  BY <1>3, <1>6, <1>7

\* The day of a DATE that the driver parses in UTC or west of it is the same
\* in UTC.
LEMMA DateLoads ==
  ASSUME conn \in Connections, NEW v, Date(v), v # ZeroDate, ~Shifted("DATE")
  PROVE  Loaded(Literal("DATE", Scanned("DATE", v))) = v
<1>1. conn.parseTime /\ conn.loc \in -12..0 /\ "DATE" \in Moments
  BY ConnectionsAssumption DEF Shifted, Moments
<1>2. PICK day \in Nat : v = <<day, 0>>
  BY DEF Date
<1> DEFINE west == 0 - conn.loc
<1>3. west \in 0..23
  BY <1>1
<1>4. Scanned("DATE", v) = <<"RFC3339", v, conn.loc>>
  BY <1>1 DEF Scanned
<1>5. 24 * day + 0 - conn.loc = 24 * day + west
  BY <1>1
<1> HIDE DEF west
<1>6. UTC(v, conn.loc)[1] = day
  BY <1>2, <1>3, <1>5, HoursOfDays DEF UTC
<1>7. Literal("DATE", <<"RFC3339", v, conn.loc>>) = <<"day", v>>
  BY <1>2, <1>6 DEF Literal, Numbers, dateToString, Parsed
<1>8. Loaded(<<"day", v>>) = v
  BY DEF Loaded
<1> QED
  BY <1>4, <1>7, <1>8

\* NULL is read as NULL.
LEMMA NullLoads ==
  Loaded(<<"bare", Null>>) = Null
BY DEF Loaded

\* The variables of the dumps.
DumpTypes ==
    /\ conn \in Connections /\ table \in 1..2
    /\ stage \in [Dumpers -> Stages]
    /\ excused \in [Dumpers -> BOOLEAN]
    /\ DOMAIN columns = Dumpers /\ DOMAIN cols = Dumpers /\ DOMAIN file = Dumpers

\* What the catalogue said is what the query gives, unless there is an excuse.
Matches(d) ==
    ~excused[d] =>
        /\ stage[d] = "query" => columns[d] = Tables[table]
        /\ stage[d] \in {"version", "rows"}
             => columns[d] = cols[d] /\ \E t \in 1..2 : cols[d] = Tables[t]

\* The file has a line for each row that was read.
Lines(d) == {Line(d, r) : r \in 1..Len(Stored)}
Filed(d) ==
    /\ stage[d] # "rows" => file[d] = <<>>
    /\ stage[d] = "rows" =>
         /\ file[d] \in Seq(Lines(d)) /\ Len(file[d]) <= Len(Stored)
         /\ \A r \in 1..Len(file[d]) : file[d][r] = Line(d, r)

FileInv == DumpTypes /\ \A d \in Dumpers : Matches(d) /\ Filed(d)

DumpStep(d) == BackupTo(d) \/ Connected(d) \/ Writes(d) \/ GiveUp(d)

\* The steps of a dump keep the types, and leave the others alone.
LEMMA DumpMoves ==
  ASSUME DumpTypes, NEW d \in Dumpers, DumpStep(d)
  PROVE  /\ DumpTypes' /\ table' = table /\ conn' = conn
         /\ \A e \in Dumpers \ {d} :
               /\ stage'[e] = stage[e] /\ excused'[e] = excused[e]
               /\ columns'[e] = columns[e] /\ cols'[e] = cols[e] /\ file'[e] = file[e]
<1> DEFINE Sets(s, b, x, y, z) ==
             /\ stage' = [stage EXCEPT ![d] = s] /\ excused' = [excused EXCEPT ![d] = b]
             /\ columns' = columns \/ columns' = [columns EXCEPT ![d] = x]
             /\ cols' = cols \/ cols' = [cols EXCEPT ![d] = y]
             /\ file' = file \/ file' = [file EXCEPT ![d] = z]
             /\ table' = table
<1>0. stage = [stage EXCEPT ![d] = stage[d]] /\ excused = [excused EXCEPT ![d] = excused[d]]
  BY DEF DumpTypes
<1>1. \E s \in Stages, b \in BOOLEAN : \E x, y, z : Sets(s, b, x, y, z)
  <2> USE DEF Goes, Ends, Stages
  <2>1. stage[d] \in Stages /\ excused[d] \in BOOLEAN
    BY DEF DumpTypes
  <2>2. ASSUME NEW how \in {"done", "failed", "panicked"}, Ends(d, how), table' = table
        PROVE  \E s \in Stages, b \in BOOLEAN : \E x, y, z : Sets(s, b, x, y, z)
    BY <2>2
  <2>3. CASE BackupTo(d)
    BY <1>0, <2>1, <2>3 DEF BackupTo
  <2>4. CASE GetColumns(d) /\ ~Ends(d, "failed")
    <3>1. PICK n \in {Len(Tables[table]) - 1, Len(Tables[table])} :
             /\ columns' = [columns EXCEPT ![d] = SubSeq(Tables[table], 1, n)]
             /\ excused' = [excused EXCEPT ![d] = n < Len(Tables[table])]
      BY <2>4 DEF GetColumns
    <3>2. /\ stage' = [stage EXCEPT ![d] = "query"]
          /\ cols' = cols /\ file' = file /\ table' = table
      BY <2>4 DEF GetColumns
    <3>3. (n < Len(Tables[table])) \in BOOLEAN
      OBVIOUS
    <3> QED
      BY <3>1, <3>2, <3>3
  <2>5. CASE Query(d) /\ ~Ends(d, "failed")
    BY <1>0, <2>1, <2>5 DEF Query
  <2>6. CASE GetVersion(d) /\ ~Ends(d, "failed")
    BY <1>0, <2>1, <2>6 DEF GetVersion
  <2>7. CASE Row(d) /\ ~Ends(d, "failed") /\ ~Ends(d, "panicked")
    BY <1>0, <2>1, <2>7 DEF Row
  <2>8. table' = table
    BY DEF DumpStep, BackupTo, Connected, GetColumns, Query, GetVersion, Writes, Row, End, GiveUp
  <2> HIDE DEF Ends
  <2>9. CASE \E how \in {"done", "failed", "panicked"} : Ends(d, how)
    BY <2>2, <2>8, <2>9
  <2> QED
    BY <2>3, <2>4, <2>5, <2>6, <2>7, <2>9 DEF DumpStep, Connected, Writes, End, GiveUp
<1>a. PICK s \in Stages, b \in BOOLEAN : \E x, y, z : Sets(s, b, x, y, z)
  BY <1>1
<1>2. PICK x, y, z : Sets(s, b, x, y, z)
  BY <1>a
<1>3. stage' \in [Dumpers -> Stages] /\ excused' \in [Dumpers -> BOOLEAN]
  BY <1>2 DEF DumpTypes
<1>4. DOMAIN columns' = Dumpers /\ DOMAIN cols' = Dumpers /\ DOMAIN file' = Dumpers
  BY <1>2 DEF DumpTypes
<1>5. ASSUME NEW e \in Dumpers, e # d
      PROVE  /\ stage'[e] = stage[e] /\ excused'[e] = excused[e]
             /\ columns'[e] = columns[e] /\ cols'[e] = cols[e] /\ file'[e] = file[e]
  BY <1>2, <1>5 DEF DumpTypes
<1>6. conn' = conn
  BY DEF DumpStep, BackupTo, Connected, GetColumns, Query, GetVersion, Writes, Row, End, GiveUp, Lent
<1> QED
  BY <1>2, <1>3, <1>4, <1>5, <1>6 DEF DumpTypes

\* A call that ended has nothing left.
LEMMA EndsSound ==
  ASSUME DumpTypes, NEW d \in Dumpers, NEW how \in {"done", "failed", "panicked"}, Ends(d, how)
  PROVE  Matches(d)' /\ Filed(d)'
BY DEF DumpTypes, Ends, Goes, Matches, Filed

\* The whole list of the catalogue is the list of the table.
LEMMA WholeList ==
  ASSUME NEW t \in 1..2
  PROVE  SubSeq(Tables[t], 1, Len(Tables[t])) = Tables[t] /\ Len(Tables[t]) \in Nat
<1>1. Tables[t] \in Seq({Tables[t][i] : i \in DOMAIN Tables[t]})
  BY TablesAssumption
<1> QED
  BY <1>1

\* Each step of a dump keeps Matches.
LEMMA MatchesStep ==
  ASSUME DumpTypes, NEW d \in Dumpers, Matches(d), DumpStep(d)
  PROVE  Matches(d)'
<1> USE DEF DumpTypes, Goes, Matches
<1>0. DumpTypes' /\ table' = table
  BY DumpMoves
<1>1. ASSUME NEW how \in {"done", "failed", "panicked"}, Ends(d, how)
      PROVE  Matches(d)'
  BY <1>1, EndsSound
<1>2. CASE BackupTo(d)
  BY <1>2 DEF BackupTo
<1>3. CASE GetColumns(d) /\ ~Ends(d, "failed")
  <2>1. PICK n \in {Len(Tables[table]) - 1, Len(Tables[table])} :
           /\ columns' = [columns EXCEPT ![d] = SubSeq(Tables[table], 1, n)]
           /\ excused' = [excused EXCEPT ![d] = n < Len(Tables[table])]
    BY <1>3 DEF GetColumns
  <2>2. /\ columns'[d] = SubSeq(Tables[table], 1, n)
        /\ excused'[d] <=> (n < Len(Tables[table]))
    BY <2>1
  <2>4. stage'[d] = "query"
    BY <1>3 DEF GetColumns
  <2>3. ASSUME ~excused'[d] PROVE columns'[d] = Tables[table]
    <3>0. SubSeq(Tables[table], 1, Len(Tables[table])) = Tables[table]
      BY WholeList
    <3>1. Len(Tables[table]) \in Nat /\ ~(n < Len(Tables[table]))
      BY <2>2, <2>3, WholeList
    <3>2. n = Len(Tables[table])
      BY <2>1, <3>1
    <3> QED
      BY <2>2, <3>0, <3>2
  <2> QED
    BY <1>0, <2>3, <2>4
<1>4. CASE Query(d) /\ ~Ends(d, "failed")
  <2>1. PICK some \in BOOLEAN :
           /\ cols' = [cols EXCEPT ![d] = IF some THEN Tail(Tables[table]) ELSE Tables[table]]
           /\ excused' = [excused EXCEPT ![d] = @ \/ some]
    BY <1>4 DEF Query
  <2>2. stage[d] = "query" /\ stage'[d] = "version" /\ columns' = columns
    BY <1>4 DEF Query
  <2>3. ASSUME ~excused'[d]
        PROVE  cols'[d] = Tables[table] /\ columns'[d] = Tables[table]
    BY <2>1, <2>2, <2>3
  <2> QED
    BY <2>2, <2>3
<1>5. CASE GetVersion(d) /\ ~Ends(d, "failed")
  BY <1>5 DEF GetVersion
<1>6. CASE Row(d) /\ ~Ends(d, "failed") /\ ~Ends(d, "panicked")
  BY <1>6 DEF Row
<1>7. CASE End(d) \/ GiveUp(d)
  BY <1>1, <1>7 DEF End, GiveUp
<1> QED
  BY <1>1, <1>2, <1>3, <1>4, <1>5, <1>6, <1>7 DEF DumpStep, Connected, Writes

\* A line is made of what the dump keeps while it writes.
LEMMA LineKept ==
  ASSUME NEW d \in Dumpers, conn' = conn, columns'[d] = columns[d], cols'[d] = cols[d], NEW r
  PROVE  Line(d, r)' = Line(d, r)
<1>1. \A type, v : Scanned(type, v)' = Scanned(type, v)
  BY DEF Scanned
<1> QED
  BY <1>1 DEF Line

\* So a file stays what it is while the dump does nothing.
LEMMA FiledKept ==
  ASSUME NEW d \in Dumpers, Filed(d), conn' = conn, stage'[d] = stage[d], file'[d] = file[d],
         columns'[d] = columns[d], cols'[d] = cols[d]
  PROVE  Filed(d)'
<1>1. \A r : Line(d, r)' = Line(d, r)
  BY LineKept
<1>2. Lines(d)' = Lines(d)
  BY <1>1 DEF Lines
<1> QED
  BY <1>1, <1>2 DEF Filed

\* Each step of a dump keeps Filed: Row appends the line of the next row.
LEMMA FiledStep ==
  ASSUME DumpTypes, NEW d \in Dumpers, Filed(d), DumpStep(d)
  PROVE  Filed(d)'
<1> USE DEF DumpTypes, Goes
<1>1. ASSUME NEW how \in {"done", "failed", "panicked"}, Ends(d, how)
      PROVE  Filed(d)'
  BY <1>1, EndsSound
<1>2. CASE BackupTo(d)
  BY <1>2 DEF BackupTo, Filed
<1>3. CASE GetColumns(d) /\ ~Ends(d, "failed")
  BY <1>3 DEF GetColumns, Filed
<1>4. CASE Query(d) /\ ~Ends(d, "failed")
  BY <1>4 DEF Query, Filed
<1>5. CASE GetVersion(d) /\ ~Ends(d, "failed")
  <2>1. stage'[d] = "rows" /\ file'[d] = <<>>
    BY <1>5 DEF GetVersion, Filed
  <2>2. Len(Stored) \in Nat
    BY TablesAssumption
  <2> QED
    BY <2>1, <2>2 DEF Filed
<1>6. CASE Row(d) /\ ~Ends(d, "failed") /\ ~Ends(d, "panicked")
  <2> DEFINE n == Len(file[d])
             new == Line(d, n + 1)
  <2>1. /\ stage[d] = "rows" /\ stage' = stage /\ n < Len(Stored)
        /\ conn' = conn /\ columns' = columns /\ cols' = cols
        /\ file' = [file EXCEPT ![d] = Append(@, Line(d, Len(@) + 1))]
    BY <1>6 DEF Row, Lent
  <2>2. file[d] \in Seq(Lines(d)) /\ n \in Nat /\ Len(Stored) \in Nat
        /\ \A r \in 1..n : file[d][r] = Line(d, r)
    BY <2>1, TablesAssumption DEF Filed
  <2>3. n + 1 \in 1..Len(Stored) /\ new \in Lines(d)
    BY <2>1, <2>2 DEF Lines
  <2>4. file'[d] = Append(file[d], new)
    BY <2>1
  <2>5. \A r \in 1..Len(Stored) : Line(d, r)' = Line(d, r)
    BY <2>1, LineKept
  <2>6. Lines(d)' = Lines(d)
    BY <2>5 DEF Lines
  <2> HIDE DEF new
  <2>7. file'[d] \in Seq(Lines(d)) /\ Len(file'[d]) = n + 1
    BY <2>2, <2>3, <2>4
  <2>8. \A r \in 1..(n + 1) : file'[d][r] = IF r = n + 1 THEN new ELSE file[d][r]
    BY <2>2, <2>3, <2>4
  <2>9. \A r \in 1..(n + 1) : file'[d][r] = Line(d, r)
    BY <2>2, <2>8 DEF new
  <2> QED
    BY <2>1, <2>2, <2>3, <2>5, <2>6, <2>7, <2>9 DEF Filed
<1>7. CASE End(d) \/ GiveUp(d)
  BY <1>1, <1>7 DEF End, GiveUp
<1> QED
  BY <1>1, <1>2, <1>3, <1>4, <1>5, <1>6, <1>7 DEF DumpStep, Connected, Writes

\* FileInv is an inductive invariant.
LEMMA FileInvInductive ==
  ASSUME FileInv, [DumpNext]_allVars
  PROVE  FileInv'
<1> USE DEF FileInv
<1>1. CASE UNCHANGED dumpVars
  <2>1. UNCHANGED <<conn, table, stage, columns, cols, file, excused>>
    BY <1>1 DEF dumpVars
  <2>2. DumpTypes' /\ \A d \in Dumpers : Matches(d)'
    BY <2>1 DEF DumpTypes, Matches
  <2>3. \A d \in Dumpers : Filed(d)'
    BY <2>1, FiledKept
  <2> QED
    BY <2>2, <2>3
<1>2. CASE Alter
  <2>1. DumpTypes' /\ table' = 2 /\ UNCHANGED <<conn, stage, columns, cols, file>>
    BY <1>2 DEF Alter, Lent, DumpTypes
  <2>2. ASSUME NEW d \in Dumpers PROVE Matches(d)'
    <3>1. excused'[d] = (excused[d] \/ stage[d] = "query")
      BY <1>2 DEF Alter
    <3> QED
      BY <2>1, <3>1 DEF Matches, DumpTypes
  <2>3. ASSUME NEW d \in Dumpers PROVE Filed(d)'
    BY <2>1, FiledKept
  <2> QED
    BY <2>1, <2>2, <2>3
<1>3. ASSUME NEW d \in Dumpers, DumpStep(d) PROVE FileInv'
  <2>1. /\ DumpTypes' /\ table' = table /\ conn' = conn
        /\ \A e \in Dumpers \ {d} :
              /\ stage'[e] = stage[e] /\ excused'[e] = excused[e]
              /\ columns'[e] = columns[e] /\ cols'[e] = cols[e] /\ file'[e] = file[e]
    BY <1>3, DumpMoves
  <2>2. Matches(d)' /\ Filed(d)'
    BY <1>3, MatchesStep, FiledStep
  <2>3. ASSUME NEW e \in Dumpers, e # d PROVE Matches(e)'
    BY <2>1, <2>3 DEF Matches
  <2>4. ASSUME NEW e \in Dumpers, e # d PROVE Filed(e)'
    BY <2>1, <2>4, FiledKept
  <2> QED
    BY <2>1, <2>2, <2>3, <2>4
<1> QED
  BY <1>1, <1>2, <1>3 DEF DumpNext, DumpStep, allVars

\* It holds at the start.
LEMMA FileInvInitially == DumpInit => FileInv
BY DEF DumpInit, FileInv, DumpTypes, Matches, Filed, Stages

\* A file with a line for every row gives the rows back.
LEMMA FileRestores ==
  ASSUME FileInv, NEW d \in Dumpers, stage[d] = "rows", ~excused[d], Len(file[d]) >= Len(Stored)
  PROVE  Restores(d)
<1> SUFFICES ASSUME NEW r \in DOMAIN Stored, NEW i \in DOMAIN cols[d]
             PROVE  LET v == Stored[r][cols[d][i].name]
                        type == cols[d][i].type
                    IN  \/ Loaded(file[d][r][i]) = v
                        \/ IF type \in Moments THEN Shifted(type) \/ v = ZeroDate
                                               ELSE Unescaped(type, v)
  BY DEF Restores
<1> DEFINE v == Stored[r][cols[d][i].name]
           type == cols[d][i].type
<1>1. PICK t \in 1..2 : columns[d] = Tables[t] /\ cols[d] = Tables[t]
  BY DEF FileInv, Matches
<1>2. r \in 1..Len(Stored) /\ Len(Stored) \in Nat
  BY TablesAssumption
<1>3. file[d][r] = Line(d, r)
  BY <1>2 DEF FileInv, Filed
<1>4. file[d][r][i] = IF v = Null THEN <<"bare", Null>> ELSE Literal(type, Scanned(type, v))
  BY <1>1, <1>3 DEF Line
<1>5. IsText(v)
  BY <1>1, TablesAssumption
<1>6. /\ type \in {"TIMESTAMP", "DATETIME"} => v = Null \/ Moment(v)
      /\ type = "DATE" => v = Null \/ Date(v)
  BY <1>1, MomentsAssumption
<1>7. conn \in Connections
  BY DEF FileInv, DumpTypes
<1> SUFFICES ASSUME ~IF type \in Moments THEN Shifted(type) \/ v = ZeroDate
                                         ELSE Unescaped(type, v)
             PROVE  Loaded(file[d][r][i]) = v
  OBVIOUS
<1> HIDE DEF v, type
<1>8. CASE v = Null
  BY <1>4, <1>8, NullLoads
<1>9. CASE v # Null /\ type \notin Moments
  BY <1>4, <1>5, <1>9, TextLoads
<1>10. CASE v # Null /\ type \in {"TIMESTAMP", "DATETIME"}
  BY <1>4, <1>6, <1>7, <1>10, MomentLoads DEF Moments
<1>11. CASE v # Null /\ type = "DATE"
  BY <1>4, <1>6, <1>7, <1>11, DateLoads DEF Moments
<1> QED
  BY <1>8, <1>9, <1>10, <1>11 DEF Moments

\* A dump that ends (sql/dump/dump.go), of whatever table and over whatever
\* connection, has written a file that gives the rows back, and none panics:
\* with the exceptions that DumpRestores names for texts that mapper.go does
\* not escape and moments that it takes for others.
THEOREM FileRestored == DumpSpec => DumpRestores
<1>1. ASSUME FileInv, DumpNext, NEW d \in Dumpers, stage[d] = "rows", ~excused[d]
      PROVE  /\ stage'[d] # "panicked"
             /\ stage'[d] = "done" => Len(file[d]) < Len(Stored) \/ Restores(d)
  <2>1. stage'[d] # "panicked"
    <3>1. columns[d] = cols[d] /\ \E t \in 1..2 : cols[d] = Tables[t]
      BY <1>1 DEF FileInv, Matches
    <3>2. Len(columns[d]) <= Len(cols[d])
      BY <3>1, WholeList
    <3>3. CASE DumpStep(d)
      BY <1>1, <3>2, <3>3 DEF DumpStep, BackupTo, Connected, GetColumns, Query, GetVersion, Writes,
                               Row, End, GiveUp, Ends, Goes, FileInv, DumpTypes
    <3>4. ASSUME NEW e \in Dumpers, e # d, DumpStep(e) PROVE stage'[d] = stage[d]
      BY <1>1, <3>4, DumpMoves DEF FileInv
    <3>5. CASE UNCHANGED dumpVars \/ Alter
      BY <1>1, <3>5 DEF dumpVars, Alter
    <3> QED
      BY <1>1, <3>3, <3>4, <3>5 DEF DumpNext, DumpStep
  <2>2. ASSUME ~(Len(file[d]) < Len(Stored)) PROVE Restores(d)
    <3>1. Len(file[d]) \in Nat /\ Len(Stored) \in Nat
      BY <1>1, TablesAssumption DEF FileInv, Filed
    <3> QED
      BY <1>1, <2>2, <3>1, FileRestores
  <2> QED
    BY <2>1, <2>2
<1>2. FileInv /\ [DumpNext]_allVars
        => [\A d \in Dumpers :
              stage[d] = "rows" /\ ~excused[d]
                => /\ stage'[d] # "panicked"
                   /\ stage'[d] = "done" => Len(file[d]) < Len(Stored) \/ Restores(d)]_allVars
  BY <1>1
<1> QED
  BY FileInvInitially, FileInvInductive, <1>2, PTL DEF DumpSpec, DumpRestores

-----------------------------------------------------------------------------
(* Types                                                                    *)

\* The rows that a result has read are among those that match; none is read
\* before Find or FindOne returns.
Counts ==
    /\ total \in [Handles -> 0..MaxRows] /\ pos \in [Handles -> 0..MaxRows]
    /\ broken \in [Handles -> BOOLEAN]
    /\ \A h \in Handles :
          /\ pos[h] <= total[h]
          /\ kind[h] \in {"none", "waiting Find", "waiting FindOne"} => pos[h] = 0

\* What the step of a result does to these numbers.
Advanced(h) ==
    /\ \E n \in 0..MaxRows : total' = [total EXCEPT ![h] = n]
    /\ \E n \in 0..MaxRows : pos' = [pos EXCEPT ![h] = n]
    /\ \E b \in BOOLEAN : broken' = [broken EXCEPT ![h] = b]
    /\ pos'[h] <= total'[h]
    /\ kind'[h] \in {"none", "waiting Find", "waiting FindOne"} => pos'[h] = 0

\* What a step of a result reads is there.
LEMMA CountsStep ==
  ASSUME HandleTypes, Counts, NEW h \in Handles, StepOf(h)
  PROVE  Advanced(h)
<1> USE DEF HandleTypes, Counts, Advanced, Called
<1>a. /\ total = [total EXCEPT ![h] = total[h]] /\ total[h] \in 0..MaxRows
      /\ pos = [pos EXCEPT ![h] = pos[h]] /\ pos[h] \in 0..MaxRows
      /\ broken = [broken EXCEPT ![h] = broken[h]] /\ broken[h] \in BOOLEAN
      /\ pos[h] <= total[h]
  OBVIOUS
<1>b. MaxRows \in Nat /\ 0 \in 0..MaxRows /\ 1 \in 0..MaxRows /\ 0..1 \subseteq 0..MaxRows
  <2> HIDE DEF Counts, HandleTypes, Advanced
  <2> QED
    BY RowsAssumption
<1>c. /\ pos[h] \in Nat /\ total[h] \in Nat /\ MaxRows \in Nat
      /\ pos[h] <= MaxRows /\ total[h] <= MaxRows
  <2> HIDE DEF Counts, HandleTypes, Advanced
  <2> QED
    BY <1>a, <1>b
<1>1. /\ total = [total EXCEPT ![h] = total[h]] /\ total[h] \in 0..MaxRows
      /\ pos = [pos EXCEPT ![h] = pos[h]] /\ pos[h] \in 0..MaxRows
      /\ broken = [broken EXCEPT ![h] = broken[h]] /\ broken[h] \in BOOLEAN
      /\ pos[h] <= total[h] /\ 0 \in 0..MaxRows /\ 1 \in 0..MaxRows
  BY <1>a, <1>b
<1>2. CASE Ask(h)
  BY <1>1, <1>2 DEF Ask
<1>3. CASE FindReturns(h)
  <2>1. CASE total' = total
    BY <1>1, <1>3, <2>1 DEF FindReturns
  <2>2. CASE \E n \in 0..MaxRows : total' = [total EXCEPT ![h] = n]
    <3>1. kind' = [kind EXCEPT ![h] = "Find"] \/ kind' = [kind EXCEPT ![h] = "failed"]
      BY <1>3 DEF FindReturns
    <3>2. pos' = pos /\ broken' = broken /\ pos[h] = 0
      BY <1>3 DEF FindReturns
    <3>3. PICK n \in 0..MaxRows : total' = [total EXCEPT ![h] = n]
      BY <2>2
    <3>4. 0 <= n
      <4> HIDE DEF Counts, HandleTypes, Advanced
      <4> QED
        BY <1>b
    <3> QED
      BY <1>1, <3>1, <3>2, <3>3, <3>4
  <2> QED
    BY <1>3, <2>1, <2>2 DEF FindReturns
<1>4. CASE FindOneReturns(h)
  <2>1. kind'[h] = "FindOne" /\ broken' = broken
    BY <1>4 DEF FindOneReturns
  <2>2. CASE UNCHANGED <<total, pos>>
    BY <1>1, <2>1, <2>2
  <2>3. CASE \E n \in 0..1 : \E arrives \in 0..n :
                total' = [total EXCEPT ![h] = n] /\ pos' = [pos EXCEPT ![h] = arrives]
    <3>0. PICK n \in 0..1 : \E arrives \in 0..n :
             total' = [total EXCEPT ![h] = n] /\ pos' = [pos EXCEPT ![h] = arrives]
      BY <2>3
    <3>1. PICK arrives \in 0..n :
             total' = [total EXCEPT ![h] = n] /\ pos' = [pos EXCEPT ![h] = arrives]
      BY <3>0
    <3>2. n \in 0..MaxRows /\ arrives \in 0..MaxRows /\ arrives <= n
      <4> HIDE DEF Counts, HandleTypes, Advanced
      <4> QED
        BY <1>b
    <3> QED
      BY <1>1, <2>1, <3>1, <3>2
  <2> QED
    BY <1>4, <2>2, <2>3 DEF FindOneReturns
<1>5. CASE Break(h)
  <2>1. UNCHANGED <<kind, total, pos>> /\ broken' = [broken EXCEPT ![h] = TRUE]
    BY <1>5 DEF Break
  <2> QED
    BY <1>1, <2>1
<1>6. CASE Next_(h)
  <2>1. UNCHANGED <<kind, total, broken>> /\ kind[h] = "Find"
    BY <1>6 DEF Next_
  <2>2. pos' = pos \/ (pos[h] < total[h] /\ pos' = [pos EXCEPT ![h] = pos[h] + 1])
    BY <1>6 DEF Next_
  <2>3. pos[h] < total[h] => pos[h] + 1 \in 0..MaxRows /\ pos[h] + 1 <= total[h]
    <3> HIDE DEF Counts, HandleTypes, Advanced
    <3> QED
      BY <1>c
  <2> QED
    BY <1>1, <2>1, <2>2, <2>3
<1>7. CASE ReadAll(h)
  <2>1. UNCHANGED <<kind, total, broken>> /\ kind[h] = "Find"
    BY <1>7 DEF ReadAll
  <2>2. PICK last \in pos[h]..total[h] : pos' = [pos EXCEPT ![h] = last]
    BY <1>7 DEF ReadAll
  <2>3. last \in 0..MaxRows /\ last <= total[h]
    <3> HIDE DEF Counts, HandleTypes, Advanced
    <3> QED
      BY <1>c
  <2> QED
    BY <1>1, <2>1, <2>2, <2>3
<1>8. CASE Decode(h) \/ Scan(h) \/ Error(h) \/ Close(h)
  <2>1. UNCHANGED <<kind, total, pos, broken>>
    BY <1>8 DEF Decode, Scan, Error, Close
  <2> QED
    BY <1>1, <2>1
<1> QED
  BY <1>2, <1>3, <1>4, <1>5, <1>6, <1>7, <1>8 DEF StepOf, Served, Use

\* Counts is kept.
LEMMA CountsInductive ==
  ASSUME HandleInv, Counts, [DumpNext]_allVars
  PROVE  Counts'
<1>1. CASE Next /\ UNCHANGED dumpVars
  <2>1. PICK h \in Handles : StepOf(h)
    BY <1>1 DEF Next, StepOf
  <2>2. Advanced(h) /\ Moved(h)
    BY <2>1, CountsStep, Moves DEF HandleInv
  <2>3. /\ total' \in [Handles -> 0..MaxRows] /\ pos' \in [Handles -> 0..MaxRows]
        /\ broken' \in [Handles -> BOOLEAN]
    BY <2>2 DEF Advanced, Counts
  <2>4. ASSUME NEW t \in Handles, t # h
        PROVE  total'[t] = total[t] /\ pos'[t] = pos[t] /\ kind'[t] = kind[t]
    BY <2>2, <2>4, OthersStay DEF Advanced, Counts, HandleInv
  <2> QED
    BY <2>2, <2>3, <2>4 DEF Advanced, Counts
<1>2. CASE DumpNext /\ ~(Next /\ UNCHANGED dumpVars)
  BY <1>2, DumpFrame DEF Counts
<1>3. CASE UNCHANGED allVars
  BY <1>3 DEF allVars, vars, Counts
<1> QED
  BY <1>1, <1>2, <1>3

\* The variables of sqlike/result.go keep their types, no result has read more
\* rows than match, and the pool lends no more connections than it has.
THEOREM TypeCorrect == DumpSpec => []TypeOK
<1>1. DumpInit => Counts
  <2>1. 0 \in 0..MaxRows
    BY RowsAssumption
  <2> QED
    BY <2>1 DEF DumpInit, Init, Counts
<1>2. HandleInv /\ Counts /\ PoolShared => TypeOK
  <2> SUFFICES ASSUME HandleInv, Counts, PoolShared PROVE TypeOK
    OBVIOUS
  <2>1. lent \in Nat
    BY Counted, DumpersAssumption DEF PoolShared, Lending
  <2> QED
    BY <2>1 DEF HandleInv, HandleTypes, RowStates, Errors, Counts, PoolShared, TypeOK
<1> QED
  BY <1>1, <1>2, HandleInvInitially, HandleInvInductive, CountsInductive, PoolConserved,
     PTL DEF DumpSpec
=============================================================================
