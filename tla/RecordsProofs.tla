--------------------------- MODULE RecordsProofs ---------------------------
(* Theorems about Records: whatever the clients, the keys and the calls, a  *)
(* transaction that locks what it reads is as good as one atomic step, and  *)
(* so is every single statement: Records implements SerialRecords.          *)

EXTENDS Records, TLAPS

Places == {"start", "find", "modify", "commit", "rollback", "end"}

Txn(c) == job[c].op = "Transaction"

\* What is true of a client whatever its locks: only transactions have more
\* than one step, and one that is about to modify has read a row.
Types ==
    /\ TypeOK
    /\ \A c \in Clients :
          /\ pc[c] \notin {"start", "end"} => Txn(c)
          /\ pc[c] = "modify" => entity[c] \in Rows
          /\ pc[c] = "start" => at[c] = 1

StepOf(c) == Step(c) \/ DeadlockVictim(c) \/ ConnectionBreaks(c) \/ Retry(c)

-----------------------------------------------------------------------------

\* The keys of a job are keys, and a transaction is always at one of them.
LEMMA JobTyped ==
  ASSUME TypeOK, NEW c \in Clients
  PROVE  /\ Wanted(c) \in SUBSET Keys
         /\ DOMAIN job[c].keys = 1..Len(job[c].keys) /\ Len(job[c].keys) \in Nat
         /\ Txn(c) => at[c] \in DOMAIN job[c].keys /\ KeyAt(c) \in Wanted(c) /\ KeyAt(c) \in Keys
<1>1. job \in Jobs /\ job[c].keys \in Seq(Keys)
  BY JobsAssumption DEF TypeOK
<1>2. /\ DOMAIN job[c].keys = 1..Len(job[c].keys) /\ Len(job[c].keys) \in Nat
      /\ \A i \in DOMAIN job[c].keys : job[c].keys[i] \in Keys
  BY <1>1
<1>3. ASSUME Txn(c) PROVE at[c] \in DOMAIN job[c].keys
  <2>1. job[c].keys # <<>>
    BY <1>1, <1>3, JobsAssumption DEF Txn
  <2>2. Len(job[c].keys) > 0
    BY <1>1, <2>1
  <2>3. at[c] \in Nat \ {0} /\ (at[c] <= Len(job[c].keys) \/ at[c] = 1)
    BY DEF TypeOK
  <2> QED
    BY <1>2, <2>2, <2>3
<1> QED
  BY <1>2, <1>3 DEF Wanted, KeyAt

\* A row with one more in n.
Bump(row) == [row EXCEPT !.n = @ + 1]

\* Modified changes the row it is given.
LEMMA BumpTyped ==
  ASSUME NEW row \in Rows
  PROVE  Bump(row) \in Rows /\ Bump(row) # row /\ Bump(row) # Absent
BY ValuesAssumption DEF Bump, Rows

\* What every step does to the client that takes it.
Moved(c) ==
    /\ job' = job
    /\ \E p \in Places : pc' = [pc EXCEPT ![c] = p]
    /\ \/ at' = at
       \/ at' = [at EXCEPT ![c] = 1]
       \/ at' = [at EXCEPT ![c] = @ + 1] /\ at[c] # Len(job[c].keys) /\ Txn(c)
    /\ entity' = entity \/ \E row \in Rows \cup {Absent} : entity' = [entity EXCEPT ![c] = row]
    /\ answer' = answer \/ \E a \in Answers \cup {Nothing} : answer' = [answer EXCEPT ![c] = a]

\* A single statement answers, and leaves the locks as they are.
LEMMA StatementMoves ==
  ASSUME TypeOK, NEW c \in Clients, Statement(c)
  PROVE  /\ pc[c] = "start" /\ ~Txn(c)
         /\ UNCHANGED <<locks, job, at, entity>>
         /\ pc' = [pc EXCEPT ![c] = "end"]
         /\ \E a \in Answers : answer' = [answer EXCEPT ![c] = a]
<1> USE DEF Goto, Answered, Answers, Errors, Refuse, Execute, Txn
<1>0. pc[c] = "start" /\ UNCHANGED <<locks, job, at, entity>> /\ pc' = [pc EXCEPT ![c] = "end"]
  BY DEF Statement
<1>1. CASE UpdateOne(c)
  BY <1>0, <1>1 DEF UpdateOne
<1>2. CASE ModifyAlone(c)
  BY <1>0, <1>2 DEF ModifyAlone
<1>3. CASE DeleteOne(c)
  BY <1>0, <1>3 DEF DeleteOne
<1>4. CASE Insert(c)
  BY <1>0, <1>4 DEF Insert
<1> QED
  BY <1>1, <1>2, <1>3, <1>4 DEF Statement

\* Every step is one of Moved.
LEMMA Moves ==
  ASSUME Types, NEW c \in Clients, StepOf(c)
  PROVE  Moved(c)
<1> USE DEF Moved, Goto, Answered, Places, Answers, Errors, Types
<1>1. CASE Begin(c)
  BY <1>1 DEF Begin
<1>2. CASE FindOne(c)
  <2>1. Visible(c, KeyAt(c)) \in Rows \cup {Absent}
    BY <1>2, JobTyped DEF Visible, FindOne, TypeOK
  <2> QED
    BY <1>2, <2>1 DEF FindOne
<1>3. CASE ModifyOne(c)
  <2>1. Txn(c)
    BY <1>3 DEF ModifyOne
  <2> QED
    BY <1>3, <2>1 DEF ModifyOne
<1>4. CASE Commit(c)
  BY <1>4 DEF Commit
<1>5. CASE Rollback(c)
  BY <1>5 DEF Rollback
<1>6. CASE Statement(c)
  BY <1>6, StatementMoves
<1>7. CASE DeadlockVictim(c)
  BY <1>7 DEF DeadlockVictim
<1>8. CASE ConnectionBreaks(c)
  BY <1>8 DEF ConnectionBreaks
<1>9. CASE Retry(c)
  BY <1>9 DEF Retry
<1> QED
  BY <1>1, <1>2, <1>3, <1>4, <1>5, <1>6, <1>7, <1>8, <1>9 DEF StepOf, Step

\* A step of one client leaves the others where they are.
LEMMA OthersStay ==
  ASSUME Types, NEW c \in Clients, StepOf(c), NEW d \in Clients, d # c
  PROVE  /\ job' = job /\ pc'[d] = pc[d] /\ at'[d] = at[d]
         /\ entity'[d] = entity[d] /\ answer'[d] = answer[d]
<1>1. Moved(c)
  BY Moves
<1>2. job' = job /\ pc'[d] = pc[d]
  BY <1>1 DEF Moved, Types, TypeOK
<1>3. at'[d] = at[d]
  BY <1>1 DEF Moved, Types, TypeOK
<1>4. entity'[d] = entity[d]
  BY <1>1 DEF Moved, Types, TypeOK
<1>5. answer'[d] = answer[d]
  BY <1>1 DEF Moved, Types, TypeOK
<1> QED
  BY <1>2, <1>3, <1>4, <1>5

-----------------------------------------------------------------------------
(* What single statements do to the rows                                   *)

Table == [Keys -> Rows \cup {Absent}]

\* A statement that is executed has the rows it wants for itself and changes
\* no others; they are committed at once.
Executed(c, new) ==
    /\ Free(c) /\ new \in Table
    /\ \A k \in Keys \ Wanted(c) : new[k] = current[k]
    /\ current' = new
    /\ committed' = [k \in Keys |-> IF k \in Wanted(c) THEN new[k] ELSE committed[k]]

\* A statement is refused or executed.
LEMMA StatementExecutes ==
  ASSUME TypeOK, NEW c \in Clients, Statement(c)
  PROVE  UNCHANGED <<current, committed>> \/ \E new : Executed(c, new)
<1> DEFINE note == job[c].note
<1>1. /\ note \in Notes \cup {NoNote}
      /\ job[c].op \in {"ModifyOne", "Insert"} => note \in Notes
      /\ DefaultNote \in Notes
  BY JobsAssumption, ValuesAssumption DEF TypeOK
<1>2. /\ \A k \in There(c) : current[k] \in Rows /\ k \in Wanted(c)
      /\ \A k \in Keys : current[k] \in Rows \cup {Absent}
      /\ Wanted(c) \in SUBSET Keys
  BY JobTyped DEF There, TypeOK
<1>3. CASE UpdateOne(c)
  <2> DEFINE new == [k \in Keys |-> IF k \in There(c) THEN [current[k] EXCEPT !.note = note]
                                    ELSE current[k]]
  <2>1. CASE note = NoNote
    BY <1>3, <2>1 DEF UpdateOne, Refuse
  <2>2. CASE note # NoNote
    <3>1. note \in Notes
      BY <1>1, <2>2
    <3>2. \A k \in There(c) : [current[k] EXCEPT !.note = note] \in Rows
      BY <1>2, <3>1 DEF Rows
    <3>3. new \in Table
      BY <1>2, <3>2 DEF Table
    <3>4. \A k \in Keys \ Wanted(c) : new[k] = current[k]
      BY <1>2
    <3> QED
      BY <1>3, <2>2, <3>3, <3>4 DEF UpdateOne, Execute, Executed
  <2> QED
    BY <2>1, <2>2
<1>4. CASE ModifyAlone(c)
  <2> DEFINE new == [k \in Keys |-> IF k \in There(c) THEN Given(c, current[k]) ELSE current[k]]
  <2>1. note \in Notes
    BY <1>1, <1>4 DEF ModifyAlone
  <2>2. \A k \in There(c) : Given(c, current[k]) \in Rows
    BY <1>2, <2>1 DEF Rows, Given
  <2>3. new \in Table
    BY <1>2, <2>2 DEF Table
  <2>4. \A k \in Keys \ Wanted(c) : new[k] = current[k]
    BY <1>2
  <2> QED
    BY <1>4, <2>3, <2>4 DEF ModifyAlone, Execute, Executed
<1>5. CASE DeleteOne(c)
  <2> DEFINE new == [k \in Keys |-> IF k \in There(c) THEN Absent ELSE current[k]]
  <2>1. CASE Wanted(c) = {}
    BY <1>5, <2>1 DEF DeleteOne, Refuse
  <2>2. CASE Wanted(c) # {}
    <3>1. new \in Table
      BY <1>2 DEF Table
    <3>2. \A k \in Keys \ Wanted(c) : new[k] = current[k]
      BY <1>2
    <3> QED
      BY <1>5, <2>2, <3>1, <3>2 DEF DeleteOne, Execute, Executed
  <2> QED
    BY <2>1, <2>2
<1>6. CASE Insert(c)
  <2> DEFINE new == [k \in Keys |->
                       CASE k \in Wanted(c) \ There(c) -> Inserted(c)
                         [] k \in There(c) /\ job[c].mode = "on duplicate" -> Upserted(c, k)
                         [] OTHER -> current[k]]
  <2>1. note \in Notes
    BY <1>1, <1>6 DEF Insert
  <2>2. Inserted(c) \in Rows
    BY <1>1, <2>1 DEF Inserted, Rows
  <2>3. \A k \in There(c) : Upserted(c, k) \in Rows
    BY <1>2, <2>2 DEF Upserted, Rows
  <2>4. new \in Table
    BY <1>2, <2>2, <2>3 DEF Table
  <2>5. \A k \in Keys \ Wanted(c) : new[k] = current[k]
    BY <1>2
  <2> QED
    BY <1>6, <2>4, <2>5 DEF Insert, Execute, Executed, Refuse
<1> QED
  BY <1>3, <1>4, <1>5, <1>6 DEF Statement

-----------------------------------------------------------------------------
(* What a step does to the rows and the locks                              *)

Open(c, k) == Writers(c, k) = {} /\ Sharers(c, k) = {}

\* The ways in which the rows and the locks change.
Stays == UNCHANGED <<committed, current, locks>>

Writes(c) ==
    /\ UNCHANGED committed
    /\ \E k \in Keys :
          /\ Open(c, k) /\ TakeX(c, k)
          /\ current' = current \/ \E row \in Rows : current' = [current EXCEPT ![k] = row]

Shares(c) ==
    /\ UNCHANGED <<committed, current>>
    /\ \E k \in Keys : Writers(c, k) = {} /\ TakeS(c, k)

Sweeps(c) == UNCHANGED locks /\ \E new : Executed(c, new)

RowsMove(c) == Stays \/ Writes(c) \/ Shares(c) \/ Undo(c) \/ Keep(c) \/ Sweeps(c)

\* Every step changes the rows and the locks in one of these ways.
LEMMA RowsMoves ==
  ASSUME Types, NEW c \in Clients, StepOf(c)
  PROVE  RowsMove(c)
<1> USE DEF RowsMove
<1>1. CASE Begin(c)
  BY <1>1 DEF Begin, Stays
<1>2. CASE FindOne(c)
  <2>1. KeyAt(c) \in Keys
    BY <1>2, JobTyped DEF FindOne, Types
  <2>2. CASE UNCHANGED locks
    BY <1>2, <2>2 DEF FindOne, Stays
  <2>3. CASE LockOf(job[c].lock) = "X" /\ TakeX(c, KeyAt(c))
    <3>1. Open(c, KeyAt(c))
      BY <1>2, <2>3 DEF FindOne, FindBlockers, Open
    <3> QED
      BY <1>2, <2>1, <2>3, <3>1 DEF FindOne, Writes
  <2>4. CASE LockOf(job[c].lock) = "S" /\ TakeS(c, KeyAt(c))
    <3>1. Writers(c, KeyAt(c)) = {}
      BY <1>2, <2>4 DEF FindOne, FindBlockers
    <3> QED
      BY <1>2, <2>1, <2>4, <3>1 DEF FindOne, Shares
  <2> QED
    BY <1>2, <2>2, <2>3, <2>4 DEF FindOne
<1>3. CASE ModifyOne(c)
  <2>1. KeyAt(c) \in Keys /\ Modified(c) \in Rows
    BY <1>3, JobTyped, BumpTyped DEF ModifyOne, Types, Modified, Bump
  <2>2. Open(c, KeyAt(c)) /\ UNCHANGED committed
    BY <1>3 DEF ModifyOne, ModifyBlockers, Open
  <2>3. CASE UNCHANGED <<current, locks>>
    BY <2>2, <2>3 DEF Stays
  <2>4. CASE current' = [current EXCEPT ![KeyAt(c)] = Modified(c)] /\ TakeX(c, KeyAt(c))
    BY <2>1, <2>2, <2>4 DEF Writes
  <2> QED
    BY <1>3, <2>3, <2>4 DEF ModifyOne
<1>4. CASE Commit(c)
  BY <1>4 DEF Commit
<1>5. CASE Rollback(c)
  BY <1>5 DEF Rollback
<1>6. CASE Statement(c)
  BY <1>6, StatementMoves, StatementExecutes DEF Stays, Sweeps, Types
<1>7. CASE DeadlockVictim(c)
  BY <1>7 DEF DeadlockVictim
<1>8. CASE ConnectionBreaks(c)
  BY <1>8 DEF ConnectionBreaks
<1>9. CASE Retry(c)
  BY <1>9 DEF Retry, Stays
<1> QED
  BY <1>1, <1>2, <1>3, <1>4, <1>5, <1>6, <1>7, <1>8, <1>9 DEF StepOf, Step

RowTypes ==
    /\ committed \in Table /\ current \in Table
    /\ xlock \in [Keys -> Clients \cup {Nobody}]
    /\ slock \in [Keys -> SUBSET Clients]

\* Nobody writes a row that others share.
Exclusive == \A k \in Keys : xlock[k] # Nobody => slock[k] \subseteq {xlock[k]}

\* A row that nobody writes is committed.
Settled == \A k \in Keys : xlock[k] = Nobody => current[k] = committed[k]

\* They keep the types.
LEMMA RowTypesStep ==
  ASSUME RowTypes, NEW c \in Clients, RowsMove(c)
  PROVE  RowTypes'
<1> USE DEF RowTypes, Table
<1>1. CASE Stays
  BY <1>1 DEF Stays, locks
<1>2. CASE Writes(c)
  <2>1. committed' \in Table /\ slock' \in [Keys -> SUBSET Clients]
    BY <1>2 DEF Writes, TakeX
  <2>2. xlock' \in [Keys -> Clients \cup {Nobody}]
    BY <1>2 DEF Writes, TakeX
  <2>3. current' \in Table
    BY <1>2 DEF Writes
  <2> QED
    BY <2>1, <2>2, <2>3
<1>3. CASE Shares(c)
  BY <1>3 DEF Shares, TakeS
<1>4. CASE Undo(c)
  BY <1>4 DEF Undo, Release
<1>5. CASE Keep(c)
  BY <1>5 DEF Keep, Release
<1>6. CASE Sweeps(c)
  <2>1. UNCHANGED <<xlock, slock>>
    BY <1>6 DEF Sweeps, locks
  <2>2. PICK new : Executed(c, new)
    BY <1>6 DEF Sweeps
  <2> QED
    BY <2>1, <2>2 DEF Executed
<1> QED
  BY <1>1, <1>2, <1>3, <1>4, <1>5, <1>6 DEF RowsMove

\* They leave no write behind without its lock (Undo, Keep).
LEMMA SettledStep ==
  ASSUME RowTypes, Settled, NEW c \in Clients, RowsMove(c)
  PROVE  Settled'
<1> USE DEF RowTypes, Table, Settled
<1>1. CASE Stays
  BY <1>1 DEF Stays, locks
<1>2. CASE Writes(c)
  <2> SUFFICES ASSUME NEW k \in Keys, xlock'[k] = Nobody
               PROVE  current'[k] = committed'[k]
    OBVIOUS
  <2>1. PICK l \in Keys :
           /\ xlock' = [xlock EXCEPT ![l] = c]
           /\ current' = current \/ \E row \in Rows : current' = [current EXCEPT ![l] = row]
    BY <1>2 DEF Writes, TakeX
  <2>2. k # l
    BY <2>1, ValuesAssumption
  <2> QED
    BY <1>2, <2>1, <2>2 DEF Writes
<1>3. CASE Shares(c)
  BY <1>3 DEF Shares, TakeS
<1>4. CASE Undo(c)
  BY <1>4 DEF Undo, Release
<1>5. CASE Keep(c)
  BY <1>5 DEF Keep, Release
<1>6. CASE Sweeps(c)
  <2>1. UNCHANGED <<xlock, slock>>
    BY <1>6 DEF Sweeps, locks
  <2>2. PICK new : Executed(c, new)
    BY <1>6 DEF Sweeps
  <2> QED
    BY <2>1, <2>2 DEF Executed
<1> QED
  BY <1>1, <1>2, <1>3, <1>4, <1>5, <1>6 DEF RowsMove

\* They give nobody a row for himself that others share.
LEMMA ExclusiveStep ==
  ASSUME RowTypes, Exclusive, NEW c \in Clients, RowsMove(c)
  PROVE  Exclusive'
<1> USE DEF RowTypes, Exclusive
<1>1. CASE Stays
  BY <1>1 DEF Stays, locks
<1>2. CASE Writes(c)
  <2> SUFFICES ASSUME NEW k \in Keys, xlock'[k] # Nobody
               PROVE  slock'[k] \subseteq {xlock'[k]}
    OBVIOUS
  <2>1. PICK l \in Keys : Open(c, l) /\ xlock' = [xlock EXCEPT ![l] = c] /\ slock' = slock
    BY <1>2 DEF Writes, TakeX
  <2> QED
    BY <2>1 DEF Open, Sharers
<1>3. CASE Shares(c)
  <2> SUFFICES ASSUME NEW k \in Keys, xlock'[k] # Nobody
               PROVE  slock'[k] \subseteq {xlock'[k]}
    OBVIOUS
  <2>1. PICK l \in Keys : /\ Writers(c, l) = {} /\ xlock' = xlock
                          /\ slock' = [slock EXCEPT ![l] = @ \cup {c}]
    BY <1>3 DEF Shares, TakeS
  <2> QED
    BY <2>1 DEF Writers
<1>4. CASE Undo(c)
  BY <1>4 DEF Undo, Release
<1>5. CASE Keep(c)
  BY <1>5 DEF Keep, Release
<1>6. CASE Sweeps(c)
  BY <1>6 DEF Sweeps, locks
<1> QED
  BY <1>1, <1>2, <1>3, <1>4, <1>5, <1>6 DEF RowsMove

\* A row that a client holds is what the client last saw of it: nobody else
\* changes it or takes it away.
LEMMA HeldStays ==
  ASSUME RowTypes, Exclusive, NEW c \in Clients, RowsMove(c),
         NEW d \in Clients, d # c, NEW k \in Keys
  PROVE  /\ (xlock'[k] = d) <=> (xlock[k] = d)
         /\ (d \in slock'[k]) <=> (d \in slock[k])
         /\ xlock[k] = d \/ d \in slock[k]
              => committed'[k] = committed[k] /\ current'[k] = current[k]
<1> USE DEF RowTypes, Exclusive
<1>0. Nobody # c /\ Nobody # d
  BY ValuesAssumption
<1>1. CASE Stays
  BY <1>1 DEF Stays, locks
<1>2. CASE Writes(c)
  <2>1. PICK l \in Keys :
           /\ Open(c, l) /\ xlock' = [xlock EXCEPT ![l] = c] /\ slock' = slock
           /\ committed' = committed
           /\ current' = current \/ \E row \in Rows : current' = [current EXCEPT ![l] = row]
    BY <1>2 DEF Writes, TakeX
  <2>2. xlock[l] # d /\ d \notin slock[l]
    BY <1>0, <2>1 DEF Open, Writers, Sharers
  <2>3. CASE k = l
    BY <2>1, <2>2, <2>3
  <2>4. CASE k # l
    <3>1. xlock'[k] = xlock[k] /\ current'[k] = current[k]
      BY <2>1, <2>4 DEF Table
    <3> QED
      BY <2>1, <3>1
  <2> QED
    BY <2>3, <2>4
<1>3. CASE Shares(c)
  BY <1>3 DEF Shares, TakeS
<1>4. CASE Undo(c)
  BY <1>0, <1>4 DEF Undo, Release
<1>5. CASE Keep(c)
  BY <1>0, <1>5 DEF Keep, Release
<1>6. CASE Sweeps(c)
  <2>1. UNCHANGED <<xlock, slock>>
    BY <1>6 DEF Sweeps, locks
  <2>2. PICK new : Executed(c, new)
    BY <1>6 DEF Sweeps
  <2>3. ASSUME xlock[k] = d \/ d \in slock[k]
        PROVE  k \notin Wanted(c)
    BY <1>0, <2>2, <2>3 DEF Executed, Free, Writers, Sharers
  <2> QED
    BY <2>1, <2>2, <2>3 DEF Executed
<1> QED
  BY <1>1, <1>2, <1>3, <1>4, <1>5, <1>6 DEF RowsMove

-----------------------------------------------------------------------------
(* Types                                                                    *)

\* Types holds at the start.
LEMMA TypesInit == Init => Types
<1> SUFFICES ASSUME Init PROVE Types
  OBVIOUS
<1> USE DEF Init
<1>1. committed \in [Keys -> Rows \cup {Absent}]
  BY ValuesAssumption DEF Rows
<1>2. TypeOK
  BY <1>1 DEF TypeOK
<1> QED
  BY <1>2 DEF Types

\* What a client has at the place it goes to.
LEMMA Arrives ==
  ASSUME Types, NEW c \in Clients, StepOf(c)
  PROVE  /\ pc'[c] \notin {"start", "end"} => Txn(c)
         /\ pc'[c] = "modify" => entity'[c] \in Rows
         /\ pc'[c] = "start" => at'[c] = 1
<1> USE DEF Goto, Types, TypeOK
<1>1. CASE Begin(c)
  BY <1>1 DEF Begin, Txn
<1>2. CASE FindOne(c)
  <2>1. Txn(c) /\ Visible(c, KeyAt(c)) \in Rows \cup {Absent}
    BY <1>2, JobTyped DEF FindOne, Visible
  <2> QED
    BY <1>2, <2>1 DEF FindOne
<1>3. CASE ModifyOne(c)
  BY <1>3 DEF ModifyOne
<1>4. CASE Commit(c)
  BY <1>4 DEF Commit
<1>5. CASE Rollback(c)
  BY <1>5 DEF Rollback
<1>6. CASE Statement(c)
  BY <1>6, StatementMoves
<1>7. CASE DeadlockVictim(c)
  BY <1>7 DEF DeadlockVictim, Blockers
<1>8. CASE ConnectionBreaks(c)
  BY <1>8 DEF ConnectionBreaks
<1>9. CASE Retry(c)
  BY <1>9 DEF Retry
<1> QED
  BY <1>1, <1>2, <1>3, <1>4, <1>5, <1>6, <1>7, <1>8, <1>9 DEF StepOf, Step

\* Each step keeps Types.
LEMMA TypesStep ==
  ASSUME Types, NEW c \in Clients, StepOf(c)
  PROVE  Types'
<1>1. RowsMove(c) /\ Moved(c)
  BY RowsMoves, Moves
<1>2. RowTypes /\ Settled
  BY DEF Types, TypeOK, RowTypes, Settled, Table
<1>3. RowTypes' /\ Settled'
  BY <1>1, <1>2, RowTypesStep, SettledStep
<1>4. job' = job /\ job \in Jobs
  BY <1>1 DEF Moved, Types, TypeOK
<1>5. pc' \in [Clients -> Places]
  BY <1>1 DEF Moved, Types, TypeOK, Places
<1>6. at' \in [Clients -> Nat \ {0}]
  <2>1. at \in [Clients -> Nat \ {0}]
    BY DEF Types, TypeOK
  <2>2. at[c] + 1 \in Nat \ {0} /\ 1 \in Nat \ {0}
    BY <2>1
  <2>3. at' = at \/ at' = [at EXCEPT ![c] = 1] \/ at' = [at EXCEPT ![c] = at[c] + 1]
    BY <1>1 DEF Moved
  <2> QED
    BY <2>1, <2>2, <2>3
<1>7. ASSUME NEW d \in Clients
      PROVE  at'[d] <= Len(job[d].keys) \/ at'[d] = 1
  <2>1. Len(job[d].keys) \in Nat /\ at[d] \in Nat /\ (Txn(d) => at[d] <= Len(job[d].keys))
    BY JobTyped DEF Types, TypeOK
  <2>2. at[d] <= Len(job[d].keys) \/ at[d] = 1
    BY DEF Types, TypeOK
  <2>3. \/ at'[d] = at[d]
        \/ at'[d] = 1
        \/ at'[d] = at[d] + 1 /\ at[d] # Len(job[d].keys) /\ Txn(d)
    BY <1>1 DEF Moved, Types, TypeOK
  <2> QED
    BY <2>1, <2>2, <2>3
<1>8. entity' \in [Clients -> Rows \cup {Absent}]
  BY <1>1 DEF Moved, Types, TypeOK
<1>9. answer' \in [Clients -> Answers \cup {Nothing}]
  BY <1>1 DEF Moved, Types, TypeOK
<1>10. TypeOK'
  BY <1>3, <1>4, <1>5, <1>6, <1>7, <1>8, <1>9
     DEF TypeOK, RowTypes, Settled, Table, Places
<1>11. ASSUME NEW d \in Clients
       PROVE  /\ pc'[d] \notin {"start", "end"} => job'[d].op = "Transaction"
              /\ pc'[d] = "modify" => entity'[d] \in Rows
              /\ pc'[d] = "start" => at'[d] = 1
  <2>1. CASE d # c
    <3>1. job' = job /\ pc'[d] = pc[d] /\ at'[d] = at[d] /\ entity'[d] = entity[d]
      BY <2>1, OthersStay
    <3> QED
      BY <3>1 DEF Types, Txn
  <2>2. CASE d = c
    BY <2>2, <1>4, Arrives DEF Txn
  <2> QED
    BY <2>1, <2>2
<1> QED
  BY <1>10, <1>11 DEF Types, Txn
\* So does a step that changes nothing.
LEMMA TypesStutter ==
  ASSUME Types, UNCHANGED vars
  PROVE  Types'
BY DEF Types, TypeOK, vars, locks, client, Txn

\* The variables of insert.go, modify.go, update.go and delete.go keep their
\* types, and a row that nobody has locked for himself is a committed one.
THEOREM TypeCorrect == Spec => []TypeOK
<1>1. Types /\ [Next]_vars => Types'
  BY TypesStep, TypesStutter DEF Next, StepOf
<1>2. Types => TypeOK
  BY DEF Types
<1> QED
  BY TypesInit, <1>1, <1>2, PTL DEF Spec

-----------------------------------------------------------------------------
(* A transaction that locks what it reads                                   *)

Going == {"find", "modify", "commit"}

\* The keys that the transaction of a client is through with.
Done(c) == {job[c].keys[i] : i \in {l \in DOMAIN job[c].keys : l < at[c] \/ pc[c] = "commit"}}

\* Outside of a call nothing is locked.
Lockless(c) ==
    pc[c] \in {"start", "end"} => \A k \in Keys : xlock[k] # c /\ c \notin slock[k]

\* The call is open as long as it has no answer.
Awaits(c) == (answer[c] = Nothing) <=> (pc[c] \in Going \cup {"start"})

\* What the transaction has written is what it has done, and that is one more
\* than the row that everybody else sees.
Written(c, k) == xlock[k] = c /\ committed[k] \in Rows /\ current[k] = Bump(committed[k])

WritesDone(c) ==
    pc[c] \in Going => \A k \in Keys :
        /\ k \in Done(c) => Written(c, k)
        /\ xlock[k] = c => k \in Done(c) \/ (pc[c] = "modify" /\ k = KeyAt(c))

\* Between the two statements the row stays as it was read.
ReadHolds(c) ==
    pc[c] = "modify" =>
        /\ xlock[KeyAt(c)] = c \/ c \in slock[KeyAt(c)]
        /\ committed[KeyAt(c)] = entity[c] /\ current[KeyAt(c)] = entity[c]

Owns(c) == Lockless(c) /\ Awaits(c) /\ WritesDone(c) /\ ReadHolds(c)

\* A transaction has not yet been at the key it is at: its keys are distinct.
LEMMA KeyAtNew ==
  ASSUME Types, NEW c \in Clients, pc[c] \in {"find", "modify"}
  PROVE  KeyAt(c) \in Keys /\ KeyAt(c) \in Wanted(c) /\ KeyAt(c) \notin Done(c)
<1>1. Txn(c) /\ at[c] \in Nat
  BY DEF Types, TypeOK
<1>2. /\ at[c] \in DOMAIN job[c].keys /\ KeyAt(c) \in Wanted(c) /\ KeyAt(c) \in Keys
      /\ DOMAIN job[c].keys = 1..Len(job[c].keys)
  BY <1>1, JobTyped DEF Types
<1>3. IsInjective(job[c].keys)
  BY <1>1, JobsAssumption DEF Types, TypeOK, Txn
<1>4. ASSUME NEW i \in DOMAIN job[c].keys, i < at[c]
      PROVE  job[c].keys[i] # KeyAt(c)
  <2>1. i # at[c]
    BY <1>1, <1>2, <1>4
  <2> QED
    BY <1>2, <1>3, <2>1 DEF IsInjective, KeyAt
<1> QED
  BY <1>2, <1>4 DEF Done

\* A step of one client leaves what the others own.
LEMMA OwnsOther ==
  ASSUME Types, Exclusive, NEW c \in Clients, StepOf(c),
         NEW d \in Clients, d # c, Owns(d)
  PROVE  Owns(d)'
<1>1. /\ job' = job /\ pc'[d] = pc[d] /\ at'[d] = at[d]
      /\ entity'[d] = entity[d] /\ answer'[d] = answer[d]
  BY OthersStay
<1>2. RowTypes /\ RowsMove(c)
  BY RowsMoves DEF Types, TypeOK, RowTypes, Table
<1>3. ASSUME NEW k \in Keys
      PROVE  /\ (xlock'[k] = d) <=> (xlock[k] = d)
             /\ (d \in slock'[k]) <=> (d \in slock[k])
             /\ xlock[k] = d \/ d \in slock[k]
                  => committed'[k] = committed[k] /\ current'[k] = current[k]
  BY <1>2, HeldStays
<1>4. Done(d)' = Done(d) /\ KeyAt(d)' = KeyAt(d)
  BY <1>1 DEF Done, KeyAt
<1>5. Lockless(d)'
  BY <1>1, <1>3 DEF Owns, Lockless
<1>6. Awaits(d)'
  BY <1>1 DEF Owns, Awaits
<1>7. WritesDone(d)'
  <2> SUFFICES ASSUME pc[d] \in Going, NEW k \in Keys
               PROVE  /\ k \in Done(d) => Written(d, k)'
                      /\ xlock'[k] = d => k \in Done(d) \/ (pc[d] = "modify" /\ k = KeyAt(d))
    BY <1>1, <1>4 DEF WritesDone
  <2>1. ASSUME k \in Done(d) PROVE Written(d, k)'
    <3>1. Written(d, k)
      BY <2>1 DEF Owns, WritesDone
    <3> QED
      BY <1>3, <3>1 DEF Written
  <2>2. ASSUME xlock'[k] = d PROVE k \in Done(d) \/ (pc[d] = "modify" /\ k = KeyAt(d))
    BY <1>3, <2>2 DEF Owns, WritesDone
  <2> QED
    BY <2>1, <2>2
<1>8. ReadHolds(d)'
  <2> SUFFICES ASSUME pc[d] = "modify"
               PROVE  /\ xlock'[KeyAt(d)] = d \/ d \in slock'[KeyAt(d)]
                      /\ committed'[KeyAt(d)] = entity[d] /\ current'[KeyAt(d)] = entity[d]
    BY <1>1, <1>4 DEF ReadHolds
  <2>1. KeyAt(d) \in Keys
    BY KeyAtNew
  <2> QED
    BY <1>3, <2>1 DEF Owns, ReadHolds
<1> QED
  BY <1>5, <1>6, <1>7, <1>8 DEF Owns

-----------------------------------------------------------------------------
(* The steps of a client keep what it owns                                  *)

\* A call that has its answer owns nothing that the rest relies on.
LEMMA OwnsClosed ==
  ASSUME NEW c \in Clients,
         \/ pc'[c] = "rollback"
         \/ pc'[c] = "end" /\ \A k \in Keys : xlock'[k] # c /\ c \notin slock'[k],
         answer'[c] # Nothing
  PROVE  Owns(c)'
BY DEF Owns, Lockless, Awaits, WritesDone, ReadHolds, Going

\* A transaction starts with nothing done.
LEMMA BeginOwns ==
  ASSUME Types, NEW c \in Clients, Owns(c), Begin(c)
  PROVE  Owns(c)'
<1>1. pc[c] = "start" /\ pc'[c] = "find" /\ at'[c] = 1
  BY DEF Begin, Goto, Types, TypeOK
<1>2. UNCHANGED <<committed, current, xlock, slock, job, answer>>
  BY DEF Begin, locks
<1>3. Done(c)' = {}
  <2>1. DOMAIN job[c].keys = 1..Len(job[c].keys)
    BY JobTyped DEF Types
  <2>2. job'[c] = job[c]
    BY <1>2
  <2> QED
    BY <1>1, <2>1, <2>2 DEF Done
<1>4. \A k \in Keys : xlock[k] # c
  BY <1>1 DEF Owns, Lockless
<1>5. Awaits(c)'
  BY <1>1, <1>2 DEF Owns, Awaits, Going
<1>6. WritesDone(c)'
  BY <1>2, <1>3, <1>4 DEF WritesDone
<1> QED
  BY <1>1, <1>5, <1>6 DEF Owns, Lockless, ReadHolds

\* MySQL.Select asks for a lock in both modes.
LEMMA LockAsked ==
  ASSUME Types, Locking, NEW c \in Clients, Txn(c)
  PROVE  LockOf(job[c].lock) \in {"X", "S"}
<1>1. job[c].lock \in {"LockForRead", "LockForUpdate"}
  BY JobsAssumption DEF Types, TypeOK, Txn, Locking
<1> QED
  BY <1>1 DEF LockOf

\* What a transaction reads is committed.
LEMMA FindsCommitted ==
  ASSUME Types, Locking, NEW c \in Clients, Owns(c), FindOne(c)
  PROVE  /\ KeyAt(c) \in Keys /\ xlock[KeyAt(c)] = Nobody
         /\ Visible(c, KeyAt(c)) = committed[KeyAt(c)]
         /\ current[KeyAt(c)] = committed[KeyAt(c)]
<1>1. pc[c] = "find" /\ Txn(c)
  BY DEF FindOne, Types
<1>2. KeyAt(c) \in Keys /\ KeyAt(c) \notin Done(c)
  BY <1>1, KeyAtNew
<1>3. xlock[KeyAt(c)] # c
  BY <1>1, <1>2 DEF Owns, WritesDone, Going
<1>4. Writers(c, KeyAt(c)) = {}
  BY <1>1, LockAsked DEF FindOne, FindBlockers
<1>5. xlock[KeyAt(c)] = Nobody
  BY <1>3, <1>4 DEF Writers
<1> QED
  BY <1>2, <1>3, <1>5 DEF Visible, Types, TypeOK

\* FindOne holds what it has read.
LEMMA FindOwns ==
  ASSUME Types, Locking, NEW c \in Clients, Owns(c), FindOne(c)
  PROVE  Owns(c)'
<1> DEFINE row == Visible(c, KeyAt(c))
<1>1. /\ KeyAt(c) \in Keys /\ xlock[KeyAt(c)] = Nobody
      /\ row = committed[KeyAt(c)] /\ current[KeyAt(c)] = committed[KeyAt(c)]
  BY FindsCommitted
<1>2. pc[c] = "find" /\ Txn(c) /\ UNCHANGED <<committed, current, job, at>>
  BY DEF FindOne, Types
<1>3. CASE row = Absent
  <2>1. pc'[c] = "rollback" /\ answer'[c] = "ErrNoRows"
    BY <1>3 DEF FindOne, Answered, Goto, Types, TypeOK
  <2>2. answer'[c] # Nothing
    BY <2>1, ValuesAssumption DEF Answers
  <2> QED
    BY <2>1, <2>2, OwnsClosed
<1>4. CASE row # Absent
  <2>1. entity'[c] = row /\ pc'[c] = "modify" /\ answer' = answer
    BY <1>4 DEF FindOne, Goto, Types, TypeOK
  <2>2. TakeX(c, KeyAt(c)) \/ TakeS(c, KeyAt(c))
    BY <1>2, <1>4, LockAsked DEF FindOne
  <2>3. \A k \in Keys : xlock'[k] = xlock[k] \/ (k = KeyAt(c) /\ xlock'[k] = c)
    BY <2>2 DEF TakeX, TakeS, Types, TypeOK
  <2>4. xlock'[KeyAt(c)] = c \/ c \in slock'[KeyAt(c)]
    BY <1>1, <2>2 DEF TakeX, TakeS, Types, TypeOK
  <2>5. Done(c)' = Done(c) /\ KeyAt(c)' = KeyAt(c) /\ KeyAt(c) \notin Done(c)
    BY <1>2, <2>1, KeyAtNew DEF Done, KeyAt
  <2>6. Awaits(c)'
    BY <1>2, <2>1 DEF Owns, Awaits, Going
  <2>7. WritesDone(c)'
    <3> SUFFICES ASSUME NEW k \in Keys
                 PROVE  /\ k \in Done(c) => Written(c, k)'
                        /\ xlock'[k] = c => k \in Done(c) \/ k = KeyAt(c)
      BY <2>1, <2>5 DEF WritesDone
    <3>1. k \in Done(c) => Written(c, k)
      BY <1>2 DEF Owns, WritesDone, Going
    <3>2. k \in Done(c) => Written(c, k)'
      BY <1>2, <2>3, <3>1 DEF Written
    <3>3. xlock[k] = c => k \in Done(c)
      BY <1>2 DEF Owns, WritesDone, Going
    <3> QED
      BY <2>3, <3>2, <3>3
  <2>8. ReadHolds(c)'
    BY <1>1, <1>2, <2>1, <2>4, <2>5 DEF ReadHolds
  <2> QED
    BY <2>1, <2>6, <2>7, <2>8 DEF Owns, Lockless
<1> QED
  BY <1>3, <1>4

\* ModifyOne finds the row as the transaction read it, and changes it.
LEMMA ModifyAffects ==
  ASSUME Types, NEW c \in Clients, Owns(c), ModifyOne(c)
  PROVE  /\ KeyAt(c) \in Keys /\ entity[c] \in Rows /\ committed[KeyAt(c)] = entity[c]
         /\ current' = [current EXCEPT ![KeyAt(c)] = Bump(entity[c])]
         /\ TakeX(c, KeyAt(c))
         /\ at' = IF at[c] = Len(job[c].keys) THEN at ELSE [at EXCEPT ![c] = @ + 1]
         /\ Goto(c, IF at[c] = Len(job[c].keys) THEN "commit" ELSE "find")
         /\ UNCHANGED <<committed, job, entity, answer>>
<1>1. pc[c] = "modify" /\ entity[c] \in Rows /\ KeyAt(c) \in Keys
  BY KeyAtNew DEF ModifyOne, Types
<1>2. committed[KeyAt(c)] = entity[c] /\ current[KeyAt(c)] = entity[c]
  BY <1>1 DEF Owns, ReadHolds
<1>3. Modified(c) = Bump(entity[c])
  BY DEF Modified, Bump
<1>4. current[KeyAt(c)] # Absent /\ current[KeyAt(c)] # Modified(c)
  BY <1>1, <1>2, <1>3, BumpTyped, ValuesAssumption
<1>5. /\ current' = [current EXCEPT ![KeyAt(c)] = Modified(c)]
      /\ TakeX(c, KeyAt(c))
      /\ UNCHANGED <<committed, job, entity>>
  BY <1>4 DEF ModifyOne
<1>6. /\ at' = IF at[c] = Len(job[c].keys) THEN at ELSE [at EXCEPT ![c] = @ + 1]
      /\ Goto(c, IF at[c] = Len(job[c].keys) THEN "commit" ELSE "find")
      /\ UNCHANGED answer
  BY <1>4 DEF ModifyOne
<1> QED
  BY <1>1, <1>2, <1>3, <1>5, <1>6

\* ModifyOne adds its key to what is done.
LEMMA ModifyOwns ==
  ASSUME Types, NEW c \in Clients, Owns(c), ModifyOne(c)
  PROVE  Owns(c)'
<1> DEFINE last == at[c] = Len(job[c].keys)
<1>1. /\ KeyAt(c) \in Keys /\ entity[c] \in Rows /\ committed[KeyAt(c)] = entity[c]
      /\ current' = [current EXCEPT ![KeyAt(c)] = Bump(entity[c])]
      /\ TakeX(c, KeyAt(c))
      /\ UNCHANGED <<committed, job, entity, answer>>
  BY ModifyAffects
<1>2. /\ pc'[c] = IF last THEN "commit" ELSE "find"
      /\ at'[c] = IF last THEN at[c] ELSE at[c] + 1
  BY ModifyAffects DEF Goto, Types, TypeOK
<1>3. pc[c] = "modify" /\ Txn(c) /\ KeyAt(c) \notin Done(c)
  BY KeyAtNew DEF ModifyOne, Types
<1>4. Done(c)' = Done(c) \cup {KeyAt(c)}
  <2>1. /\ DOMAIN job[c].keys = 1..Len(job[c].keys) /\ Len(job[c].keys) \in Nat
        /\ at[c] \in DOMAIN job[c].keys
    BY <1>3, JobTyped DEF Types
  <2>2. job'[c] = job[c]
    BY <1>1
  <2>3. \A l \in DOMAIN job[c].keys :
           (l < at'[c] \/ pc'[c] = "commit") <=> (l < at[c] \/ l = at[c])
    BY <1>2, <2>1
  <2> QED
    BY <1>3, <2>1, <2>2, <2>3 DEF Done, KeyAt
<1>5. /\ xlock'[KeyAt(c)] = c
      /\ \A k \in Keys : k # KeyAt(c) => xlock'[k] = xlock[k] /\ current'[k] = current[k]
      /\ current'[KeyAt(c)] = Bump(committed[KeyAt(c)])
  BY <1>1 DEF TakeX, Types, TypeOK
<1>6. Awaits(c)'
  BY <1>1, <1>2, <1>3 DEF Owns, Awaits, Going
<1>7. WritesDone(c)'
  <2> SUFFICES ASSUME NEW k \in Keys
               PROVE  /\ k \in Done(c)' => Written(c, k)'
                      /\ xlock'[k] = c => k \in Done(c)'
    BY DEF WritesDone
  <2>1. CASE k = KeyAt(c)
    <3>1. Written(c, k)'
      BY <1>1, <1>5, <2>1 DEF Written
    <3> QED
      BY <1>4, <2>1, <3>1
  <2>2. CASE k # KeyAt(c)
    <3>1. k \in Done(c) => Written(c, k)
      BY <1>3 DEF Owns, WritesDone, Going
    <3>2. xlock[k] = c => k \in Done(c)
      BY <1>3, <2>2 DEF Owns, WritesDone, Going
    <3>3. xlock'[k] = xlock[k] /\ current'[k] = current[k] /\ committed' = committed
      BY <1>1, <1>5, <2>2
    <3>4. k \in Done(c) => Written(c, k)'
      BY <3>1, <3>3 DEF Written
    <3> QED
      BY <1>4, <2>2, <3>2, <3>3, <3>4
  <2> QED
    BY <2>1, <2>2
<1> QED
  BY <1>2, <1>6, <1>7 DEF Owns, Lockless, ReadHolds

\* The end of a transaction leaves none of its locks.
LEMMA Releases ==
  ASSUME Types, NEW c \in Clients, Undo(c) \/ Keep(c), NEW k \in Keys
  PROVE  xlock'[k] # c /\ c \notin slock'[k]
BY ValuesAssumption DEF Undo, Keep, Release

\* A transaction that failed has its answer.
LEMMA FailOwns ==
  ASSUME Types, NEW c \in Clients, DeadlockVictim(c) \/ ConnectionBreaks(c)
  PROVE  Owns(c)'
<1>1. pc'[c] = "rollback" /\ answer'[c] \in Answers
  BY DEF DeadlockVictim, ConnectionBreaks, Goto, Answered, Types, TypeOK, Answers, Errors
<1> QED
  BY <1>1, OwnsClosed, ValuesAssumption

\* Commit and Rollback end with an answer and without locks.
LEMMA EndOwns ==
  ASSUME Types, NEW c \in Clients, Owns(c), Commit(c) \/ Rollback(c)
  PROVE  Owns(c)'
<1>1. pc'[c] = "end" /\ answer'[c] # Nothing
  <2>1. CASE Commit(c)
    <3>1. pc'[c] = "end" /\ answer'[c] = "nil"
      BY <2>1 DEF Commit, Goto, Answered, Types, TypeOK
    <3> QED
      BY <3>1, ValuesAssumption DEF Answers
  <2>2. CASE Rollback(c)
    BY <2>2 DEF Rollback, Goto, Types, TypeOK, Owns, Awaits, Going
  <2> QED
    BY <2>1, <2>2
<1>2. \A k \in Keys : xlock'[k] # c /\ c \notin slock'[k]
  BY Releases DEF Commit, Rollback
<1> QED
  BY <1>1, <1>2, OwnsClosed

\* So does a statement, which had no lock before.
LEMMA StatementOwns ==
  ASSUME Types, NEW c \in Clients, Owns(c), Statement(c)
  PROVE  Owns(c)'
<1>1. /\ pc[c] = "start" /\ UNCHANGED <<xlock, slock>>
      /\ pc' = [pc EXCEPT ![c] = "end"]
      /\ \E a \in Answers : answer' = [answer EXCEPT ![c] = a]
  BY StatementMoves DEF Types, locks
<1>2. pc'[c] = "end" /\ answer'[c] # Nothing
  BY <1>1, ValuesAssumption DEF Types, TypeOK
<1> QED
  BY <1>1, <1>2, OwnsClosed DEF Owns, Lockless

\* A call that is made again is open again.
LEMMA RetryOwns ==
  ASSUME Types, NEW c \in Clients, Owns(c), Retry(c)
  PROVE  Owns(c)'
<1>1. pc[c] = "end" /\ pc'[c] = "start" /\ answer'[c] = Nothing /\ UNCHANGED <<xlock, slock>>
  BY DEF Retry, Goto, Answered, Types, TypeOK, locks
<1> QED
  BY <1>1 DEF Owns, Lockless, Awaits, WritesDone, ReadHolds, Going

-----------------------------------------------------------------------------
(* The steps that other clients can see                                     *)

\* Both specifications speak of the same keys.
LEMMA SerialWanted ==
  ASSUME Types, NEW c \in Clients
  PROVE  /\ Serial!Wanted(c) = Wanted(c) /\ Wanted(c) \in SUBSET Keys
         /\ Serial!TableKeys = Keys
         /\ Serial!There(c) = {k \in Wanted(c) : committed[k] # Absent}
<1>1. Serial!Wanted(c) = Wanted(c)
  BY DEF Serial!Wanted, Wanted
<1> QED
  BY <1>1, JobTyped DEF Serial!There, Serial!TableKeys, Types, TypeOK

\* FindOne shows nothing to others, or finds that a row is not there: then
\* the whole transaction is one that finds it missing.
LEMMA FindSerial ==
  ASSUME Types, Locking, NEW c \in Clients, Owns(c), FindOne(c)
  PROVE  UNCHANGED Serial!svars \/ (answer[c] = Nothing /\ Serial!Increment(c))
<1>1. /\ KeyAt(c) \in Keys /\ xlock[KeyAt(c)] = Nobody
      /\ Visible(c, KeyAt(c)) = committed[KeyAt(c)]
  BY FindsCommitted
<1>2. pc[c] = "find" /\ Txn(c) /\ answer[c] = Nothing /\ UNCHANGED <<committed, job>>
  BY DEF FindOne, Types, Owns, Awaits, Going
<1>3. CASE committed[KeyAt(c)] = Absent
  <2>1. KeyAt(c) \in Wanted(c)
    BY <1>2, KeyAtNew
  <2>2. Serial!There(c) # Serial!Wanted(c)
    BY <1>3, <2>1, SerialWanted
  <2>3. answer' = [answer EXCEPT ![c] = "ErrNoRows"]
    BY <1>1, <1>3 DEF FindOne, Answered
  <2> QED
    BY <1>2, <2>2, <2>3 DEF Serial!Increment, Serial!Answered, Serial!Keep, Txn
<1>4. CASE committed[KeyAt(c)] # Absent
  BY <1>1, <1>2, <1>4 DEF FindOne, Serial!svars
<1> QED
  BY <1>3, <1>4

\* All the increments of a transaction show at its commit, on the rows as
\* they are then.
LEMMA CommitSerial ==
  ASSUME Types, NEW c \in Clients, Owns(c), Commit(c)
  PROVE  answer[c] = Nothing /\ Serial!Increment(c)
<1>1. pc[c] = "commit" /\ Txn(c) /\ answer[c] = Nothing /\ UNCHANGED job
  BY DEF Commit, Types, Owns, Awaits, Going
<1>2. Done(c) = Wanted(c)
  BY <1>1 DEF Done, Wanted
<1>3. \A k \in Keys : /\ k \in Wanted(c) => Written(c, k)
                      /\ xlock[k] = c => k \in Wanted(c)
  BY <1>1, <1>2 DEF Owns, WritesDone, Going
<1>4. Serial!There(c) = Serial!Wanted(c)
  <2>1. \A k \in Wanted(c) : committed[k] # Absent
    <3>1. Wanted(c) \in SUBSET Keys
      BY SerialWanted
    <3>2. \A k \in Wanted(c) : committed[k] \in Rows
      BY <1>3, <3>1 DEF Written
    <3> QED
      BY <3>2, ValuesAssumption
  <2> QED
    BY <2>1, SerialWanted
<1>5. committed' = [k \in Keys |-> IF k \in Wanted(c) THEN Bump(committed[k]) ELSE committed[k]]
  <2>1. committed' = [k \in Keys |-> IF xlock[k] = c THEN current[k] ELSE committed[k]]
    BY DEF Commit, Keep
  <2> QED
    BY <1>3, <2>1 DEF Written
<1>6. Serial!Put(Serial!Wanted(c), LAMBDA k : [committed[k] EXCEPT !.n = @ + 1])
  BY <1>1, <1>5, SerialWanted DEF Serial!Put, Bump
<1>7. answer' = [answer EXCEPT ![c] = "nil"]
  BY DEF Commit, Answered
<1> QED
  BY <1>1, <1>4, <1>6, <1>7 DEF Serial!Increment, Serial!Answered, Txn

\* A call that failed did nothing.
LEMMA FailSerial ==
  ASSUME Types, NEW c \in Clients, Owns(c), DeadlockVictim(c) \/ ConnectionBreaks(c)
  PROVE  answer[c] = Nothing /\ Serial!Fail(c)
<1>1. pc[c] \in {"find", "modify"}
  BY DEF DeadlockVictim, ConnectionBreaks, Blockers
<1>2. answer[c] = Nothing
  BY <1>1 DEF Owns, Awaits, Going
<1>3. \E e \in Errors : answer' = [answer EXCEPT ![c] = e]
  BY DEF DeadlockVictim, ConnectionBreaks, Answered, Errors
<1>4. UNCHANGED <<committed, job>>
  BY DEF DeadlockVictim, ConnectionBreaks, Undo
<1> QED
  BY <1>2, <1>3, <1>4 DEF Serial!Fail, Serial!Answered, Serial!Keep

-----------------------------------------------------------------------------
(* Single statements                                                        *)

\* A statement changes committed rows: nobody has what it wants.
LEMMA FreeSettled ==
  ASSUME Types, NEW c \in Clients, Owns(c), pc[c] = "start", Free(c)
  PROVE  /\ \A k \in Wanted(c) : current[k] = committed[k]
         /\ There(c) = Serial!There(c)
<1>1. \A k \in Wanted(c) : xlock[k] # c /\ k \in Keys
  BY JobTyped DEF Owns, Lockless, Types
<1>2. \A k \in Wanted(c) : xlock[k] = Nobody
  BY <1>1 DEF Free, Writers
<1>3. \A k \in Wanted(c) : current[k] = committed[k]
  BY <1>1, <1>2 DEF Types, TypeOK
<1> QED
  BY <1>3, SerialWanted DEF There

\* The answer of a statement may get lost, in both specifications.
LEMMA AnsweredSerial ==
  ASSUME NEW c \in Clients, ~Txn(c), NEW a,
         Answered(c, a) \/ Answered(c, "io error")
  PROVE  Serial!Answered(c, a)
BY DEF Answered, Serial!Answered, Txn

\* What a statement does to the rows that others see, and to its answer.
LEMMA ExecuteSerial ==
  ASSUME Types, NEW c \in Clients, ~Txn(c), NEW new, NEW a, Execute(new, a, c)
  PROVE  /\ committed' = [k \in Keys |-> IF k \in Wanted(c) THEN new[k] ELSE committed[k]]
         /\ Serial!Answered(c, a)
BY AnsweredSerial DEF Execute

\* A statement that is refused does nothing.
LEMMA RefuseSerial ==
  ASSUME NEW c \in Clients, ~Txn(c), NEW a, Refuse(a, c), job' = job
  PROVE  Serial!Answered(c, a) /\ Serial!Keep
BY AnsweredSerial DEF Refuse, Serial!Keep

\* UpdateOne (sqlike/update.go) is an atomic step.
LEMMA UpdateSerial ==
  ASSUME Types, NEW c \in Clients, Owns(c), pc[c] = "start", UpdateOne(c), job' = job
  PROVE  Serial!Update(c)
<1> DEFINE note == job[c].note
           new == [k \in Keys |-> IF k \in There(c) THEN [current[k] EXCEPT !.note = note]
                                  ELSE current[k]]
<1>1. job[c].op = "UpdateOne" /\ ~Txn(c)
  BY DEF UpdateOne, Txn
<1>2. CASE note = NoNote
  BY <1>1, <1>2, RefuseSerial DEF UpdateOne, Serial!Update
<1>3. CASE note # NoNote
  <2> DEFINE a == IF new = current THEN "0 rows" ELSE "1 row"
  <2>1. Free(c) /\ Execute(new, a, c)
    BY <1>3 DEF UpdateOne
  <2>2. /\ committed' = [k \in Keys |-> IF k \in Wanted(c) THEN new[k] ELSE committed[k]]
        /\ Serial!Answered(c, a)
    BY <1>1, <2>1, ExecuteSerial
  <2>3. /\ \A k \in Wanted(c) : current[k] = committed[k]
        /\ There(c) = Serial!There(c)
    BY <2>1, FreeSettled
  <2>4. /\ There(c) \in SUBSET Wanted(c) /\ Wanted(c) \in SUBSET Keys
        /\ \A k \in There(c) : current[k] \in Rows
        /\ current \in Table /\ committed \in Table
    BY JobTyped DEF There, Types, TypeOK, Table
  <2>5. \A k \in Keys : new[k] = IF k \in There(c) THEN [committed[k] EXCEPT !.note = note]
                                 ELSE current[k]
    BY <2>3, <2>4
  <2>6. committed' = [k \in Keys |-> IF k \in There(c) THEN [committed[k] EXCEPT !.note = note]
                                     ELSE committed[k]]
    BY <2>2, <2>3, <2>4, <2>5
  <2>7. CASE \A k \in There(c) : committed[k].note = note
    <3>1. \A k \in There(c) : [committed[k] EXCEPT !.note = note] = committed[k]
      BY <2>3, <2>4, <2>7 DEF Rows
    <3>2. committed' = committed
      BY <2>4, <2>6, <3>1 DEF Table
    <3>3. new = current
      BY <2>3, <2>4, <2>5, <3>1 DEF Table
    <3> QED
      BY <1>1, <1>3, <2>2, <2>3, <2>7, <3>2, <3>3 DEF Serial!Update, Serial!Keep
  <2>8. CASE \E k \in There(c) : committed[k].note # note
    <3>1. PICK k \in There(c) : committed[k].note # note
      BY <2>8
    <3>2. new[k] # current[k]
      BY <2>3, <2>4, <2>5, <3>1 DEF Rows
    <3>3. Serial!Answered(c, "1 row")
      BY <2>2, <3>2
    <3>4. Serial!Put(Serial!There(c), LAMBDA l : [committed[l] EXCEPT !.note = job[c].note])
      BY <2>3, <2>6, SerialWanted DEF Serial!Put
    <3> QED
      BY <1>1, <1>3, <2>3, <2>8, <3>3, <3>4 DEF Serial!Update
  <2> QED
    BY <2>7, <2>8
<1> QED
  BY <1>2, <1>3
\* ModifyOne of a record of one's own (sqlike/modify.go) is an atomic step.
LEMMA ModifySerial ==
  ASSUME Types, NEW c \in Clients, Owns(c), pc[c] = "start", ModifyAlone(c), job' = job
  PROVE  Serial!Modify(c)
<1> DEFINE new == [k \in Keys |-> IF k \in There(c) THEN Given(c, current[k]) ELSE current[k]]
           a == IF job[c].strict /\ new = current THEN "ErrNoRecordAffected" ELSE "nil"
           given(k) == [n |-> 1, note |-> IF job[c].omit THEN committed[k].note ELSE job[c].note]
           changed == {k \in Serial!There(c) : committed[k] # given(k)}
<1>1. job[c].op = "ModifyOne" /\ ~Txn(c) /\ Free(c)
  BY DEF ModifyAlone, Txn
<1>2. Execute(new, a, c)
  BY DEF ModifyAlone
<1>3. /\ committed' = [k \in Keys |-> IF k \in Wanted(c) THEN new[k] ELSE committed[k]]
      /\ Serial!Answered(c, a)
  BY <1>1, <1>2, ExecuteSerial
<1>4. /\ \A k \in Wanted(c) : current[k] = committed[k]
      /\ There(c) = Serial!There(c)
  BY <1>1, FreeSettled
<1>5. /\ There(c) \in SUBSET Wanted(c) /\ Wanted(c) \in SUBSET Keys
      /\ current \in Table /\ committed \in Table
  BY JobTyped DEF There, Types, TypeOK, Table
<1>6. \A k \in There(c) : Given(c, current[k]) = given(k)
  BY <1>4, <1>5 DEF Given
<1>7. \A k \in Keys : new[k] = IF k \in There(c) THEN given(k) ELSE current[k]
  BY <1>6
<1>8. committed' = [k \in Keys |-> IF k \in changed THEN given(k) ELSE committed[k]]
  <2>1. \A k \in Keys : (IF k \in Wanted(c) THEN new[k] ELSE committed[k])
                        = IF k \in changed THEN given(k) ELSE committed[k]
    <3> SUFFICES ASSUME NEW k \in Keys
                 PROVE  (IF k \in Wanted(c) THEN new[k] ELSE committed[k])
                         = IF k \in changed THEN given(k) ELSE committed[k]
      OBVIOUS
    <3>1. CASE k \in There(c)
      BY <1>4, <1>5, <1>7, <3>1
    <3>2. CASE k \notin There(c)
      BY <1>4, <1>5, <1>7, <3>2
    <3> QED
      BY <3>1, <3>2
  <2> QED
    BY <1>3, <2>1
<1>9. (new = current) <=> (changed = {})
  <2>1. ASSUME changed = {} PROVE new = current
    <3>1. \A k \in There(c) : current[k] = given(k)
      BY <1>4, <1>5, <2>1
    <3> QED
      BY <1>5, <1>7, <3>1 DEF Table
  <2>2. ASSUME new = current PROVE changed = {}
    BY <1>4, <1>5, <1>7, <2>2
  <2> QED
    BY <2>1, <2>2
<1>10. Serial!Put(changed, given)
  BY <1>8, SerialWanted DEF Serial!Put
<1>11. Serial!Answered(c, IF changed = {} /\ job[c].strict THEN "ErrNoRecordAffected" ELSE "nil")
  BY <1>3, <1>9
<1> HIDE DEF new, a
<1> QED
  BY <1>1, <1>10, <1>11 DEF Serial!Modify

\* DestroyOne and DeleteOne (sqlike/delete.go) are atomic steps.
LEMMA RemoveSerial ==
  ASSUME Types, NEW c \in Clients, Owns(c), pc[c] = "start", DeleteOne(c), job' = job
  PROVE  Serial!Remove(c)
<1> DEFINE new == [k \in Keys |-> IF k \in There(c) THEN Absent ELSE current[k]]
           destroy == job[c].op = "DestroyOne"
           a == IF There(c) # {} THEN IF destroy THEN "nil" ELSE "1 row"
                ELSE IF destroy THEN "unable to delete" ELSE "0 rows"
<1>1. job[c].op \in {"DestroyOne", "DeleteOne"} /\ ~Txn(c)
  BY DEF DeleteOne, Txn
<1>2. CASE Wanted(c) = {}
  <2>1. Serial!Answered(c, "empty condition") /\ Serial!Keep
    BY <1>1, <1>2, RefuseSerial DEF DeleteOne
  <2> QED
    BY <1>1, <1>2, <2>1, SerialWanted DEF Serial!Remove
<1>3. CASE Wanted(c) # {}
  <2>1. Free(c) /\ Execute(new, a, c)
    BY <1>3 DEF DeleteOne
  <2>2. /\ committed' = [k \in Keys |-> IF k \in Wanted(c) THEN new[k] ELSE committed[k]]
        /\ Serial!Answered(c, a)
    BY <1>1, <2>1, ExecuteSerial
  <2>3. /\ \A k \in Wanted(c) : current[k] = committed[k]
        /\ There(c) = Serial!There(c)
    BY <2>1, FreeSettled
  <2>4. There(c) \in SUBSET Wanted(c) /\ Wanted(c) \in SUBSET Keys /\ committed \in Table
    BY JobTyped DEF There, Types, TypeOK, Table
  <2>5. committed' = [k \in Keys |-> IF k \in There(c) THEN Absent ELSE committed[k]]
    BY <2>2, <2>3, <2>4
  <2>6. CASE There(c) # {}
    <3>1. Serial!Put(Serial!There(c), LAMBDA k : Absent)
      BY <2>3, <2>5, SerialWanted DEF Serial!Put
    <3>2. Serial!Answered(c, IF job[c].op = "DestroyOne" THEN "nil" ELSE "1 row")
      BY <2>2, <2>6
    <3> QED
      BY <1>1, <2>3, <2>6, <3>1, <3>2 DEF Serial!Remove
  <2>7. CASE There(c) = {}
    <3>1. committed' = committed
      BY <2>4, <2>5, <2>7 DEF Table
    <3>2. Serial!Answered(c, IF job[c].op = "DestroyOne" THEN "unable to delete" ELSE "0 rows")
      BY <2>2, <2>7
    <3> QED
      BY <1>1, <1>3, <2>3, <2>7, <3>1, <3>2, SerialWanted DEF Serial!Remove, Serial!Keep
  <2> QED
    BY <2>6, <2>7
<1> QED
  BY <1>2, <1>3

\* Insert (sqlike/insert.go) is an atomic step, in its three modes.
LEMMA InsertSerial ==
  ASSUME Types, NEW c \in Clients, Owns(c), pc[c] = "start", Insert(c), job' = job
  PROVE  Serial!Insert(c)
<1> DEFINE mode == job[c].mode
           new == [k \in Keys |->
                     CASE k \in Wanted(c) \ There(c) -> Inserted(c)
                       [] k \in There(c) /\ mode = "on duplicate" -> Upserted(c, k)
                       [] OTHER -> current[k]]
<1>1. job[c].op = "Insert" /\ ~Txn(c) /\ mode \in {"plain", "ignore", "on duplicate"}
  BY JobsAssumption DEF Insert, Txn, Types, TypeOK
<1>2. Inserted(c) = Serial!New(c)
  BY DEF Inserted, Serial!New
<1>3. CASE Wanted(c) = {}
  <2>1. Serial!Answered(c, "ErrInvalidInput") /\ Serial!Keep
    BY <1>1, <1>3, RefuseSerial DEF Insert
  <2> QED
    BY <1>1, <1>3, <2>1, SerialWanted DEF Serial!Insert
<1>4. CASE Wanted(c) # {}
  <2>1. Free(c)
    BY <1>4 DEF Insert
  <2>2. /\ \A k \in Wanted(c) : current[k] = committed[k]
        /\ There(c) = Serial!There(c)
    BY <2>1, FreeSettled
  <2>3. CASE mode = "plain" /\ There(c) # {}
    <3>1. Serial!Answered(c, "duplicate key") /\ Serial!Keep
      BY <1>1, <1>4, <2>3, RefuseSerial DEF Insert
    <3> QED
      BY <1>1, <2>2, <2>3, <3>1 DEF Serial!Insert
  <2>4. CASE ~(mode = "plain" /\ There(c) # {})
    <3>1. Execute(new, "nil", c)
      BY <1>4, <2>4 DEF Insert
    <3>2. /\ committed' = [k \in Keys |-> IF k \in Wanted(c) THEN new[k] ELSE committed[k]]
          /\ Serial!Answered(c, "nil")
      BY <1>1, <3>1, ExecuteSerial
    <3>3. /\ There(c) \in SUBSET Wanted(c) /\ Wanted(c) \in SUBSET Keys
          /\ committed \in Table
      BY JobTyped DEF There, Types, TypeOK, Table
    <3>4. CASE There(c) = {} \/ mode = "ignore"
      <4>1. \A k \in Keys : (IF k \in Wanted(c) THEN new[k] ELSE committed[k])
                            = IF k \in Wanted(c) \ There(c) THEN Serial!New(c) ELSE committed[k]
        BY <1>2, <2>2, <3>3, <3>4
      <4>2. Serial!Put(Wanted(c) \ There(c), LAMBDA k : Serial!New(c))
        BY <3>2, <4>1, SerialWanted DEF Serial!Put
      <4> HIDE DEF new
      <4> QED
        BY <1>1, <1>4, <2>2, <3>2, <3>4, <4>2, SerialWanted DEF Serial!Insert
    <3>5. CASE There(c) # {} /\ mode = "on duplicate"
      <4> DEFINE put(k) == IF k \in Serial!There(c) /\ job[c].omit
                           THEN [Serial!New(c) EXCEPT !.note = committed[k].note]
                           ELSE Serial!New(c)
      <4>1. \A k \in There(c) : Upserted(c, k) = put(k)
        <5> SUFFICES ASSUME NEW k \in There(c)
                     PROVE  Upserted(c, k) = put(k)
          OBVIOUS
        <5>1. current[k] = committed[k] /\ k \in Serial!There(c)
          BY <2>2, <3>3
        <5> QED
          BY <1>2, <5>1 DEF Upserted, Serial!New
      <4>2. \A k \in Wanted(c) \ There(c) : put(k) = Serial!New(c)
        BY <2>2
      <4>3. \A k \in Keys : (IF k \in Wanted(c) THEN new[k] ELSE committed[k])
                            = IF k \in Wanted(c) THEN put(k) ELSE committed[k]
        BY <1>2, <3>3, <3>5, <4>1, <4>2
      <4>4. Serial!Put(Wanted(c), put)
        BY <3>2, <4>3, SerialWanted DEF Serial!Put
      <4> HIDE DEF new
      <4> QED
        BY <1>1, <2>2, <3>2, <3>5, <4>4, SerialWanted DEF Serial!Insert
    <3> QED
      BY <1>1, <2>4, <3>4, <3>5
  <2> QED
    BY <2>3, <2>4
<1> QED
  BY <1>3, <1>4

-----------------------------------------------------------------------------
(* All together                                                             *)

\* So every single statement is.
LEMMA StatementSerial ==
  ASSUME Types, NEW c \in Clients, Owns(c), Statement(c)
  PROVE  /\ answer[c] = Nothing
         /\ Serial!Update(c) \/ Serial!Modify(c) \/ Serial!Remove(c) \/ Serial!Insert(c)
<1>1. pc[c] = "start" /\ job' = job
  BY DEF Statement
<1>2. answer[c] = Nothing
  BY <1>1 DEF Owns, Awaits
<1> QED
  BY <1>1, <1>2, UpdateSerial, ModifySerial, RemoveSerial, InsertSerial DEF Statement

\* The locks are as they should be, for everybody.
Orderly == Exclusive /\ \A c \in Clients : Owns(c)

\* Nobody holds a lock at the start.
LEMMA OrderlyInit ==
  ASSUME Init
  PROVE  Orderly
<1> USE DEF Init
<1>1. Exclusive
  BY DEF Exclusive
<1>2. ASSUME NEW c \in Clients PROVE Owns(c)
  <2>1. \A k \in Keys : xlock[k] # c /\ c \notin slock[k]
    BY ValuesAssumption
  <2> QED
    BY <2>1 DEF Owns, Lockless, Awaits, WritesDone, ReadHolds, Going
<1> QED
  BY <1>1, <1>2 DEF Orderly

\* Each step keeps the locks in order, as long as what is read is locked.
LEMMA OrderlyStep ==
  ASSUME Types, Locking, Orderly, NEW c \in Clients, StepOf(c)
  PROVE  Orderly'
<1>1. RowTypes /\ RowsMove(c) /\ Exclusive
  BY RowsMoves DEF Types, TypeOK, RowTypes, Table, Orderly
<1>2. Exclusive'
  BY <1>1, ExclusiveStep
<1>3. ASSUME NEW d \in Clients, d # c PROVE Owns(d)'
  BY <1>1, <1>3, OwnsOther DEF Orderly
<1>4. Owns(c)'
  <2>1. Owns(c)
    BY DEF Orderly
  <2> QED
    BY <2>1, BeginOwns, FindOwns, ModifyOwns, EndOwns, StatementOwns, FailOwns, RetryOwns
       DEF StepOf, Step
<1> QED
  BY <1>2, <1>3, <1>4 DEF Orderly

\* So does a step that changes nothing.
LEMMA OrderlyStutter ==
  ASSUME Orderly, UNCHANGED vars
  PROVE  Orderly'
<1>1. Exclusive'
  BY DEF Orderly, Exclusive, vars, locks
<1>2. ASSUME NEW c \in Clients PROVE Owns(c)'
  BY DEF Orderly, vars, locks, client, Owns, Lockless, Awaits, WritesDone, Written, ReadHolds,
         Done, KeyAt
<1> QED
  BY <1>1, <1>2 DEF Orderly

\* Each step is one of SerialRecords, or others see nothing of it.
LEMMA StepSerial ==
  ASSUME Types, Locking, Orderly, NEW c \in Clients, StepOf(c)
  PROVE  UNCHANGED Serial!svars \/ Serial!SNext
<1>0. Owns(c)
  BY DEF Orderly
<1>1. CASE Begin(c)
  BY <1>1 DEF Begin, Serial!svars
<1>2. CASE FindOne(c)
  BY <1>0, <1>2, FindSerial DEF Serial!SNext
<1>3. CASE ModifyOne(c)
  BY <1>0, <1>3, ModifyAffects DEF Serial!svars
<1>4. CASE Commit(c)
  BY <1>0, <1>4, CommitSerial DEF Serial!SNext
<1>5. CASE Rollback(c)
  BY <1>5 DEF Rollback, Undo, Serial!svars
<1>6. CASE Statement(c)
  BY <1>0, <1>6, StatementSerial DEF Serial!SNext
<1>7. CASE DeadlockVictim(c) \/ ConnectionBreaks(c)
  BY <1>0, <1>7, FailSerial DEF Serial!SNext
<1>8. CASE Retry(c)
  BY <1>8 DEF Retry, Answered, Serial!SNext, Serial!Keep
<1> QED
  BY <1>1, <1>2, <1>3, <1>4, <1>5, <1>6, <1>7, <1>8 DEF StepOf, Step

\* The invariant of the refinement.
Inv == Types /\ (Locking => Orderly)

\* Inv is an inductive invariant.
LEMMA Invariance == Spec => []Inv
<1>1. Init => Inv
  BY TypesInit, OrderlyInit DEF Inv
<1>2. Inv /\ [Next]_vars => Inv'
  <2> SUFFICES ASSUME Inv, [Next]_vars PROVE Inv'
    OBVIOUS
  <2>1. CASE UNCHANGED vars
    BY <2>1, TypesStutter, OrderlyStutter DEF Inv, Locking, vars
  <2>2. CASE Next
    <3>1. PICK c \in Clients : StepOf(c)
      BY <2>2 DEF Next, StepOf
    <3>2. Types' /\ job' = job
      BY <3>1, TypesStep, Moves DEF Inv, Moved
    <3>3. Locking' => Locking
      BY <3>2 DEF Locking
    <3> QED
      BY <3>1, <3>2, <3>3, OrderlyStep DEF Inv
  <2> QED
    BY <2>1, <2>2
<1> QED
  BY <1>1, <1>2, PTL DEF Spec

\* Calls whose transactions lock what FindOne reads, FOR UPDATE or in share
\* mode, are as good as one after the other: ModifyOne (sqlike/modify.go),
\* which writes all columns of the struct, loses no update of others.
THEOREM SerialCalls == Spec => SerialWhenLocked
<1>1. Inv /\ [Next]_vars => [Locking => UNCHANGED Serial!svars \/ Serial!SNext]_vars
  <2> SUFFICES ASSUME Inv, Next, Locking
               PROVE  UNCHANGED Serial!svars \/ Serial!SNext
    OBVIOUS
  <2>1. PICK c \in Clients : StepOf(c)
    BY DEF Next, StepOf
  <2> QED
    BY <2>1, StepSerial DEF Inv
<1> QED
  BY <1>1, Invariance, PTL DEF Spec, SerialWhenLocked
=============================================================================
