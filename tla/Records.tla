------------------------------ MODULE Records ------------------------------
(* The calls that write records (sqlike/insert.go, modify.go, update.go,    *)
(* delete.go) by concurrent clients: single statements, and transactions    *)
(* that read a record with FindOne, change it in memory and write all of it *)
(* back with ModifyOne. Row locks and the detection of deadlocks are those  *)
(* of InnoDB; a locking read of a row that is not there takes no lock here. *)

EXTENDS Naturals, Sequences, Functions

CONSTANTS
    Clients,      \* one call each
    Keys,         \* primary keys
    Jobs,         \* who may call what: a set of functions on Clients
    Notes,        \* values of a column that transactions do not mean to change
    DefaultNote,  \* its default
    NoNote,       \* an UpdateOne without values
    Absent,       \* no row
    Nobody,       \* no client
    Nothing,      \* no answer yet
    MaxFaults     \* bound: broken connections

Rows == [n : Nat, note : Notes]

\* A job: the call, its keys (a transaction goes through them once, in order), the
\* lock mode of its FindOne, the strictness of its ModifyOne, the mode of an
\* Insert and whether it omits the note, the note it writes.
ASSUME JobsAssumption ==
    \A j \in Jobs, c \in Clients :
       /\ j[c].keys \in Seq(Keys)
       /\ j[c].op = "Transaction" =>
             /\ j[c].keys # <<>> /\ IsInjective(j[c].keys)
             /\ j[c].lock \in {"NoLock", "LockForRead", "LockForUpdate"}
       /\ j[c].op = "Insert" => j[c].mode \in {"plain", "ignore", "on duplicate"}
       /\ j[c].note \in Notes \cup {NoNote}
       /\ j[c].op \in {"ModifyOne", "Insert"} => j[c].note \in Notes

VARIABLES
    committed,  \* the rows others see
    current,    \* the rows with the writes of open transactions
    xlock,      \* who has a row for himself
    slock,      \* who shares it
    job, pc, at,
    entity,     \* the struct that FindOne has decoded
    answer,
    faults

locks == <<xlock, slock>>
client == <<pc, at, entity, answer>>
vars == <<committed, current, locks, job, client, faults>>

Errors == {"deadlock", "io error"}
Answers == Errors \cup
    {"nil", "0 rows", "1 row", "ErrNoRows", "ErrNoRecordAffected", "ErrNoValueUpdate",
     "ErrInvalidInput", "duplicate key", "empty condition", "unable to delete"}

ASSUME ValuesAssumption ==
    /\ DefaultNote \in Notes /\ NoNote \notin Notes
    /\ Absent \notin Rows /\ Nobody \notin Clients /\ Nothing \notin Answers

TypeOK ==
    /\ committed \in [Keys -> Rows \cup {Absent}]
    /\ current \in [Keys -> Rows \cup {Absent}]
    /\ xlock \in [Keys -> Clients \cup {Nobody}]
    /\ slock \in [Keys -> SUBSET Clients]
    /\ job \in Jobs
    /\ pc \in [Clients -> {"start", "find", "modify", "commit", "rollback", "end"}]
    /\ at \in [Clients -> Nat \ {0}]
    /\ \A c \in Clients : at[c] <= Len(job[c].keys) \/ at[c] = 1
    /\ entity \in [Clients -> Rows \cup {Absent}]
    /\ answer \in [Clients -> Answers \cup {Nothing}]
    /\ \A k \in Keys : xlock[k] = Nobody => current[k] = committed[k]

Init ==
    /\ committed \in [Keys -> [n : {0}, note : {DefaultNote}] \cup {Absent}]
    /\ current = committed
    /\ xlock = [k \in Keys |-> Nobody] /\ slock = [k \in Keys |-> {}]
    /\ job \in Jobs
    /\ pc = [c \in Clients |-> "start"] /\ at = [c \in Clients |-> 1]
    /\ entity = [c \in Clients |-> Absent]
    /\ answer = [c \in Clients |-> Nothing]
    /\ faults = 0

Wanted(c) == {job[c].keys[i] : i \in DOMAIN job[c].keys}
Goto(c, place) == pc' = [pc EXCEPT ![c] = place]
Answered(c, a) == answer' = [answer EXCEPT ![c] = a]

-----------------------------------------------------------------------------
(* InnoDB *)

Writers(c, k) == {xlock[k]} \ {c, Nobody}
Sharers(c, k) == slock[k] \ {c}

TakeX(c, k) == xlock' = [xlock EXCEPT ![k] = c] /\ UNCHANGED slock
TakeS(c, k) == slock' = [slock EXCEPT ![k] = @ \cup {c}] /\ UNCHANGED xlock

Release(c) ==
    /\ xlock' = [k \in Keys |-> IF xlock[k] = c THEN Nobody ELSE xlock[k]]
    /\ slock' = [k \in Keys |-> slock[k] \ {c}]

\* The server undoes the transaction of a client, or makes it last.
Undo(c) ==
    /\ current' = [k \in Keys |-> IF xlock[k] = c THEN committed[k] ELSE current[k]]
    /\ Release(c)
    /\ UNCHANGED committed

Keep(c) ==
    /\ committed' = [k \in Keys |-> IF xlock[k] = c THEN current[k] ELSE committed[k]]
    /\ Release(c)
    /\ UNCHANGED current

-----------------------------------------------------------------------------
(* Transactions: FindOne, ModifyOne, and an error of either ends them       *)

KeyAt(c) == job[c].keys[at[c]]

Begin(c) ==
    /\ pc[c] = "start" /\ job[c].op = "Transaction"
    /\ Goto(c, "find")
    /\ UNCHANGED <<committed, current, locks, job, at, entity, answer, faults>>

\* Mutant: a share lock is not asked for.
LockOf_NoShare(mode) == IF mode = "LockForUpdate" THEN "X" ELSE "none"

\* MySQL.Select: FOR UPDATE, LOCK IN SHARE MODE or nothing.
LockOf(mode) ==
    CASE mode = "LockForUpdate" -> "X"
      [] mode = "LockForRead" -> "S"
      [] OTHER -> "none"

\* A read without a lock sees the committed row, and its own writes (a
\* transaction of several keys would see those of its first read).
Visible(c, k) == IF xlock[k] = c THEN current[k] ELSE committed[k]

FindBlockers(c) ==
    CASE LockOf(job[c].lock) = "X" -> Writers(c, KeyAt(c)) \cup Sharers(c, KeyAt(c))
      [] LockOf(job[c].lock) = "S" -> Writers(c, KeyAt(c))
      [] OTHER -> {}

FindOne(c) ==
    /\ pc[c] = "find" /\ FindBlockers(c) = {}
    /\ LET row == Visible(c, KeyAt(c)) IN
       \/ /\ row = Absent
          /\ Answered(c, "ErrNoRows") /\ Goto(c, "rollback")
          /\ UNCHANGED <<entity, locks>>
       \/ /\ row # Absent
          /\ entity' = [entity EXCEPT ![c] = row]
          /\ Goto(c, "modify")
          /\ CASE LockOf(job[c].lock) = "X" -> TakeX(c, KeyAt(c))
               [] LockOf(job[c].lock) = "S" -> TakeS(c, KeyAt(c))
               [] OTHER -> UNCHANGED locks
          /\ UNCHANGED answer
    /\ UNCHANGED <<committed, current, job, at, faults>>

ModifyBlockers(c) == Writers(c, KeyAt(c)) \cup Sharers(c, KeyAt(c))

\* UPDATE of all columns but the key. The server counts a row only if it
\* changes; unless NoStrict, a count of zero is an error.
Modified(c) == [entity[c] EXCEPT !.n = @ + 1]

ModifyOne(c) ==
    /\ pc[c] = "modify" /\ ModifyBlockers(c) = {}
    /\ LET row == current[KeyAt(c)]
           affected == row # Absent /\ row # Modified(c)
           last == at[c] = Len(job[c].keys)
       IN  /\ IF row = Absent THEN UNCHANGED <<current, locks>>
              ELSE /\ current' = [current EXCEPT ![KeyAt(c)] = Modified(c)]
                   /\ TakeX(c, KeyAt(c))
           /\ IF affected \/ ~job[c].strict
              THEN /\ at' = IF last THEN at ELSE [at EXCEPT ![c] = @ + 1]
                   /\ Goto(c, IF last THEN "commit" ELSE "find")
                   /\ UNCHANGED answer
              ELSE /\ Answered(c, "ErrNoRecordAffected") /\ Goto(c, "rollback")
                   /\ UNCHANGED at
    /\ UNCHANGED <<committed, job, entity, faults>>

Commit(c) ==
    /\ pc[c] = "commit"
    /\ Keep(c)
    /\ Answered(c, "nil") /\ Goto(c, "end")
    /\ UNCHANGED <<job, at, entity, faults>>

\* Mutant: an error of the callback leaves the transaction open.
Rollback_Never(c) ==
    /\ pc[c] = "rollback"
    /\ Goto(c, "end")
    /\ UNCHANGED <<committed, current, locks, job, at, entity, answer, faults>>

\* The deferred RollbackTransaction of RunInTransaction.
Rollback(c) ==
    /\ pc[c] = "rollback"
    /\ Undo(c) /\ Goto(c, "end")
    /\ UNCHANGED <<job, at, entity, answer, faults>>

-----------------------------------------------------------------------------
(* Single statements *)

Free(c) == \A k \in Wanted(c) : Writers(c, k) \cup Sharers(c, k) = {}

\* The connection may break when the server has done the statement.
Execute(new, a, c) ==
    /\ current' = new
    /\ committed' = [k \in Keys |-> IF k \in Wanted(c) THEN new[k] ELSE committed[k]]
    /\ \/ Answered(c, a) /\ UNCHANGED faults
       \/ faults < MaxFaults /\ Answered(c, "io error") /\ faults' = faults + 1

Refuse(a, c) == Answered(c, a) /\ UNCHANGED <<committed, current, faults>>

There(c) == {k \in Wanted(c) : current[k] # Absent}

UpdateOne(c) ==
    /\ job[c].op = "UpdateOne"
    /\ IF job[c].note = NoNote THEN Refuse("ErrNoValueUpdate", c)
       ELSE /\ Free(c)
            /\ LET new == [k \in Keys |-> IF k \in There(c)
                              THEN [current[k] EXCEPT !.note = job[c].note]
                              ELSE current[k]]
               IN  Execute(new, IF new = current THEN "0 rows" ELSE "1 row", c)

\* ModifyOne of a record that the client made itself: all columns but those
\* that are left out. A record that has these values already is not affected.
Given(c, row) == [n |-> 1, note |-> IF job[c].omit THEN row.note ELSE job[c].note]

ModifyAlone(c) ==
    /\ job[c].op = "ModifyOne" /\ Free(c)
    /\ LET new == [k \in Keys |-> IF k \in There(c) THEN Given(c, current[k]) ELSE current[k]]
       IN  Execute(new, IF job[c].strict /\ new = current THEN "ErrNoRecordAffected" ELSE "nil", c)

\* DestroyOne turns a count of zero into an error, DeleteOne returns it.
DeleteOne(c) ==
    /\ job[c].op \in {"DestroyOne", "DeleteOne"}
    /\ IF Wanted(c) = {} THEN Refuse("empty condition", c)
       ELSE /\ Free(c)
            /\ LET destroy == job[c].op = "DestroyOne"
               IN  Execute([k \in Keys |-> IF k \in There(c) THEN Absent ELSE current[k]],
                           IF There(c) # {} THEN IF destroy THEN "nil" ELSE "1 row"
                           ELSE IF destroy THEN "unable to delete" ELSE "0 rows", c)

\* The column is left out of the statement, or in the mode on duplicate only
\* out of the part behind ON DUPLICATE KEY UPDATE.
Inserted(c) == [n |-> 0, note |-> IF job[c].omit /\ job[c].mode # "on duplicate"
                                  THEN DefaultNote ELSE job[c].note]

Upserted(c, k) == [Inserted(c) EXCEPT !.note = IF job[c].omit THEN current[k].note ELSE @]

Insert(c) ==
    /\ job[c].op = "Insert"
    /\ \/ Wanted(c) = {} /\ Refuse("ErrInvalidInput", c)
       \/ /\ Wanted(c) # {} /\ Free(c)
          /\ IF job[c].mode = "plain" /\ There(c) # {} THEN Refuse("duplicate key", c)
             ELSE Execute([k \in Keys |->
                             CASE k \in Wanted(c) \ There(c) -> Inserted(c)
                               [] k \in There(c) /\ job[c].mode = "on duplicate"
                                    -> Upserted(c, k)
                               [] OTHER -> current[k]], "nil", c)

Statement(c) ==
    /\ pc[c] = "start"
    /\ UpdateOne(c) \/ ModifyAlone(c) \/ DeleteOne(c) \/ Insert(c)
    /\ Goto(c, "end")
    /\ UNCHANGED <<locks, job, at, entity>>

-----------------------------------------------------------------------------
(* What can go wrong *)

Blockers(c) ==
    CASE pc[c] = "find" -> FindBlockers(c)
      [] pc[c] = "modify" -> ModifyBlockers(c)
      [] OTHER -> {}

Stuck(S) == S # {} /\ \A c \in S : Blockers(c) \cap S # {}

\* InnoDB chooses one of the clients that wait for each other.
DeadlockVictim(c) ==
    /\ Blockers(c) # {}
    /\ \E S \in SUBSET Clients :
          c \in S /\ Stuck(S) /\ \A T \in SUBSET S : Stuck(T) => T = S
    /\ Undo(c)
    /\ Answered(c, "deadlock") /\ Goto(c, "rollback")
    /\ UNCHANGED <<job, at, entity, faults>>

ConnectionBreaks(c) ==
    /\ pc[c] \in {"find", "modify"} /\ faults < MaxFaults
    /\ Undo(c)
    /\ Answered(c, "io error") /\ Goto(c, "rollback")
    /\ faults' = faults + 1
    /\ UNCHANGED <<job, at, entity>>

\* A client calls again when the connection broke: the call may have been done.
Retry(c) ==
    /\ pc[c] = "end" /\ answer[c] = "io error"
    /\ Goto(c, "start") /\ Answered(c, Nothing)
    /\ at' = [at EXCEPT ![c] = 1] /\ entity' = [entity EXCEPT ![c] = Absent]
    /\ UNCHANGED <<committed, current, locks, job, faults>>

Step(c) ==
    Begin(c) \/ FindOne(c) \/ ModifyOne(c) \/ Commit(c) \/ Rollback(c) \/ Statement(c)

Next == \E c \in Clients : Step(c) \/ DeadlockVictim(c) \/ ConnectionBreaks(c) \/ Retry(c)

Spec == Init /\ [][Next]_vars

\* Clients go on with their calls, and the server breaks deadlocks.
FairSpec == Spec /\ \A c \in Clients : WF_vars(Step(c)) /\ WF_vars(DeadlockVictim(c))

-----------------------------------------------------------------------------
(* Properties *)

\* With the lock modes of sqlike, whichever of the two, concurrent calls are
\* as good as one after the other: ModifyOne, although it writes back every
\* column of a struct read before, loses no update of other clients, and the
\* answers fit that order.
Serial == INSTANCE SerialRecords WITH rows <- committed

Locking == \A c \in Clients : job[c].op = "Transaction" => job[c].lock # "NoLock"

SerialWhenLocked ==
    [][Locking => UNCHANGED Serial!svars \/ Serial!SNext]_vars

\* Everybody gets an answer, to a call that is made again as well: no lock is
\* left behind by a call that failed.
EverybodyEnds == \A c \in Clients : []<>(pc[c] = "end")
===========================================================================
