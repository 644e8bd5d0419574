--------------------------- MODULE SerialRecords ---------------------------
(* What the users of Records count on when they lock what they read: every  *)
(* call takes effect at one moment, on the rows as they are at that moment, *)
(* and its answer tells what it did; or it fails and does nothing.          *)

EXTENDS Naturals

CONSTANTS Clients, Absent, DefaultNote, NoNote, Nothing, Errors

VARIABLES rows, job, answer

svars == <<rows, job, answer>>

TableKeys == DOMAIN rows
Wanted(c) == {job[c].keys[i] : i \in DOMAIN job[c].keys}
There(c) == {k \in Wanted(c) : rows[k] # Absent}

\* The answer to a single statement may get lost.
Answered(c, a) ==
    \/ answer' = [answer EXCEPT ![c] = a]
    \/ /\ job[c].op # "Transaction"
       /\ answer' = [answer EXCEPT ![c] = "io error"]

Keep == UNCHANGED <<rows, job>>

\* Rewrite the rows of a set of keys.
Put(ks, new(_)) ==
    /\ rows' = [k \in TableKeys |-> IF k \in ks THEN new(k) ELSE rows[k]]
    /\ UNCHANGED job

Fail(c) == \E e \in Errors : Answered(c, e) /\ Keep

Increment(c) ==
    /\ job[c].op = "Transaction"
    /\ \/ /\ There(c) = Wanted(c)
          /\ Put(Wanted(c), LAMBDA k : [rows[k] EXCEPT !.n = @ + 1])
          /\ Answered(c, "nil")
       \/ There(c) # Wanted(c) /\ Answered(c, "ErrNoRows") /\ Keep

Update(c) ==
    /\ job[c].op = "UpdateOne"
    /\ \/ job[c].note = NoNote /\ Answered(c, "ErrNoValueUpdate") /\ Keep
       \/ /\ job[c].note # NoNote
          /\ \E k \in There(c) : rows[k].note # job[c].note
          /\ Put(There(c), LAMBDA k : [rows[k] EXCEPT !.note = job[c].note])
          /\ Answered(c, "1 row")
       \/ /\ job[c].note # NoNote
          /\ \A k \in There(c) : rows[k].note = job[c].note
          /\ Answered(c, "0 rows") /\ Keep

\* A record that is gone and one that has the values already get one answer.
Modify(c) ==
    LET new(k) == [n |-> 1, note |-> IF job[c].omit THEN rows[k].note ELSE job[c].note]
        changed == {k \in There(c) : rows[k] # new(k)}
    IN  /\ job[c].op = "ModifyOne"
        /\ Put(changed, new)
        /\ Answered(c, IF changed = {} /\ job[c].strict THEN "ErrNoRecordAffected" ELSE "nil")

Remove(c) ==
    /\ job[c].op \in {"DestroyOne", "DeleteOne"}
    /\ \/ Wanted(c) = {} /\ Answered(c, "empty condition") /\ Keep
       \/ /\ There(c) # {}
          /\ Put(There(c), LAMBDA k : Absent)
          /\ Answered(c, IF job[c].op = "DestroyOne" THEN "nil" ELSE "1 row")
       \/ /\ Wanted(c) # {} /\ There(c) = {}
          /\ Answered(c, IF job[c].op = "DestroyOne" THEN "unable to delete"
                         ELSE "0 rows")
          /\ Keep

New(c) == [n |-> 0, note |-> IF job[c].omit /\ job[c].mode # "on duplicate"
                             THEN DefaultNote ELSE job[c].note]

Insert(c) ==
    /\ job[c].op = "Insert"
    /\ \/ Wanted(c) = {} /\ Answered(c, "ErrInvalidInput") /\ Keep
       \/ /\ There(c) # {} /\ job[c].mode = "plain"
          /\ Answered(c, "duplicate key") /\ Keep
       \/ /\ Wanted(c) # {} /\ (There(c) = {} \/ job[c].mode = "ignore")
          /\ Put(Wanted(c) \ There(c), LAMBDA k : New(c))
          /\ Answered(c, "nil")
       \/ /\ There(c) # {} /\ job[c].mode = "on duplicate"
          /\ Put(Wanted(c),
                 LAMBDA k : IF k \in There(c) /\ job[c].omit
                            THEN [New(c) EXCEPT !.note = rows[k].note] ELSE New(c))
          /\ Answered(c, "nil")

SNext ==
    \E c \in Clients :
       \/ /\ answer[c] = Nothing
          /\ Fail(c) \/ Increment(c) \/ Update(c) \/ Modify(c) \/ Remove(c) \/ Insert(c)
       \/ answer[c] = "io error" /\ answer' = [answer EXCEPT ![c] = Nothing] /\ Keep
===========================================================================
