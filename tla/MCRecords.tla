---------------------------- MODULE MCRecords ----------------------------
(* Instances of Records for TLC: three clients, two keys. *)
EXTENDS Records, TLC

CONSTANTS c1, c2, c3, empty, edited

MCClients == {c1, c2, c3}
MCKeys == 1..2
MCNotes == {empty, edited}

Call == [op |-> "", keys |-> <<1>>, lock |-> "NoLock", strict |-> TRUE,
         mode |-> "plain", omit |-> FALSE, note |-> edited]

Transaction(ks, mode) ==
    [Call EXCEPT !.op = "Transaction", !.keys = ks, !.lock = mode]

MCCalls ==
    <<Transaction(<<1, 2>>, "LockForUpdate"), Transaction(<<2, 1>>, "LockForUpdate"),
     Transaction(<<1>>, "NoLock"),
     [Transaction(<<1>>, "LockForRead") EXCEPT !.strict = FALSE],
     [Call EXCEPT !.op = "UpdateOne"],
     [Call EXCEPT !.op = "UpdateOne", !.note = NoNote],
     [Call EXCEPT !.op = "ModifyOne", !.note = empty],
     [Call EXCEPT !.op = "ModifyOne", !.omit = TRUE, !.strict = FALSE],
     [Call EXCEPT !.op = "DestroyOne"], [Call EXCEPT !.op = "DeleteOne"],
     [Call EXCEPT !.op = "DeleteOne", !.keys = <<>>],
     [Call EXCEPT !.op = "Insert", !.keys = <<1, 2>>],
     [Call EXCEPT !.op = "Insert", !.mode = "ignore", !.omit = TRUE],
     [Call EXCEPT !.op = "Insert", !.mode = "on duplicate"],
     [Call EXCEPT !.op = "Insert", !.mode = "on duplicate", !.omit = TRUE],
     [Call EXCEPT !.op = "Insert", !.keys = <<>>]>>

\* Clients are interchangeable: every three calls, once.
MCJobs ==
    {c1 :> MCCalls[t[1]] @@ c2 :> MCCalls[t[2]] @@ c3 :> MCCalls[t[3]] :
       t \in {u \in (1..Len(MCCalls)) \X (1..Len(MCCalls)) \X (1..Len(MCCalls)) :
               u[1] <= u[2] /\ u[2] <= u[3]}}
==========================================================================
