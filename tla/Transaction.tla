--------------------------- MODULE Transaction ---------------------------
(* Database.RunInTransaction, Database.BeginTransaction and the            *)
(* Transaction they hand out (sqlike/database.go, sqlike/transaction.go),  *)
(* over the database/sql pool and a MySQL server.                          *)
(*                                                                         *)
(* A session is one goroutine that makes one call: a Managed session calls *)
(* RunInTransaction, a Manual one calls BeginTransaction and then commits, *)
(* rolls back or forgets. Three parties race over a transaction: the       *)
(* session, its context (deadline or caller), and the goroutine that       *)
(* database/sql starts to roll the transaction back when the context ends. *)

EXTENDS Naturals

CONSTANTS
    Managed,    \* sessions that call RunInTransaction
    Manual,     \* sessions that call BeginTransaction
    Conns,      \* the connections the pool may open
    NoConn,     \* the absent connection
    MaxStmts    \* bound: statements one callback executes

ASSUME KindAssumption == Managed \cap Manual = {}
ASSUME ConnAssumption == NoConn \notin Conns
ASSUME StmtsAssumption == MaxStmts \in Nat

Sessions == Managed \cup Manual

VARIABLES
    pc,       \* where the session's goroutine is
    ctx,      \* the context of the transaction
    done,     \* sql.Tx.done: someone has won the right to finish it
    dc,       \* sql.Tx.dc: the connection of the transaction
    closed,   \* sql.Tx.close has run: dc went back to the pool
    watcher,  \* the goroutine sql.Tx.awaitDone
    aux,      \* a second connection, for a call on db inside the callback
    idle,     \* the connections the pool can hand out
    server,   \* the transaction as the server sees it
    sent,     \* statements the server has acknowledged inside the session
    store,    \* how many of their writes everyone can see
    result    \* what Commit or RunInTransaction answers

sessionVars == <<pc, ctx, aux, result>>
txVars      == <<done, dc, closed, watcher, idle>>
serverVars  == <<server, sent, store>>
vars == <<sessionVars, txVars, serverVars>>

PCs == {"start", "acquire", "begin", "callback", "auxwait", "auxcall",
        "commit", "cas", "committing", "acking", "rollback", "rolling",
        "return", "end"}
Contexts == {"live", "over"}
Watchers == {"off", "waiting", "rolling", "ended"}
Servers  == {"none", "open", "victim", "dead", "committed", "rolledback"}
Results  == {"none", "nil", "callback error", "panic", "begin error",
             "context error", "ErrTxDone", "driver error"}

\* Answers after which the caller may rely on nothing having happened.
Refusals == Results \ {"none", "nil", "driver error"}

TypeOK ==
    /\ pc \in [Sessions -> PCs]
    /\ ctx \in [Sessions -> Contexts]
    /\ done \in [Sessions -> BOOLEAN]
    /\ dc \in [Sessions -> Conns \cup {NoConn}]
    /\ closed \in [Sessions -> BOOLEAN]
    /\ watcher \in [Sessions -> Watchers]
    /\ aux \in [Sessions -> Conns \cup {NoConn}]
    /\ idle \in SUBSET Conns
    /\ server \in [Sessions -> Servers]
    /\ sent \in [Sessions -> 0..MaxStmts]
    /\ store \in [Sessions -> Nat]
    /\ result \in [Sessions -> Results]

Init ==
    /\ pc = [s \in Sessions |-> "start"]
    /\ ctx = [s \in Sessions |-> "live"]
    /\ done = [s \in Sessions |-> FALSE]
    /\ dc = [s \in Sessions |-> NoConn]
    /\ closed = [s \in Sessions |-> FALSE]
    /\ watcher = [s \in Sessions |-> "off"]
    /\ aux = [s \in Sessions |-> NoConn]
    /\ idle = Conns
    /\ server = [s \in Sessions |-> "none"]
    /\ sent = [s \in Sessions |-> 0]
    /\ store = [s \in Sessions |-> 0]
    /\ result = [s \in Sessions |-> "none"]

-----------------------------------------------------------------------------
(* Parts of steps *)

Goto(s, place) == pc' = [pc EXCEPT ![s] = place]

Reply(s, answer) == result' = [result EXCEPT ![s] = answer]

\* sql.Tx.close: the connection goes back to the pool.
Close(s) ==
    /\ closed' = [closed EXCEPT ![s] = TRUE]
    /\ idle' = idle \cup {dc[s]}

\* Mutant: RunInTransaction defers no rollback.
AfterCommit_NoDefer(s) == "return"

\* RunInTransaction has deferred tx.RollbackTransaction(); the user of
\* BeginTransaction has deferred nothing.
AfterCommit(s) == IF s \in Managed THEN "rollback" ELSE "return"

\* ROLLBACK on the connection, or the server noticing that it is gone.
ServerRollback(s) ==
    /\ server' = [server EXCEPT ![s] =
                     IF @ \in {"open", "dead"} THEN "rolledback" ELSE @]
    /\ UNCHANGED <<sent, store>>

-----------------------------------------------------------------------------
(* Starting a transaction *)

\* RunInTransaction derives its context from the caller's with a timeout;
\* BeginTransaction uses the caller's.
Start(s) ==
    /\ pc[s] = "start"
    /\ Goto(s, "acquire")
    /\ UNCHANGED <<ctx, aux, result, txVars, serverVars>>

\* Mutant: RunInTransaction passes the caller's context on, without timeout.
ContextEnds_NoTimeout(s) ==
    /\ s \in Manual /\ pc[s] # "start" /\ ctx[s] = "live"
    /\ ctx' = [ctx EXCEPT ![s] = "over"]
    /\ UNCHANGED <<pc, aux, result, txVars, serverVars>>

\* The context ends: the timeout of RunInTransaction fires or the caller
\* cancels.
ContextEnds(s) ==
    /\ pc[s] # "start"
    /\ ctx[s] = "live"
    /\ ctx' = [ctx EXCEPT ![s] = "over"]
    /\ UNCHANGED <<pc, aux, result, txVars, serverVars>>

\* sql.DB.conn: a connection, if the context is still alive ...
GetConn(s) ==
    /\ pc[s] = "acquire" /\ ctx[s] = "live"
    /\ \E c \in idle :
          /\ dc' = [dc EXCEPT ![s] = c]
          /\ idle' = idle \ {c}
    /\ Goto(s, "begin")
    /\ UNCHANGED <<ctx, aux, result, done, closed, watcher, serverVars>>

\* Mutant: the error path hands back a connection it never got.
AcquireAborted_Releases(s) ==
    /\ pc[s] = "acquire" /\ ctx[s] = "over"
    /\ Close(s)
    /\ Reply(s, "context error")
    /\ Goto(s, "return")
    /\ UNCHANGED <<ctx, aux, done, dc, watcher, serverVars>>

\* Mutant: beginTrans is not given the context with the timeout.
AcquireAborted_Deaf(s) ==
    /\ s \in Manual /\ pc[s] = "acquire" /\ ctx[s] = "over"
    /\ Reply(s, "context error")
    /\ Goto(s, "return")
    /\ UNCHANGED <<ctx, aux, txVars, serverVars>>

\* ... or, once it is over, its error. Nothing has been deferred yet but
\* cancel().
AcquireAborted(s) ==
    /\ pc[s] = "acquire" /\ ctx[s] = "over"
    /\ Reply(s, "context error")
    /\ Goto(s, "return")
    /\ UNCHANGED <<ctx, aux, txVars, serverVars>>

\* beginTrans with an answer: the Transaction is made and database/sql
\* starts its watcher.
beginTrans(s) ==
    /\ pc[s] = "begin"
    /\ server' = [server EXCEPT ![s] = "open"]
    /\ watcher' = [watcher EXCEPT ![s] = "waiting"]
    /\ Goto(s, "callback")
    /\ UNCHANGED <<ctx, aux, result, done, dc, closed, idle, sent, store>>

\* beginTrans with an error: the connection goes back.
BeginFails(s) ==
    /\ pc[s] = "begin"
    /\ Close(s)
    /\ Reply(s, "begin error")
    /\ Goto(s, "return")
    /\ UNCHANGED <<ctx, aux, done, dc, watcher, serverVars>>

-----------------------------------------------------------------------------
(* The callback, or the code after BeginTransaction *)

\* A writing statement through the Transaction. database/sql refuses it once
\* the transaction is done. A deadlock victim whose error the callback
\* swallowed is no longer in a transaction: its writes are seen at once.
Exec(s) ==
    /\ pc[s] = "callback" /\ ~done[s]
    /\ server[s] \in {"open", "victim"} /\ sent[s] < MaxStmts
    /\ sent' = [sent EXCEPT ![s] = @ + 1]
    /\ store' = IF server[s] = "victim"
                THEN [store EXCEPT ![s] = @ + 1] ELSE store
    /\ UNCHANGED <<sessionVars, txVars, server>>

\* A statement answered by MySQL's deadlock error: the server has rolled the
\* whole transaction back and the connection stays usable.
DeadlockVictim(s) ==
    /\ pc[s] = "callback" /\ ~done[s] /\ server[s] = "open"
    /\ server' = [server EXCEPT ![s] = "victim"]
    /\ UNCHANGED <<sessionVars, txVars, sent, store>>

\* The connection breaks under an open transaction.
ConnectionBreaks(s) ==
    /\ pc[s] = "callback" /\ ~done[s] /\ server[s] = "open"
    /\ server' = [server EXCEPT ![s] = "dead"]
    /\ UNCHANGED <<sessionVars, txVars, sent, store>>

\* A call on db, with the transaction as its context, inside the callback:
\* it needs a connection of its own.
CallDB(s) ==
    /\ pc[s] = "callback"
    /\ Goto(s, "auxwait")
    /\ UNCHANGED <<ctx, aux, result, txVars, serverVars>>

GetAux(s) ==
    /\ pc[s] = "auxwait" /\ ctx[s] = "live"
    /\ \E c \in idle :
          /\ aux' = [aux EXCEPT ![s] = c]
          /\ idle' = idle \ {c}
    /\ Goto(s, "auxcall")
    /\ UNCHANGED <<ctx, result, done, dc, closed, watcher, serverVars>>

AuxAborted(s) ==
    /\ pc[s] = "auxwait" /\ ctx[s] = "over"
    /\ Goto(s, "callback")
    /\ UNCHANGED <<ctx, aux, result, txVars, serverVars>>

AuxReturns(s) ==
    /\ pc[s] = "auxcall"
    /\ idle' = idle \cup {aux[s]}
    /\ aux' = [aux EXCEPT ![s] = NoConn]
    /\ Goto(s, "callback")
    /\ UNCHANGED <<ctx, result, done, dc, closed, watcher, serverVars>>

\* cb(tx) returned nil, or the user calls CommitTransaction.
CallbackReturnsNil(s) ==
    /\ pc[s] = "callback"
    /\ Goto(s, "commit")
    /\ UNCHANGED <<ctx, aux, result, txVars, serverVars>>

\* Mutant: the callback's error is noted and the commit made all the same.
CallbackFails_Commits(s) ==
    /\ pc[s] = "callback"
    /\ \E how \in {"callback error", "panic"} : Reply(s, how)
    /\ Goto(s, "commit")
    /\ UNCHANGED <<ctx, aux, txVars, serverVars>>

\* cb(tx) returned an error or panicked, or the user calls
\* RollbackTransaction: the deferred rollback is all that is left.
CallbackFails(s) ==
    /\ pc[s] = "callback"
    /\ \E how \in {"callback error", "panic"} : Reply(s, how)
    /\ Goto(s, "rollback")
    /\ UNCHANGED <<ctx, aux, txVars, serverVars>>

-----------------------------------------------------------------------------
(* CommitTransaction: sql.Tx.Commit looks at the context, then takes done *)

CommitTransaction(s) ==
    /\ pc[s] = "commit"
    /\ IF ctx[s] = "live"
       THEN Goto(s, "cas") /\ UNCHANGED result
       ELSE /\ Reply(s, IF done[s] THEN "ErrTxDone" ELSE "context error")
            /\ Goto(s, AfterCommit(s))
    /\ UNCHANGED <<ctx, aux, txVars, serverVars>>

\* Mutant: Commit does not take done, so the watcher may still roll back.
CommitCas_NotTaken(s) ==
    /\ pc[s] = "cas"
    /\ \/ /\ done[s]
          /\ Reply(s, "ErrTxDone")
          /\ Goto(s, AfterCommit(s))
       \/ ~done[s] /\ Goto(s, "committing") /\ UNCHANGED result
    /\ UNCHANGED <<ctx, aux, txVars, serverVars>>

CommitCas(s) ==
    /\ pc[s] = "cas"
    /\ \/ /\ done[s]
          /\ Reply(s, "ErrTxDone")
          /\ Goto(s, AfterCommit(s))
          /\ UNCHANGED done
       \/ /\ ~done[s]
          /\ done' = [done EXCEPT ![s] = TRUE]
          /\ Goto(s, "committing")
          /\ UNCHANGED result
    /\ UNCHANGED <<ctx, aux, dc, closed, watcher, idle, serverVars>>

\* The server executes COMMIT; for a deadlock victim there is nothing left
\* to commit, and no error.
ServerCommits(s) ==
    /\ pc[s] = "committing" /\ server[s] \in {"open", "victim"}
    /\ IF server[s] = "open"
       THEN /\ server' = [server EXCEPT ![s] = "committed"]
            /\ store' = [store EXCEPT ![s] = sent[s]]
       ELSE UNCHANGED <<server, store>>
    /\ Goto(s, "acking")
    /\ UNCHANGED <<ctx, aux, result, txVars, sent>>

CommitAcked(s) ==
    /\ pc[s] = "acking"
    /\ Close(s)
    /\ Reply(s, "nil")
    /\ Goto(s, AfterCommit(s))
    /\ UNCHANGED <<ctx, aux, done, dc, watcher, serverVars>>

\* Mutant: the error of the driver is dropped.
CommitLost_Ignored(s) ==
    /\ pc[s] \in {"committing", "acking"}
    /\ Close(s)
    /\ Reply(s, "nil")
    /\ Goto(s, AfterCommit(s))
    /\ UNCHANGED <<ctx, aux, done, dc, watcher, serverVars>>

\* Mutant: every error of Commit is reported as a timeout.
CommitLost_AsTimeout(s) ==
    /\ pc[s] \in {"committing", "acking"}
    /\ Close(s)
    /\ Reply(s, "context error")
    /\ Goto(s, AfterCommit(s))
    /\ UNCHANGED <<ctx, aux, done, dc, watcher, serverVars>>

\* The driver gives up on COMMIT: the connection was dead, or its answer was
\* lost, before or after the server executed it.
CommitLost(s) ==
    /\ pc[s] \in {"committing", "acking"}
    /\ Close(s)
    /\ Reply(s, "driver error")
    /\ Goto(s, AfterCommit(s))
    /\ UNCHANGED <<ctx, aux, done, dc, watcher, serverVars>>

\* A COMMIT whose connection was given up: the server still executes it, or
\* notices that the connection is gone.
ServerResolves(s) ==
    /\ result[s] = "driver error"
    /\ \/ /\ server[s] = "open"
          /\ server' = [server EXCEPT ![s] = "committed"]
          /\ store' = [store EXCEPT ![s] = sent[s]]
       \/ /\ server[s] \in {"open", "dead"}
          /\ server' = [server EXCEPT ![s] = "rolledback"]
          /\ UNCHANGED store
    /\ UNCHANGED <<sessionVars, txVars, sent>>

-----------------------------------------------------------------------------
(* RollbackTransaction, deferred or called, and the end of the call *)

\* Mutant: the deferred rollback does not look whether the transaction is done.
RollbackTransaction_Always(s) ==
    /\ pc[s] = "rollback"
    /\ done' = [done EXCEPT ![s] = TRUE]
    /\ Goto(s, "rolling")
    /\ UNCHANGED <<ctx, aux, result, dc, closed, watcher, idle, serverVars>>

RollbackTransaction(s) ==
    /\ pc[s] = "rollback"
    /\ \/ done[s] /\ Goto(s, "return") /\ UNCHANGED done
       \/ /\ ~done[s]
          /\ done' = [done EXCEPT ![s] = TRUE]
          /\ Goto(s, "rolling")
    /\ UNCHANGED <<ctx, aux, result, dc, closed, watcher, idle, serverVars>>

RollbackReturns(s) ==
    /\ pc[s] = "rolling"
    /\ ServerRollback(s)
    /\ Close(s)
    /\ Goto(s, "return")
    /\ UNCHANGED <<ctx, aux, result, done, dc, watcher>>

\* The call returns; RunInTransaction runs its deferred cancel().
Return(s) ==
    /\ pc[s] = "return"
    /\ ctx' = IF s \in Managed THEN [ctx EXCEPT ![s] = "over"] ELSE ctx
    /\ Goto(s, "end")
    /\ UNCHANGED <<aux, result, txVars, serverVars>>

\* The user of BeginTransaction forgets the transaction.
Forget(s) ==
    /\ s \in Manual /\ pc[s] = "callback"
    /\ Goto(s, "end")
    /\ UNCHANGED <<ctx, aux, result, txVars, serverVars>>

\* sql.Tx.awaitDone: when the context is over, or Commit or Rollback has
\* ended the transaction's own, the watcher tries to roll back.
WatcherWakes(s) ==
    /\ watcher[s] = "waiting"
    /\ \/ /\ done[s]
          /\ watcher' = [watcher EXCEPT ![s] = "ended"]
          /\ UNCHANGED done
       \/ /\ ~done[s] /\ ctx[s] = "over"
          /\ done' = [done EXCEPT ![s] = TRUE]
          /\ watcher' = [watcher EXCEPT ![s] = "rolling"]
    /\ UNCHANGED <<sessionVars, dc, closed, idle, serverVars>>

WatcherRollsBack(s) ==
    /\ watcher[s] = "rolling"
    /\ ServerRollback(s)
    /\ Close(s)
    /\ watcher' = [watcher EXCEPT ![s] = "ended"]
    /\ UNCHANGED <<sessionVars, done, dc>>

-----------------------------------------------------------------------------
\* What the user's code and the environment do, and nobody owes anyone.
Environment(s) ==
    \/ Start(s) \/ Exec(s) \/ DeadlockVictim(s) \/ ConnectionBreaks(s)
    \/ CallDB(s) \/ ServerResolves(s) \/ Forget(s)

\* What the callback does to come back.
CallbackEnds(s) == CallbackReturnsNil(s) \/ CallbackFails(s)

\* What the goroutine does inside sqlike, database/sql and the driver.
Library(s) ==
    \/ GetConn(s) \/ AcquireAborted(s) \/ beginTrans(s) \/ BeginFails(s)
    \/ GetAux(s) \/ AuxAborted(s) \/ AuxReturns(s)
    \/ CommitTransaction(s) \/ CommitCas(s) \/ ServerCommits(s)
    \/ CommitAcked(s) \/ CommitLost(s)
    \/ RollbackTransaction(s) \/ RollbackReturns(s) \/ Return(s)

Watch(s) == WatcherWakes(s) \/ WatcherRollsBack(s)

Next == \E s \in Sessions :
          Environment(s) \/ ContextEnds(s) \/ CallbackEnds(s) \/ Library(s)
          \/ Watch(s)

Spec == Init /\ [][Next]_vars

\* The scheduler runs every goroutine that is not blocked, and a timeout
\* fires. Only the context of RunInTransaction has a timeout.
LibraryFairness ==
    /\ \A s \in Sessions : WF_vars(Library(s)) /\ WF_vars(Watch(s))
    /\ \A s \in Managed : WF_vars(ContextEnds(s))

\* The callback may never come back.
LibrarySpec == Spec /\ LibraryFairness

\* The callback comes back sooner or later. It need not do so between two
\* calls on db, so the fairness is strong.
CallbacksReturn == \A s \in Managed : SF_vars(CallbackEnds(s))

-----------------------------------------------------------------------------
(* Properties *)

Held(s) == dc[s] # NoConn /\ ~closed[s]

\* Every connection of the pool is in exactly one place: idle, with one
\* transaction, or with one call on db. Commit, the deferred rollback and
\* the watcher race to hand a transaction's connection back; handing it back
\* twice would put two transactions on one connection.
ConnectionsConserved ==
    /\ \A s, t \in Sessions :
          /\ Held(s) /\ Held(t) /\ s # t => dc[s] # dc[t]
          /\ aux[s] # NoConn /\ s # t => aux[s] # aux[t]
          /\ Held(s) => dc[s] # aux[t]
    /\ \A s \in Sessions : Held(s) => dc[s] \notin idle
    /\ \A s \in Sessions : aux[s] \notin idle
    /\ \A c \in Conns : \/ c \in idle
                         \/ \E s \in Sessions : aux[s] = c \/ (Held(s) /\ dc[s] = c)

\* At most one party is sending COMMIT or ROLLBACK on a transaction, and it
\* still has the connection.
OneFinisher ==
    \A s \in Sessions :
       LET session == pc[s] \in {"committing", "acking", "rolling"}
           watch   == watcher[s] = "rolling"
       IN  /\ ~(session /\ watch)
           /\ session \/ watch => Held(s)

\* A nil answer is given only for work everyone can see: whatever the
\* deadline did meanwhile, RunInTransaction never reports a rolled back
\* transaction as a success.
NilMeansCommitted ==
    \A s \in Sessions :
       result[s] = "nil" /\ server[s] # "victim"
          => server[s] = "committed" /\ store[s] = sent[s]

\* After any answer but nil and a driver error, none of the callback's writes
\* is ever visible: an error or a panic of the callback, and a timeout
\* wherever it strikes, leave nothing behind.
RefusalMeansNothing ==
    \A s \in Sessions :
       result[s] \in Refusals /\ server[s] # "victim" => store[s] = 0

\* When RunInTransaction returns, its transaction is finished: a Transaction
\* that leaked out of the callback can no longer write.
ReturnsFinished ==
    \A s \in Managed :
       pc[s] = "end" /\ watcher[s] # "off" => done[s]

\* Every transaction of RunInTransaction gives its connection back, even if
\* its callback never returns: the deadline sees to it.
ConnectionReturned == \A s \in Managed : Held(s) ~> ~Held(s)

\* RunInTransaction returns if its callback does, even if other users of the
\* pool keep every connection for ever, and even if its callback asks the
\* exhausted pool for a second one.
RunReturns ==
    CallbacksReturn => \A s \in Managed : pc[s] = "acquire" ~> pc[s] = "end"

\* The promise to the caller, in the terms of AtomicTx.
AOutcome(s) ==
    CASE server[s] = "committed" -> "committed"
      [] server[s] = "victim" -> "forfeited"
      [] server[s] = "rolledback" \/
            (server[s] \in {"none", "open", "dead"} /\ result[s] \in Refusals)
           -> "aborted"
      [] OTHER -> "pending"

AReply(s) ==
    CASE result[s] = "none" -> "none"
      [] result[s] = "nil" -> "ok"
      [] result[s] = "driver error" -> "unknown"
      [] OTHER -> "failed"

Abstract == INSTANCE AtomicTx WITH
               outcome <- [s \in Sessions |-> AOutcome(s)],
               reply <- [s \in Sessions |-> AReply(s)]

\* Transactions implement AtomicTx: one decision, one answer that agrees
\* with it, and no commit after a refusal.
ImplementsAtomicTx == Abstract!ASpec
-----------------------------------------------------------------------------
(* Why the safety properties hold: what is true of a session at each point  *)
(* of its life, whatever the order of its race with the watcher.            *)

\* Before the Transaction exists.
NotBegun(s) ==
    pc[s] \in {"start", "acquire", "begin"} =>
       /\ watcher[s] = "off" /\ ~done[s] /\ ~closed[s]
       /\ result[s] = "none" /\ (dc[s] # NoConn <=> pc[s] = "begin")

\* No watcher, no transaction.
NoTransaction(s) ==
    watcher[s] = "off" =>
       /\ server[s] = "none" /\ sent[s] = 0 /\ store[s] = 0 /\ ~done[s]
       /\ pc[s] \in {"start", "acquire", "begin", "return", "end"}
       /\ pc[s] \in {"return", "end"} =>
             /\ result[s] \in {"begin error", "context error"}
             /\ ~Held(s)

\* A transaction nobody has won the right to finish.
Unfinished(s) ==
    watcher[s] # "off" /\ ~done[s] =>
       /\ watcher[s] = "waiting" /\ Held(s)
       /\ server[s] \in {"open", "victim", "dead"}
       /\ result[s] \notin {"nil", "driver error"}
       /\ pc[s] \notin {"committing", "acking", "rolling"}
       /\ s \in Managed => pc[s] \notin {"return", "end"}

\* A transaction one party is finishing.
Finishing(s) ==
    /\ pc[s] \in {"committing", "acking", "rolling"} =>
          /\ watcher[s] \in {"waiting", "ended"} /\ done[s] /\ Held(s)
          /\ pc[s] = "acking" => server[s] \in {"committed", "victim"}
          /\ pc[s] # "acking" => server[s] \in {"open", "victim", "dead"}
    /\ watcher[s] = "rolling" =>
          /\ done[s] /\ Held(s) /\ result[s] \notin {"nil", "driver error"}
          /\ pc[s] \notin {"committing", "acking", "rolling"}
          /\ server[s] \in {"open", "victim", "dead"}

\* The answer, against where the session is and what the server did.
Answered(s) ==
    /\ pc[s] \in {"callback", "auxwait", "auxcall", "commit", "cas",
                   "committing", "acking"} => result[s] = "none"
    /\ pc[s] \in {"rollback", "rolling"} => result[s] # "none"
    /\ pc[s] = "rolling" => result[s] \in Refusals
    /\ result[s] = "nil" => done[s] /\ server[s] \in {"committed", "victim"}
    /\ result[s] = "driver error" => done[s]
    /\ server[s] = "committed" =>
          /\ store[s] = sent[s] /\ done[s]
          /\ pc[s] = "acking" \/ result[s] \in {"nil", "driver error"}
    /\ server[s] \notin {"committed", "victim"} => store[s] = 0

Lifecycle(s) ==
    /\ NotBegun(s) /\ NoTransaction(s) /\ Unfinished(s)
    /\ Finishing(s) /\ Answered(s)
    /\ aux[s] # NoConn <=> pc[s] = "auxcall"

IInv == TypeOK /\ (\A s \in Sessions : Lifecycle(s)) /\ ConnectionsConserved
=============================================================================
