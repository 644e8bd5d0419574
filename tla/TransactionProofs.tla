------------------------- MODULE TransactionProofs -------------------------
(* The safety properties of Transaction, for any number of sessions,       *)
(* connections and statements.                                             *)
(*                                                                         *)
(* The invariant is IInv: the types, Lifecycle of every session, and       *)
(* ConnectionsConserved. A step is a step of one session s. TypeStep,      *)
(* LifecycleStep and ConnectionsStep show that it keeps each part; for the *)
(* other sessions Lifecycle only reads what the step leaves alone          *)
(* (StepFrame).                                                            *)

EXTENDS Transaction, TLAPS

Step(s) == \/ Environment(s) \/ ContextEnds(s) \/ CallbackEnds(s)
           \/ Library(s) \/ Watch(s)

Same(t) ==
    /\ pc'[t] = pc[t] /\ ctx'[t] = ctx[t] /\ done'[t] = done[t]
    /\ dc'[t] = dc[t] /\ closed'[t] = closed[t] /\ watcher'[t] = watcher[t]
    /\ aux'[t] = aux[t] /\ server'[t] = server[t] /\ sent'[t] = sent[t]
    /\ store'[t] = store[t] /\ result'[t] = result[t]

-----------------------------------------------------------------------------
\* A step of one session leaves every variable of the others alone.
LEMMA StepFrame ==
  ASSUME IInv, NEW s \in Sessions, Step(s), NEW t \in Sessions, t # s
  PROVE  Same(t)
<1> USE DEF IInv, TypeOK, Same, sessionVars, txVars, serverVars
<1>1. CASE Start(s)
  BY <1>1 DEF Start, Goto
<1>2. CASE ContextEnds(s)
  BY <1>2 DEF ContextEnds
<1>3. CASE GetConn(s)
  BY <1>3 DEF GetConn, Goto
<1>4. CASE AcquireAborted(s)
  BY <1>4 DEF AcquireAborted, Goto, Reply
<1>5. CASE beginTrans(s)
  BY <1>5 DEF beginTrans, Goto
<1>6. CASE BeginFails(s)
  BY <1>6 DEF BeginFails, Goto, Reply, Close
<1>7. CASE Exec(s)
  BY <1>7 DEF Exec
<1>8. CASE DeadlockVictim(s)
  BY <1>8 DEF DeadlockVictim
<1>9. CASE ConnectionBreaks(s)
  BY <1>9 DEF ConnectionBreaks
<1>10. CASE CallDB(s)
  BY <1>10 DEF CallDB, Goto
<1>11. CASE GetAux(s)
  BY <1>11 DEF GetAux, Goto
<1>12. CASE AuxAborted(s)
  BY <1>12 DEF AuxAborted, Goto
<1>13. CASE AuxReturns(s)
  BY <1>13 DEF AuxReturns, Goto
<1>14. CASE CallbackReturnsNil(s)
  BY <1>14 DEF CallbackReturnsNil, Goto
<1>15. CASE CallbackFails(s)
  BY <1>15 DEF CallbackFails, Goto, Reply
<1>16. CASE CommitTransaction(s)
  BY <1>16 DEF CommitTransaction, Goto, Reply
<1>17. CASE CommitCas(s)
  BY <1>17 DEF CommitCas, Goto, Reply
<1>18. CASE ServerCommits(s)
  BY <1>18 DEF ServerCommits, Goto
<1>19. CASE CommitAcked(s)
  BY <1>19 DEF CommitAcked, Goto, Reply, Close
<1>20. CASE CommitLost(s)
  BY <1>20 DEF CommitLost, Goto, Reply, Close
<1>21. CASE ServerResolves(s)
  BY <1>21 DEF ServerResolves
<1>22. CASE RollbackTransaction(s)
  BY <1>22 DEF RollbackTransaction, Goto
<1>23. CASE RollbackReturns(s)
  BY <1>23 DEF RollbackReturns, Goto, Close, ServerRollback
<1>24. CASE Return(s)
  BY <1>24 DEF Return, Goto
<1>25. CASE Forget(s)
  BY <1>25 DEF Forget, Goto
<1>26. CASE WatcherWakes(s)
  BY <1>26 DEF WatcherWakes
<1>27. CASE WatcherRollsBack(s)
  BY <1>27 DEF WatcherRollsBack, Close, ServerRollback
<1>28. QED
  BY <1>1, <1>2, <1>3, <1>4, <1>5, <1>6, <1>7, <1>8, <1>9, <1>10,
        <1>11, <1>12, <1>13, <1>14, <1>15, <1>16, <1>17, <1>18, <1>19,
        <1>20, <1>21, <1>22, <1>23, <1>24, <1>25, <1>26, <1>27
  DEF Step, Environment, CallbackEnds, Library, Watch

\* Every step keeps the types. A connection that goes back to the pool is
\* one of the pool's because Lifecycle says that the session holds it.
LEMMA TypeStep ==
  ASSUME IInv, NEW s \in Sessions, Step(s)
  PROVE  TypeOK'
<1>a. TypeOK /\ Lifecycle(s)
  BY DEF IInv
<1> USE <1>a DEF TypeOK, sessionVars, txVars, serverVars
<1>1. CASE Start(s)
  BY <1>1 DEF Start, Goto, PCs
<1>2. CASE ContextEnds(s)
  BY <1>2 DEF ContextEnds, Contexts
<1>3. CASE GetConn(s)
  BY <1>3 DEF GetConn, Goto, PCs
<1>4. CASE AcquireAborted(s)
  BY <1>4 DEF AcquireAborted, Goto, Reply, PCs, Results
<1>5. CASE beginTrans(s)
  BY <1>5 DEF beginTrans, Goto, PCs, Watchers, Servers
<1>6. CASE BeginFails(s)
  <2>1. dc[s] \in Conns
    BY <1>6 DEF BeginFails, Lifecycle, NotBegun, Finishing, Held
  <2>2. QED
    BY <1>6, <2>1 DEF BeginFails, Goto, Reply, Close, PCs, Results
<1>7. CASE Exec(s)
  BY <1>7, StmtsAssumption DEF Exec
<1>8. CASE DeadlockVictim(s)
  BY <1>8 DEF DeadlockVictim, Servers
<1>9. CASE ConnectionBreaks(s)
  BY <1>9 DEF ConnectionBreaks, Servers
<1>10. CASE CallDB(s)
  BY <1>10 DEF CallDB, Goto, PCs
<1>11. CASE GetAux(s)
  BY <1>11 DEF GetAux, Goto, PCs
<1>12. CASE AuxAborted(s)
  BY <1>12 DEF AuxAborted, Goto, PCs
<1>13. CASE AuxReturns(s)
  BY <1>13 DEF AuxReturns, Goto, PCs, Lifecycle
<1>14. CASE CallbackReturnsNil(s)
  BY <1>14 DEF CallbackReturnsNil, Goto, PCs
<1>15. CASE CallbackFails(s)
  BY <1>15 DEF CallbackFails, Goto, Reply, PCs, Results
<1>16. CASE CommitTransaction(s)
  BY <1>16 DEF CommitTransaction, Goto, Reply, AfterCommit, PCs, Results
<1>17. CASE CommitCas(s)
  BY <1>17 DEF CommitCas, Goto, Reply, AfterCommit, PCs, Results
<1>18. CASE ServerCommits(s)
  BY <1>18 DEF ServerCommits, Goto, PCs, Servers
<1>19. CASE CommitAcked(s)
  <2>1. dc[s] \in Conns
    BY <1>19 DEF CommitAcked, Lifecycle, NotBegun, Finishing, Held
  <2>2. QED
    BY <1>19, <2>1 DEF CommitAcked, Goto, Reply, Close, AfterCommit, PCs,
            Results
<1>20. CASE CommitLost(s)
  <2>1. dc[s] \in Conns
    BY <1>20 DEF CommitLost, Lifecycle, NotBegun, Finishing, Held
  <2>2. QED
    BY <1>20, <2>1 DEF CommitLost, Goto, Reply, Close, AfterCommit, PCs, Results
<1>21. CASE ServerResolves(s)
  <2>1. sent[s] \in Nat
    BY StmtsAssumption
  <2>2. store' \in [Sessions -> Nat] /\ server' \in [Sessions -> Servers]
    BY <1>21, <2>1 DEF ServerResolves, Servers
  <2>3. QED
    BY <1>21, <2>2 DEF ServerResolves
<1>22. CASE RollbackTransaction(s)
  BY <1>22 DEF RollbackTransaction, Goto, PCs
<1>23. CASE RollbackReturns(s)
  <2>1. dc[s] \in Conns
    BY <1>23 DEF RollbackReturns, Lifecycle, NotBegun, Finishing, Held
  <2>2. QED
    BY <1>23, <2>1 DEF RollbackReturns, Goto, Close, ServerRollback, PCs,
            Servers
<1>24. CASE Return(s)
  BY <1>24 DEF Return, Goto, PCs, Contexts
<1>25. CASE Forget(s)
  BY <1>25 DEF Forget, Goto, PCs
<1>26. CASE WatcherWakes(s)
  BY <1>26 DEF WatcherWakes, Watchers
<1>27. CASE WatcherRollsBack(s)
  <2>1. dc[s] \in Conns
    BY <1>27 DEF WatcherRollsBack, Lifecycle, NotBegun, Finishing, Held
  <2>2. QED
    BY <1>27, <2>1 DEF WatcherRollsBack, Close, ServerRollback, Watchers,
            Servers
<1>28. QED
  BY <1>1, <1>2, <1>3, <1>4, <1>5, <1>6, <1>7, <1>8, <1>9, <1>10,
        <1>11, <1>12, <1>13, <1>14, <1>15, <1>16, <1>17, <1>18, <1>19,
        <1>20, <1>21, <1>22, <1>23, <1>24, <1>25, <1>26, <1>27
  DEF Step, Environment, CallbackEnds, Library, Watch

\* A step of a session keeps its own Lifecycle. Each case first says what
\* the step does to the session's variables.
LEMMA LifecycleStep ==
  ASSUME IInv, NEW s \in Sessions, Step(s)
  PROVE  Lifecycle(s)'
<1>a. TypeOK /\ Lifecycle(s)
  BY DEF IInv
<1> USE <1>a, KindAssumption
<1>1. CASE Start(s)
  <2>1. /\ pc[s] = "start" /\ pc'[s] = "acquire"
        /\ UNCHANGED <<ctx[s], done[s], dc[s], closed[s], watcher[s],
                        aux[s], server[s], sent[s], store[s], result[s]>>
    BY <1>1 DEF Start, Goto, TypeOK, sessionVars, txVars, serverVars
  <2>2. QED
    BY <2>1 DEF Lifecycle, NotBegun, NoTransaction, Unfinished,
          Finishing, Answered, Refusals, Results, Held
<1>2. CASE ContextEnds(s)
  <2>1. /\ pc[s] # "start"
        /\ UNCHANGED <<pc[s], done[s], dc[s], closed[s], watcher[s],
                        aux[s], server[s], sent[s], store[s], result[s]>>
    BY <1>2 DEF ContextEnds, TypeOK, sessionVars, txVars, serverVars
  <2>2. QED
    BY <2>1 DEF Lifecycle, NotBegun, NoTransaction, Unfinished,
          Finishing, Answered, Refusals, Results, Held
<1>3. CASE GetConn(s)
  <2>1. /\ pc[s] = "acquire" /\ pc'[s] = "begin" /\ dc'[s] # NoConn
        /\ UNCHANGED <<ctx[s], done[s], closed[s], watcher[s],
                        aux[s], server[s], sent[s], store[s], result[s]>>
    BY <1>3, ConnAssumption DEF GetConn, Goto, TypeOK, sessionVars, txVars,
          serverVars
  <2>2. QED
    BY <2>1 DEF Lifecycle, NotBegun, NoTransaction, Unfinished,
          Finishing, Answered, Refusals, Results, Held
<1>4. CASE AcquireAborted(s)
  <2>1. /\ pc[s] = "acquire" /\ pc'[s] = "return"
        /\ result'[s] = "context error"
        /\ UNCHANGED <<ctx[s], done[s], dc[s], closed[s], watcher[s],
                        aux[s], server[s], sent[s], store[s]>>
    BY <1>4 DEF AcquireAborted, Goto, Reply, TypeOK, sessionVars, txVars,
          serverVars
  <2>2. QED
    BY <2>1 DEF Lifecycle, NotBegun, NoTransaction, Unfinished,
          Finishing, Answered, Refusals, Results, Held
<1>5. CASE beginTrans(s)
  <2>1. /\ pc[s] = "begin" /\ pc'[s] = "callback"
        /\ server'[s] = "open" /\ watcher'[s] = "waiting"
        /\ UNCHANGED <<ctx[s], done[s], dc[s], closed[s], aux[s],
                        sent[s], store[s], result[s]>>
    BY <1>5 DEF beginTrans, Goto, TypeOK, sessionVars, txVars, serverVars
  <2>2. QED
    BY <2>1 DEF Lifecycle, NotBegun, NoTransaction, Unfinished,
          Finishing, Answered, Refusals, Results, Held
<1>6. CASE BeginFails(s)
  <2>1. /\ pc[s] = "begin" /\ pc'[s] = "return"
        /\ closed'[s] = TRUE /\ result'[s] = "begin error"
        /\ UNCHANGED <<ctx[s], done[s], dc[s], watcher[s], aux[s],
                        server[s], sent[s], store[s]>>
    BY <1>6 DEF BeginFails, Goto, Reply, Close, TypeOK, sessionVars, txVars,
          serverVars
  <2>2. QED
    BY <2>1 DEF Lifecycle, NotBegun, NoTransaction, Unfinished,
          Finishing, Answered, Refusals, Results, Held
<1>7. CASE Exec(s)
  <2>1. /\ pc[s] = "callback" /\ ~done[s]
        /\ server[s] \in {"open", "victim"}
        /\ server[s] = "open" => store'[s] = store[s]
        /\ UNCHANGED <<pc[s], ctx[s], done[s], dc[s], closed[s],
                        watcher[s], aux[s], server[s], result[s]>>
    BY <1>7 DEF Exec, TypeOK, sessionVars, txVars, serverVars
  <2>2. QED
    BY <2>1 DEF Lifecycle, NotBegun, NoTransaction, Unfinished,
          Finishing, Answered, Refusals, Results, Held
<1>8. CASE DeadlockVictim(s)
  <2>1. /\ pc[s] = "callback" /\ ~done[s]
        /\ server[s] = "open" /\ server'[s] = "victim"
        /\ UNCHANGED <<pc[s], ctx[s], done[s], dc[s], closed[s],
                        watcher[s], aux[s], sent[s], store[s], result[s]>>
    BY <1>8 DEF DeadlockVictim, TypeOK, sessionVars, txVars, serverVars
  <2>2. QED
    BY <2>1 DEF Lifecycle, NotBegun, NoTransaction, Unfinished,
          Finishing, Answered, Refusals, Results, Held
<1>9. CASE ConnectionBreaks(s)
  <2>1. /\ pc[s] = "callback" /\ ~done[s]
        /\ server[s] = "open" /\ server'[s] = "dead"
        /\ UNCHANGED <<pc[s], ctx[s], done[s], dc[s], closed[s],
                        watcher[s], aux[s], sent[s], store[s], result[s]>>
    BY <1>9 DEF ConnectionBreaks, TypeOK, sessionVars, txVars, serverVars
  <2>2. QED
    BY <2>1 DEF Lifecycle, NotBegun, NoTransaction, Unfinished,
          Finishing, Answered, Refusals, Results, Held
<1>10. CASE CallDB(s)
  <2>1. /\ pc[s] = "callback" /\ pc'[s] = "auxwait"
        /\ UNCHANGED <<ctx[s], done[s], dc[s], closed[s], watcher[s],
                        aux[s], server[s], sent[s], store[s], result[s]>>
    BY <1>10 DEF CallDB, Goto, TypeOK, sessionVars, txVars, serverVars
  <2>2. QED
    BY <2>1 DEF Lifecycle, NotBegun, NoTransaction, Unfinished,
          Finishing, Answered, Refusals, Results, Held
<1>11. CASE GetAux(s)
  <2>1. /\ pc[s] = "auxwait" /\ pc'[s] = "auxcall" /\ aux'[s] # NoConn
        /\ UNCHANGED <<ctx[s], done[s], dc[s], closed[s], watcher[s],
                        server[s], sent[s], store[s], result[s]>>
    BY <1>11, ConnAssumption DEF GetAux, Goto, TypeOK, sessionVars, txVars,
          serverVars
  <2>2. QED
    BY <2>1 DEF Lifecycle, NotBegun, NoTransaction, Unfinished,
          Finishing, Answered, Refusals, Results, Held
<1>12. CASE AuxAborted(s)
  <2>1. /\ pc[s] = "auxwait" /\ pc'[s] = "callback"
        /\ UNCHANGED <<ctx[s], done[s], dc[s], closed[s], watcher[s],
                        aux[s], server[s], sent[s], store[s], result[s]>>
    BY <1>12 DEF AuxAborted, Goto, TypeOK, sessionVars, txVars, serverVars
  <2>2. QED
    BY <2>1 DEF Lifecycle, NotBegun, NoTransaction, Unfinished,
          Finishing, Answered, Refusals, Results, Held
<1>13. CASE AuxReturns(s)
  <2>1. /\ pc[s] = "auxcall" /\ pc'[s] = "callback" /\ aux'[s] = NoConn
        /\ UNCHANGED <<ctx[s], done[s], dc[s], closed[s], watcher[s],
                        server[s], sent[s], store[s], result[s]>>
    BY <1>13 DEF AuxReturns, Goto, TypeOK, sessionVars, txVars, serverVars
  <2>2. QED
    BY <2>1 DEF Lifecycle, NotBegun, NoTransaction, Unfinished,
          Finishing, Answered, Refusals, Results, Held
<1>14. CASE CallbackReturnsNil(s)
  <2>1. /\ pc[s] = "callback" /\ pc'[s] = "commit"
        /\ UNCHANGED <<ctx[s], done[s], dc[s], closed[s], watcher[s],
                        aux[s], server[s], sent[s], store[s], result[s]>>
    BY <1>14 DEF CallbackReturnsNil, Goto, TypeOK, sessionVars, txVars,
          serverVars
  <2>2. QED
    BY <2>1 DEF Lifecycle, NotBegun, NoTransaction, Unfinished,
          Finishing, Answered, Refusals, Results, Held
<1>15. CASE CallbackFails(s)
  <2>1. /\ pc[s] = "callback" /\ pc'[s] = "rollback"
        /\ result'[s] \in {"callback error", "panic"}
        /\ UNCHANGED <<ctx[s], done[s], dc[s], closed[s], watcher[s],
                        aux[s], server[s], sent[s], store[s]>>
    BY <1>15 DEF CallbackFails, Goto, Reply, TypeOK, sessionVars, txVars,
          serverVars
  <2>2. QED
    BY <2>1 DEF Lifecycle, NotBegun, NoTransaction, Unfinished,
          Finishing, Answered, Refusals, Results, Held
<1>16. CASE CommitTransaction(s)
  <2>1. /\ pc[s] = "commit"
        /\ \/ pc'[s] = "cas" /\ result'[s] = result[s]
           \/ /\ pc'[s] = AfterCommit(s)
              /\ result'[s] \in {"ErrTxDone", "context error"}
        /\ UNCHANGED <<ctx[s], done[s], dc[s], closed[s], watcher[s],
                        aux[s], server[s], sent[s], store[s]>>
    BY <1>16 DEF CommitTransaction, Goto, Reply, TypeOK, sessionVars,
          txVars, serverVars
  <2>2. QED
    BY <2>1 DEF Lifecycle, NotBegun, NoTransaction, Unfinished,
          Finishing, Answered, Refusals, Results, Held, AfterCommit
<1>17. CASE CommitCas(s)
  <2>1. /\ pc[s] = "cas"
        /\ \/ /\ done[s] /\ done'[s] /\ pc'[s] = AfterCommit(s)
              /\ result'[s] = "ErrTxDone"
           \/ /\ ~done[s] /\ done'[s] /\ pc'[s] = "committing"
              /\ result'[s] = result[s]
        /\ UNCHANGED <<ctx[s], dc[s], closed[s], watcher[s], aux[s],
                        server[s], sent[s], store[s]>>
    BY <1>17 DEF CommitCas, Goto, Reply, TypeOK, sessionVars, txVars,
          serverVars
  <2>2. QED
    BY <2>1 DEF Lifecycle, NotBegun, NoTransaction, Unfinished,
          Finishing, Answered, Refusals, Results, Held, AfterCommit
<1>18. CASE ServerCommits(s)
  <2>1. /\ pc[s] = "committing" /\ pc'[s] = "acking"
        /\ \/ /\ server[s] = "open" /\ server'[s] = "committed"
              /\ store'[s] = sent[s]
           \/ /\ server[s] = "victim" /\ server'[s] = "victim"
              /\ store'[s] = store[s]
        /\ UNCHANGED <<ctx[s], done[s], dc[s], closed[s], watcher[s],
                        aux[s], sent[s], result[s]>>
    BY <1>18 DEF ServerCommits, Goto, TypeOK, sessionVars, txVars,
          serverVars
  <2>2. QED
    BY <2>1 DEF Lifecycle, NotBegun, NoTransaction, Unfinished,
          Finishing, Answered, Refusals, Results, Held
<1>19. CASE CommitAcked(s)
  <2>1. /\ pc[s] = "acking" /\ pc'[s] = AfterCommit(s)
        /\ closed'[s] = TRUE /\ result'[s] = "nil"
        /\ UNCHANGED <<ctx[s], done[s], dc[s], watcher[s], aux[s],
                        server[s], sent[s], store[s]>>
    BY <1>19 DEF CommitAcked, Goto, Reply, Close, TypeOK, sessionVars,
          txVars, serverVars
  <2>2. QED
    BY <2>1 DEF Lifecycle, NotBegun, NoTransaction, Unfinished,
          Finishing, Answered, Refusals, Results, Held, AfterCommit
<1>20. CASE CommitLost(s)
  <2>1. /\ pc[s] \in {"committing", "acking"} /\ pc'[s] = AfterCommit(s)
        /\ closed'[s] = TRUE /\ result'[s] = "driver error"
        /\ UNCHANGED <<ctx[s], done[s], dc[s], watcher[s], aux[s],
                        server[s], sent[s], store[s]>>
    BY <1>20 DEF CommitLost, Goto, Reply, Close, TypeOK, sessionVars,
          txVars, serverVars
  <2>2. QED
    BY <2>1 DEF Lifecycle, NotBegun, NoTransaction, Unfinished,
          Finishing, Answered, Refusals, Results, Held, AfterCommit
<1>21. CASE ServerResolves(s)
  <2>1. /\ result[s] = "driver error"
        /\ \/ /\ server[s] = "open" /\ server'[s] = "committed"
              /\ store'[s] = sent[s]
           \/ /\ server[s] \in {"open", "dead"} /\ server'[s] = "rolledback"
              /\ store'[s] = store[s]
        /\ UNCHANGED <<pc[s], ctx[s], done[s], dc[s], closed[s],
                        watcher[s], aux[s], sent[s], result[s]>>
    BY <1>21 DEF ServerResolves, TypeOK, sessionVars, txVars, serverVars
  <2>2. QED
    BY <2>1 DEF Lifecycle, NotBegun, NoTransaction, Unfinished,
          Finishing, Answered, Refusals, Results, Held
<1>22. CASE RollbackTransaction(s)
  <2>1. /\ pc[s] = "rollback" /\ result[s] \in Results
        /\ \/ done[s] /\ done'[s] /\ pc'[s] = "return"
           \/ ~done[s] /\ done'[s] /\ pc'[s] = "rolling"
        /\ UNCHANGED <<ctx[s], dc[s], closed[s], watcher[s], aux[s],
                        server[s], sent[s], store[s], result[s]>>
    BY <1>22 DEF RollbackTransaction, Goto, TypeOK, sessionVars, txVars,
          serverVars
  <2>2. QED
    BY <2>1 DEF Lifecycle, NotBegun, NoTransaction, Unfinished,
          Finishing, Answered, Refusals, Results, Held
<1>23. CASE RollbackReturns(s)
  <2>1. /\ pc[s] = "rolling" /\ pc'[s] = "return" /\ closed'[s] = TRUE
        /\ server'[s] = IF server[s] \in {"open", "dead"}
                        THEN "rolledback" ELSE server[s]
        /\ UNCHANGED <<ctx[s], done[s], dc[s], watcher[s], aux[s],
                        sent[s], store[s], result[s]>>
    BY <1>23 DEF RollbackReturns, Goto, Close, ServerRollback, TypeOK,
          sessionVars, txVars, serverVars
  <2>2. QED
    BY <2>1 DEF Lifecycle, NotBegun, NoTransaction, Unfinished,
          Finishing, Answered, Refusals, Results, Held
<1>24. CASE Return(s)
  <2>1. /\ pc[s] = "return" /\ pc'[s] = "end"
        /\ UNCHANGED <<done[s], dc[s], closed[s], watcher[s],
                        aux[s], server[s], sent[s], store[s], result[s]>>
    BY <1>24 DEF Return, Goto, TypeOK, sessionVars, txVars, serverVars
  <2>2. QED
    BY <2>1 DEF Lifecycle, NotBegun, NoTransaction, Unfinished,
          Finishing, Answered, Refusals, Results, Held
<1>25. CASE Forget(s)
  <2>1. /\ s \in Manual /\ pc[s] = "callback" /\ pc'[s] = "end"
        /\ UNCHANGED <<ctx[s], done[s], dc[s], closed[s], watcher[s],
                        aux[s], server[s], sent[s], store[s], result[s]>>
    BY <1>25 DEF Forget, Goto, TypeOK, sessionVars, txVars, serverVars
  <2>2. QED
    BY <2>1 DEF Lifecycle, NotBegun, NoTransaction, Unfinished,
          Finishing, Answered, Refusals, Results, Held
<1>26. CASE WatcherWakes(s)
  <2>1. /\ watcher[s] = "waiting"
        /\ \/ done[s] /\ done'[s] /\ watcher'[s] = "ended"
           \/ ~done[s] /\ done'[s] /\ watcher'[s] = "rolling"
        /\ UNCHANGED <<pc[s], ctx[s], dc[s], closed[s], aux[s],
                        server[s], sent[s], store[s], result[s]>>
    BY <1>26 DEF WatcherWakes, TypeOK, sessionVars, txVars, serverVars
  <2>2. QED
    BY <2>1 DEF Lifecycle, NotBegun, NoTransaction, Unfinished,
          Finishing, Answered, Refusals, Results, Held
<1>27. CASE WatcherRollsBack(s)
  <2>1. /\ watcher[s] = "rolling" /\ watcher'[s] = "ended"
        /\ closed'[s] = TRUE
        /\ server'[s] = IF server[s] \in {"open", "dead"}
                        THEN "rolledback" ELSE server[s]
        /\ UNCHANGED <<pc[s], ctx[s], done[s], dc[s], aux[s],
                        sent[s], store[s], result[s]>>
    BY <1>27 DEF WatcherRollsBack, Close, ServerRollback, TypeOK,
          sessionVars, txVars, serverVars
  <2>2. QED
    BY <2>1 DEF Lifecycle, NotBegun, NoTransaction, Unfinished,
          Finishing, Answered, Refusals, Results, Held
<1>28. QED
  BY <1>1, <1>2, <1>3, <1>4, <1>5, <1>6, <1>7, <1>8, <1>9, <1>10,
        <1>11, <1>12, <1>13, <1>14, <1>15, <1>16, <1>17, <1>18, <1>19,
        <1>20, <1>21, <1>22, <1>23, <1>24, <1>25, <1>26, <1>27
  DEF Step, Environment, CallbackEnds, Library, Watch

\* A step keeps every connection in exactly one place. Only eight actions
\* move one.
LEMMA ConnectionsStep ==
  ASSUME IInv, NEW s \in Sessions, Step(s)
  PROVE  ConnectionsConserved'
<1>a. TypeOK /\ Lifecycle(s) /\ ConnectionsConserved
  BY DEF IInv
<1>b. ASSUME UNCHANGED <<dc, closed, aux, idle>>
      PROVE  ConnectionsConserved'
  BY <1>a, <1>b DEF ConnectionsConserved, Held
<1>c. ASSUME Held(s), Close(s), UNCHANGED <<dc, aux>>
      PROVE  ConnectionsConserved'
  BY <1>a, <1>c, ConnAssumption DEF ConnectionsConserved, Held, Close, TypeOK
<1>1. CASE Start(s)
  BY <1>1, <1>b DEF Start, sessionVars, txVars
<1>2. CASE ContextEnds(s)
  BY <1>2, <1>b DEF ContextEnds, sessionVars, txVars
<1>3. CASE GetConn(s)
  <2>1. PICK c \in idle : dc' = [dc EXCEPT ![s] = c] /\ idle' = idle \ {c}
    BY <1>3 DEF GetConn
  <2>2. c \in Conns /\ c # NoConn /\ ~closed[s]
    BY <1>3, <1>a, ConnAssumption DEF GetConn, TypeOK, Lifecycle, NotBegun
  <2>3. UNCHANGED <<closed, aux>>
    BY <1>3 DEF GetConn
  <2>4. \A t \in Sessions : /\ t # s => (Held(t)' <=> Held(t)) /\ dc'[t] = dc[t]
                           /\ dc'[s] = c /\ Held(s)' /\ ~Held(s)
    BY <1>3, <1>a, <2>1, <2>2, <2>3
       DEF GetConn, Held, TypeOK, Lifecycle, NotBegun
  <2>5. QED
    BY <1>a, <2>1, <2>2, <2>3, <2>4 DEF ConnectionsConserved, TypeOK
<1>4. CASE AcquireAborted(s)
  BY <1>4, <1>b DEF AcquireAborted, sessionVars, txVars
<1>5. CASE beginTrans(s)
  BY <1>5, <1>b DEF beginTrans, sessionVars, txVars
<1>6. CASE BeginFails(s)
  BY <1>6, <1>a, <1>c DEF BeginFails, Lifecycle, NotBegun, Finishing, Held,
        sessionVars, txVars
<1>7. CASE Exec(s)
  BY <1>7, <1>b DEF Exec, sessionVars, txVars
<1>8. CASE DeadlockVictim(s)
  BY <1>8, <1>b DEF DeadlockVictim, sessionVars, txVars
<1>9. CASE ConnectionBreaks(s)
  BY <1>9, <1>b DEF ConnectionBreaks, sessionVars, txVars
<1>10. CASE CallDB(s)
  BY <1>10, <1>b DEF CallDB, sessionVars, txVars
<1>11. CASE GetAux(s)
  <2>1. PICK c \in idle : aux' = [aux EXCEPT ![s] = c] /\ idle' = idle \ {c}
    BY <1>11 DEF GetAux
  <2>2. c \in Conns /\ c # NoConn /\ aux[s] = NoConn
    BY <1>11, <1>a, ConnAssumption DEF GetAux, TypeOK, Lifecycle, NotBegun, Held
  <2>3. UNCHANGED <<closed, dc>>
    BY <1>11 DEF GetAux
  <2>4. QED
    BY <1>a, <2>1, <2>2, <2>3, ConnAssumption
       DEF ConnectionsConserved, Held, TypeOK
<1>12. CASE AuxAborted(s)
  BY <1>12, <1>b DEF AuxAborted, sessionVars, txVars
<1>13. CASE AuxReturns(s)
  <2>1. /\ aux[s] # NoConn /\ aux[s] \in Conns
        /\ idle' = idle \cup {aux[s]} /\ aux' = [aux EXCEPT ![s] = NoConn]
        /\ UNCHANGED <<dc, closed>>
    BY <1>13, <1>a DEF AuxReturns, TypeOK, Lifecycle
  <2>2. QED
    BY <1>a, <2>1, ConnAssumption DEF ConnectionsConserved, Held, TypeOK
<1>14. CASE CallbackReturnsNil(s)
  BY <1>14, <1>b DEF CallbackReturnsNil, sessionVars, txVars
<1>15. CASE CallbackFails(s)
  BY <1>15, <1>b DEF CallbackFails, sessionVars, txVars
<1>16. CASE CommitTransaction(s)
  BY <1>16, <1>b DEF CommitTransaction, sessionVars, txVars
<1>17. CASE CommitCas(s)
  BY <1>17, <1>b DEF CommitCas, sessionVars, txVars
<1>18. CASE ServerCommits(s)
  BY <1>18, <1>b DEF ServerCommits, sessionVars, txVars
<1>19. CASE CommitAcked(s)
  BY <1>19, <1>a, <1>c DEF CommitAcked, Lifecycle, NotBegun, Finishing,
        Held, sessionVars, txVars
<1>20. CASE CommitLost(s)
  BY <1>20, <1>a, <1>c DEF CommitLost, Lifecycle, NotBegun, Finishing, Held,
        sessionVars, txVars
<1>21. CASE ServerResolves(s)
  BY <1>21, <1>b DEF ServerResolves, sessionVars, txVars
<1>22. CASE RollbackTransaction(s)
  BY <1>22, <1>b DEF RollbackTransaction, sessionVars, txVars
<1>23. CASE RollbackReturns(s)
  BY <1>23, <1>a, <1>c DEF RollbackReturns, Lifecycle, NotBegun, Finishing,
        Held, sessionVars, txVars
<1>24. CASE Return(s)
  BY <1>24, <1>b DEF Return, sessionVars, txVars
<1>25. CASE Forget(s)
  BY <1>25, <1>b DEF Forget, sessionVars, txVars
<1>26. CASE WatcherWakes(s)
  BY <1>26, <1>b DEF WatcherWakes, sessionVars, txVars
<1>27. CASE WatcherRollsBack(s)
  BY <1>27, <1>a, <1>c DEF WatcherRollsBack, Lifecycle, NotBegun, Finishing,
        Held, sessionVars, txVars
<1>28. QED
  BY <1>1, <1>2, <1>3, <1>4, <1>5, <1>6, <1>7, <1>8, <1>9, <1>10,
        <1>11, <1>12, <1>13, <1>14, <1>15, <1>16, <1>17, <1>18, <1>19,
        <1>20, <1>21, <1>22, <1>23, <1>24, <1>25, <1>26, <1>27
  DEF Step, Environment, CallbackEnds, Library, Watch

-----------------------------------------------------------------------------
\* Lifecycle reads no other session's variables.
LEMMA OthersKeepLifecycle ==
  ASSUME NEW t, Lifecycle(t), Same(t)
  PROVE  Lifecycle(t)'
BY DEF Same, Lifecycle, NotBegun, NoTransaction, Unfinished, Finishing,
       Answered, Held

LEMMA InitIInv == Init => IInv
<1> SUFFICES ASSUME Init PROVE IInv
  OBVIOUS
<1>1. TypeOK
  BY StmtsAssumption
     DEF Init, TypeOK, PCs, Contexts, Watchers, Servers, Results
<1>2. ASSUME NEW s \in Sessions PROVE Lifecycle(s)
  BY <1>2 DEF Init, Lifecycle, NotBegun, NoTransaction, Unfinished, Finishing,
              Answered, Held
<1>3. ConnectionsConserved
  BY ConnAssumption DEF Init, ConnectionsConserved, Held
<1>4. QED
  BY <1>1, <1>2, <1>3 DEF IInv

LEMMA NextIInv == IInv /\ [Next]_vars => IInv'
<1> SUFFICES ASSUME IInv, [Next]_vars PROVE IInv'
  OBVIOUS
<1>1. CASE UNCHANGED vars
  <2>1. \A t \in Sessions : Same(t)
    BY <1>1 DEF vars, sessionVars, txVars, serverVars, Same
  <2>2. \A t \in Sessions : Lifecycle(t)'
    BY <2>1, OthersKeepLifecycle DEF IInv
  <2>3. TypeOK'
    BY <1>1 DEF vars, sessionVars, txVars, serverVars, IInv, TypeOK
  <2>4. ConnectionsConserved'
    BY <1>1 DEF vars, sessionVars, txVars, IInv, ConnectionsConserved, Held
  <2>5. QED
    BY <2>2, <2>3, <2>4 DEF IInv
<1>2. CASE Next
  <2>1. PICK s \in Sessions : Step(s)
    BY <1>2 DEF Next, Step
  <2>2. ASSUME NEW t \in Sessions PROVE Lifecycle(t)'
    <3>1. CASE t = s
      BY <2>1, <3>1, LifecycleStep
    <3>2. CASE t # s
      BY <2>1, <3>2, StepFrame, OthersKeepLifecycle DEF IInv
    <3>3. QED
      BY <3>1, <3>2
  <2>3. TypeOK' /\ ConnectionsConserved'
    BY <2>1, TypeStep, ConnectionsStep
  <2>4. QED
    BY <2>2, <2>3 DEF IInv
<1>3. QED
  BY <1>1, <1>2

\* The inductive invariant holds.
THEOREM Invariance == Spec => []IInv
BY InitIInv, NextIInv, PTL DEF Spec

-----------------------------------------------------------------------------
\* The variables of Transaction always have the values the code gives them.
THEOREM TypeCorrect == Spec => []TypeOK
<1>1. IInv => TypeOK
  BY DEF IInv
<1>2. QED
  BY <1>1, Invariance, PTL

\* No connection is ever lost or shared, whoever hands it back.
THEOREM PoolCorrect == Spec => []ConnectionsConserved
<1>1. IInv => ConnectionsConserved
  BY DEF IInv
<1>2. QED
  BY <1>1, Invariance, PTL

\* COMMIT and ROLLBACK of one transaction are sent by one party, which still
\* owns its connection.
THEOREM SingleFinisher == Spec => []OneFinisher
<1>1. IInv => OneFinisher
  BY DEF IInv, Lifecycle, Finishing, OneFinisher
<1>2. QED
  BY <1>1, Invariance, PTL

\* RunInTransaction answers nil only for committed work.
THEOREM NilSound == Spec => []NilMeansCommitted
<1>1. IInv => NilMeansCommitted
  BY DEF IInv, Lifecycle, Answered, NilMeansCommitted
<1>2. QED
  BY <1>1, Invariance, PTL

\* A refused transaction leaves nothing visible.
THEOREM RefusalSound == Spec => []RefusalMeansNothing
<1>1. ASSUME IInv, NEW s \in Sessions, result[s] \in Refusals,
             server[s] # "victim"
      PROVE  store[s] = 0
  <2>1. Lifecycle(s)
    BY <1>1 DEF IInv
  <2>2. result[s] \notin {"none", "nil", "driver error"}
    BY <1>1 DEF Refusals
  <2>3. QED
    BY <1>1, <2>1, <2>2 DEF Lifecycle, Answered
<1>2. IInv => RefusalMeansNothing
  BY <1>1 DEF RefusalMeansNothing
<1>3. QED
  BY <1>2, Invariance, PTL

\* The transaction is finished when RunInTransaction has returned.
THEOREM ReturnSound == Spec => []ReturnsFinished
<1>1. IInv => ReturnsFinished
  BY DEF IInv, Lifecycle, Unfinished, ReturnsFinished, Sessions
<1>2. QED
  BY <1>1, Invariance, PTL

-----------------------------------------------------------------------------
(* Transaction implements AtomicTx *)

\* What a step of a session does to its outcome and reply is a step of
\* AtomicTx or nothing.
AbsStep(s) ==
    \/ AOutcome(s)' = AOutcome(s) /\ AReply(s)' = AReply(s)
    \/ /\ AOutcome(s) = "pending" /\ AReply(s)' = AReply(s)
       /\ \/ AOutcome(s)' = "aborted"
          \/ AOutcome(s)' = "committed" /\ AReply(s) \in {"none", "unknown"}
          \/ AOutcome(s)' = "forfeited" /\ AReply(s) = "none"
    \/ /\ AReply(s) = "none" /\ AReply(s)' \in {"ok", "failed", "unknown"}
       /\ \/ /\ AReply(s)' = "ok" /\ AOutcome(s) = "committed"
             /\ AOutcome(s)' = AOutcome(s)
          \/ /\ AReply(s)' = "failed" /\ AOutcome(s) \in {"pending", "aborted"}
             /\ AOutcome(s)' = "aborted"
          \/ AReply(s)' = "unknown" /\ AOutcome(s)' = AOutcome(s)
          \/ AOutcome(s) = "forfeited" /\ AOutcome(s)' = "forfeited"

\* Each action of a session is such a step. As in LifecycleStep, a case first
\* says what the action does to the variables the mapping reads.
LEMMA AbstractStep ==
  ASSUME IInv, NEW s \in Sessions, Step(s)
  PROVE  AbsStep(s)
<1>a. TypeOK /\ Lifecycle(s)
  BY DEF IInv
<1>b. ASSUME UNCHANGED <<server[s], result[s]>>
      PROVE  AbsStep(s)
  BY <1>b DEF AbsStep, AOutcome, AReply
<1>c. ASSUME server'[s] = server[s], server[s] # "committed",
             result[s] = "none", result'[s] \in Refusals
      PROVE  AbsStep(s)
  <2>1. AReply(s) = "none" /\ AReply(s)' = "failed"
    BY <1>c DEF AReply, Refusals
  <2>2. CASE server[s] = "victim"
    BY <2>1, <2>2, <1>c DEF AbsStep, AOutcome
  <2>3. CASE server[s] # "victim"
    <3>1. AOutcome(s) = IF server[s] = "rolledback" THEN "aborted" ELSE "pending"
      BY <2>3, <1>c DEF AOutcome, Refusals
    <3>2. AOutcome(s)' = "aborted"
      BY <2>3, <1>a, <1>c DEF AOutcome, TypeOK, Servers
    <3>3. QED
      BY <2>1, <3>1, <3>2 DEF AbsStep
  <2>4. QED
    BY <2>2, <2>3
<1> USE <1>a
<1>1. CASE Start(s)
  BY <1>1, <1>b DEF Start, sessionVars, serverVars
<1>2. CASE ContextEnds(s)
  BY <1>2, <1>b DEF ContextEnds, sessionVars, serverVars
<1>3. CASE GetConn(s)
  BY <1>3, <1>b DEF GetConn, sessionVars, serverVars
<1>4. CASE AcquireAborted(s)
  <2>1. /\ pc[s] = "acquire" /\ pc'[s] = "return"
        /\ result'[s] = "context error"
        /\ UNCHANGED server[s]
    BY <1>4 DEF AcquireAborted, Goto, Reply, TypeOK, sessionVars, txVars,
          serverVars
  <2>2. QED
    BY <2>1 DEF AbsStep, AOutcome, AReply, Lifecycle, NotBegun,
          NoTransaction, Unfinished, Finishing, Answered, Refusals, Results
<1>5. CASE beginTrans(s)
  <2>1. /\ pc[s] = "begin" /\ pc'[s] = "callback"
        /\ server'[s] = "open" /\ watcher'[s] = "waiting"
        /\ UNCHANGED result[s]
    BY <1>5 DEF beginTrans, Goto, TypeOK, sessionVars, txVars, serverVars
  <2>2. QED
    BY <2>1 DEF AbsStep, AOutcome, AReply, Lifecycle, NotBegun,
          NoTransaction, Unfinished, Finishing, Answered, Refusals, Results
<1>6. CASE BeginFails(s)
  <2>1. /\ pc[s] = "begin" /\ pc'[s] = "return"
        /\ closed'[s] = TRUE /\ result'[s] = "begin error"
        /\ UNCHANGED server[s]
    BY <1>6 DEF BeginFails, Goto, Reply, Close, TypeOK, sessionVars, txVars,
          serverVars
  <2>2. QED
    BY <2>1 DEF AbsStep, AOutcome, AReply, Lifecycle, NotBegun,
          NoTransaction, Unfinished, Finishing, Answered, Refusals, Results
<1>7. CASE Exec(s)
  BY <1>7, <1>b DEF Exec, sessionVars, serverVars
<1>8. CASE DeadlockVictim(s)
  <2>1. /\ pc[s] = "callback" /\ ~done[s]
        /\ server[s] = "open" /\ server'[s] = "victim"
        /\ UNCHANGED result[s]
    BY <1>8 DEF DeadlockVictim, TypeOK, sessionVars, txVars, serverVars
  <2>2. QED
    BY <2>1 DEF AbsStep, AOutcome, AReply, Lifecycle, NotBegun,
          NoTransaction, Unfinished, Finishing, Answered, Refusals, Results
<1>9. CASE ConnectionBreaks(s)
  <2>1. /\ pc[s] = "callback" /\ ~done[s]
        /\ server[s] = "open" /\ server'[s] = "dead"
        /\ UNCHANGED result[s]
    BY <1>9 DEF ConnectionBreaks, TypeOK, sessionVars, txVars, serverVars
  <2>2. QED
    BY <2>1 DEF AbsStep, AOutcome, AReply, Lifecycle, NotBegun,
          NoTransaction, Unfinished, Finishing, Answered, Refusals, Results
<1>10. CASE CallDB(s)
  BY <1>10, <1>b DEF CallDB, sessionVars, serverVars
<1>11. CASE GetAux(s)
  BY <1>11, <1>b DEF GetAux, sessionVars, serverVars
<1>12. CASE AuxAborted(s)
  BY <1>12, <1>b DEF AuxAborted, sessionVars, serverVars
<1>13. CASE AuxReturns(s)
  BY <1>13, <1>b DEF AuxReturns, sessionVars, serverVars
<1>14. CASE CallbackReturnsNil(s)
  BY <1>14, <1>b DEF CallbackReturnsNil, sessionVars, serverVars
<1>15. CASE CallbackFails(s)
  <2>1. /\ pc[s] = "callback" /\ pc'[s] = "rollback"
        /\ result'[s] \in {"callback error", "panic"}
        /\ UNCHANGED server[s]
    BY <1>15 DEF CallbackFails, Goto, Reply, TypeOK, sessionVars, txVars,
          serverVars
  <2>2. result[s] = "none" /\ server[s] # "committed"
    BY <2>1 DEF Lifecycle, Answered
  <2>3. QED
    BY <1>b, <1>c, <2>1, <2>2 DEF Refusals, Results
<1>16. CASE CommitTransaction(s)
  <2>1. /\ pc[s] = "commit"
        /\ \/ pc'[s] = "cas" /\ result'[s] = result[s]
           \/ /\ pc'[s] = AfterCommit(s)
              /\ result'[s] \in {"ErrTxDone", "context error"}
        /\ UNCHANGED server[s]
    BY <1>16 DEF CommitTransaction, Goto, Reply, TypeOK, sessionVars,
          txVars, serverVars
  <2>2. result[s] = "none" /\ server[s] # "committed"
    BY <2>1 DEF Lifecycle, Answered
  <2>3. QED
    BY <1>b, <1>c, <2>1, <2>2 DEF Refusals, Results
<1>17. CASE CommitCas(s)
  <2>1. /\ pc[s] = "cas"
        /\ \/ /\ done[s] /\ done'[s] /\ pc'[s] = AfterCommit(s)
              /\ result'[s] = "ErrTxDone"
           \/ /\ ~done[s] /\ done'[s] /\ pc'[s] = "committing"
              /\ result'[s] = result[s]
        /\ UNCHANGED server[s]
    BY <1>17 DEF CommitCas, Goto, Reply, TypeOK, sessionVars, txVars,
          serverVars
  <2>2. result[s] = "none" /\ server[s] # "committed"
    BY <2>1 DEF Lifecycle, Answered
  <2>3. QED
    BY <1>b, <1>c, <2>1, <2>2 DEF Refusals, Results
<1>18. CASE ServerCommits(s)
  <2>1. /\ pc[s] = "committing" /\ pc'[s] = "acking"
        /\ \/ /\ server[s] = "open" /\ server'[s] = "committed"
              /\ store'[s] = sent[s]
           \/ /\ server[s] = "victim" /\ server'[s] = "victim"
              /\ store'[s] = store[s]
        /\ UNCHANGED result[s]
    BY <1>18 DEF ServerCommits, Goto, TypeOK, sessionVars, txVars,
          serverVars
  <2>2. QED
    BY <2>1 DEF AbsStep, AOutcome, AReply, Lifecycle, NotBegun,
          NoTransaction, Unfinished, Finishing, Answered, Refusals, Results
<1>19. CASE CommitAcked(s)
  <2>1. /\ pc[s] = "acking" /\ pc'[s] = AfterCommit(s)
        /\ closed'[s] = TRUE /\ result'[s] = "nil"
        /\ UNCHANGED server[s]
    BY <1>19 DEF CommitAcked, Goto, Reply, Close, TypeOK, sessionVars,
          txVars, serverVars
  <2>2. QED
    BY <2>1 DEF AbsStep, AOutcome, AReply, Lifecycle, NotBegun,
          NoTransaction, Unfinished, Finishing, Answered, Refusals, Results
<1>20. CASE CommitLost(s)
  <2>1. /\ pc[s] \in {"committing", "acking"} /\ pc'[s] = AfterCommit(s)
        /\ closed'[s] = TRUE /\ result'[s] = "driver error"
        /\ UNCHANGED server[s]
    BY <1>20 DEF CommitLost, Goto, Reply, Close, TypeOK, sessionVars,
          txVars, serverVars
  <2>2. QED
    BY <2>1 DEF AbsStep, AOutcome, AReply, Lifecycle, NotBegun,
          NoTransaction, Unfinished, Finishing, Answered, Refusals, Results
<1>21. CASE ServerResolves(s)
  <2>1. /\ result[s] = "driver error"
        /\ \/ /\ server[s] = "open" /\ server'[s] = "committed"
              /\ store'[s] = sent[s]
           \/ /\ server[s] \in {"open", "dead"} /\ server'[s] = "rolledback"
              /\ store'[s] = store[s]
        /\ UNCHANGED result[s]
    BY <1>21 DEF ServerResolves, TypeOK, sessionVars, txVars, serverVars
  <2>2. QED
    BY <2>1 DEF AbsStep, AOutcome, AReply, Lifecycle, NotBegun,
          NoTransaction, Unfinished, Finishing, Answered, Refusals, Results
<1>22. CASE RollbackTransaction(s)
  BY <1>22, <1>b DEF RollbackTransaction, sessionVars, serverVars
<1>23. CASE RollbackReturns(s)
  <2>1. /\ pc[s] = "rolling" /\ pc'[s] = "return" /\ closed'[s] = TRUE
        /\ server'[s] = IF server[s] \in {"open", "dead"}
                        THEN "rolledback" ELSE server[s]
        /\ UNCHANGED result[s]
    BY <1>23 DEF RollbackReturns, Goto, Close, ServerRollback, TypeOK,
          sessionVars, txVars, serverVars
  <2>2. QED
    BY <2>1 DEF AbsStep, AOutcome, AReply, Lifecycle, NotBegun,
          NoTransaction, Unfinished, Finishing, Answered, Refusals, Results
<1>24. CASE Return(s)
  BY <1>24, <1>b DEF Return, sessionVars, serverVars
<1>25. CASE Forget(s)
  BY <1>25, <1>b DEF Forget, sessionVars, serverVars
<1>26. CASE WatcherWakes(s)
  BY <1>26, <1>b DEF WatcherWakes, sessionVars, serverVars
<1>27. CASE WatcherRollsBack(s)
  <2>1. /\ watcher[s] = "rolling" /\ watcher'[s] = "ended"
        /\ closed'[s] = TRUE
        /\ server'[s] = IF server[s] \in {"open", "dead"}
                        THEN "rolledback" ELSE server[s]
        /\ UNCHANGED result[s]
    BY <1>27 DEF WatcherRollsBack, Close, ServerRollback, TypeOK,
          sessionVars, txVars, serverVars
  <2>2. QED
    BY <2>1 DEF AbsStep, AOutcome, AReply, Lifecycle, NotBegun,
          NoTransaction, Unfinished, Finishing, Answered, Refusals, Results
<1>28. QED
  BY <1>1, <1>2, <1>3, <1>4, <1>5, <1>6, <1>7, <1>8, <1>9, <1>10,
        <1>11, <1>12, <1>13, <1>14, <1>15, <1>16, <1>17, <1>18, <1>19,
        <1>20, <1>21, <1>22, <1>23, <1>24, <1>25, <1>26, <1>27
  DEF Step, Environment, CallbackEnds, Library, Watch

LEMMA RefinementInit == Init => Abstract!AInit
BY DEF Init, Abstract!AInit, AOutcome, AReply, Refusals, Results

LEMMA RefinementNext == IInv /\ [Next]_vars => [Abstract!ANext]_Abstract!avars
<1> SUFFICES ASSUME IInv, [Next]_vars PROVE [Abstract!ANext]_Abstract!avars
  OBVIOUS
<1> DEFINE outcome == [s \in Sessions |-> AOutcome(s)]
           reply == [s \in Sessions |-> AReply(s)]
<1>1. CASE UNCHANGED vars
  BY <1>1 DEF vars, sessionVars, serverVars, Abstract!avars, AOutcome, AReply
<1>2. CASE Next
  <2>1. PICK s \in Sessions : Step(s)
    BY <1>2 DEF Next, Step
  <2>2. AbsStep(s)
    BY <2>1, AbstractStep
  <2>3. ASSUME NEW t \in Sessions, t # s
        PROVE  AOutcome(t)' = AOutcome(t) /\ AReply(t)' = AReply(t)
    BY <2>1, <2>3, StepFrame DEF Same, AOutcome, AReply
  <2>4. /\ outcome' = [outcome EXCEPT ![s] = AOutcome(s)']
        /\ reply' = [reply EXCEPT ![s] = AReply(s)']
    BY <2>3
  <2>5. /\ outcome[s] = AOutcome(s) /\ reply[s] = AReply(s)
        /\ [outcome EXCEPT ![s] = outcome[s]] = outcome
        /\ [reply EXCEPT ![s] = reply[s]] = reply
    OBVIOUS
  <2> HIDE DEF outcome, reply
  <2>6. \/ UNCHANGED <<outcome, reply>>
        \/ Abstract!Decide(s) \/ Abstract!Answer(s) \/ Abstract!Forfeit(s)
    <3>1. CASE AOutcome(s)' = AOutcome(s) /\ AReply(s)' = AReply(s)
      BY <2>4, <2>5, <3>1
    <3>2. CASE /\ AOutcome(s) = "pending" /\ AReply(s)' = AReply(s)
               /\ \/ AOutcome(s)' = "aborted"
                  \/ AOutcome(s)' = "committed" /\ AReply(s) \in {"none", "unknown"}
      BY <2>4, <2>5, <3>2 DEF Abstract!Decide, outcome, reply
    <3>3. CASE /\ AOutcome(s) = "pending" /\ AReply(s)' = AReply(s)
               /\ AOutcome(s)' = "forfeited" /\ AReply(s) = "none"
      BY <2>4, <2>5, <3>3 DEF Abstract!Forfeit, outcome, reply
    <3>4. CASE AReply(s) = "none" /\ AReply(s)' \in {"ok", "failed", "unknown"}
      <4>1. AReply(s)' \in Abstract!Replies \ {"none"}
        BY <3>4 DEF Abstract!Replies
      <4>2. CASE AOutcome(s)' = AOutcome(s)
        BY <2>2, <2>4, <2>5, <3>4, <4>1, <4>2 DEF AbsStep, Abstract!Answer, outcome, reply
      <4>3. CASE AOutcome(s)' # AOutcome(s)
        BY <2>2, <2>4, <2>5, <3>4, <4>1, <4>3 DEF AbsStep, Abstract!Answer, outcome, reply
      <4> QED
        BY <4>2, <4>3
    <3> QED
      BY <2>2, <3>1, <3>2, <3>3, <3>4 DEF AbsStep
  <2>7. QED
    BY <2>6 DEF Abstract!ANext, Abstract!avars, outcome, reply
<1>3. QED
  BY <1>1, <1>2

\* Transactions implement AtomicTx: the answers of RunInTransaction and the
\* writes of its callback are those of an atomic transaction.
THEOREM Refinement == Spec => ImplementsAtomicTx
BY RefinementInit, RefinementNext, Invariance, PTL
   DEF Spec, ImplementsAtomicTx, Abstract!ASpec
=============================================================================
