---------------------------- MODULE AtomicTx ----------------------------
(* What a transaction of sqlike promises its caller, with no connections,  *)
(* contexts or goroutines: the writes of one session are decided once,     *)
(* all together, and the answer the caller gets agrees with the decision.  *)
(* Transaction.tla is shown to implement this module.                      *)

CONSTANT Sessions

VARIABLES outcome,   \* what became of the writes of a session
          reply      \* what its caller has been told

avars == <<outcome, reply>>

Outcomes == {"pending", "committed", "aborted", "forfeited"}
Replies  == {"none", "ok", "failed", "unknown"}

ATypeOK == /\ outcome \in [Sessions -> Outcomes]
           /\ reply \in [Sessions -> Replies]

AInit == /\ outcome = [s \in Sessions |-> "pending"]
         /\ reply = [s \in Sessions |-> "none"]

\* The decision. A session that was told "failed" is never committed; one
\* whose answer is unknown may still be.
Decide(s) ==
    /\ outcome[s] = "pending"
    /\ \E d \in {"committed", "aborted"} :
          /\ d = "committed" => reply[s] \in {"none", "unknown"}
          /\ outcome' = [outcome EXCEPT ![s] = d]
    /\ UNCHANGED reply

\* The answer. It is given once; it may take the decision to abort with it.
Answer(s) ==
    /\ reply[s] = "none"
    /\ \E r \in Replies \ {"none"} :
          /\ reply' = [reply EXCEPT ![s] = r]
          /\ \/ r = "ok" /\ outcome[s] = "committed" /\ UNCHANGED outcome
             \/ /\ r = "failed"
                /\ outcome[s] \in {"pending", "aborted"}
                /\ outcome' = [outcome EXCEPT ![s] = "aborted"]
             \/ r = "unknown" /\ UNCHANGED outcome
             \/ outcome[s] = "forfeited" /\ UNCHANGED outcome

\* The server chose the session as a deadlock victim and told it so by an
\* error of a statement: whatever the callback does next is its own affair.
Forfeit(s) ==
    /\ outcome[s] = "pending" /\ reply[s] = "none"
    /\ outcome' = [outcome EXCEPT ![s] = "forfeited"]
    /\ UNCHANGED reply

ANext == \E s \in Sessions : Decide(s) \/ Answer(s) \/ Forfeit(s)

ASpec == AInit /\ [][ANext]_avars
=========================================================================
