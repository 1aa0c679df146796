--------------------------- MODULE DispatcherInv ---------------------------
(***************************************************************************)
(* The inductive invariant behind the safety properties of Dispatcher.     *)
(* Only a dispatcher whose session is alive can commit, so everything is   *)
(* said of those: the rows they claimed are still due, and what they are   *)
(* about to record has really happened.                                    *)
(***************************************************************************)
EXTENDS Dispatcher

\* What drainOnce may rely on when it writes the result of row m.
BatchOK(d, m) ==
  /\ m \in InBatch(d) => row[m].state = "due"
  /\ marks[d][m] # "none" => m \in InBatch(d)
  /\ marks[d][m] = "delivered" /\ m \in Configured => sends[m].ok > 0
  /\ marks[d][m] = "retry" => row[m].attempts < sends[m].failed
  /\ pc[d] = "mark" /\ m = answer[d].msg =>
       /\ m \in InBatch(d)
       /\ answer[d].is = "ok" /\ m \in Configured => sends[m].ok > 0
       /\ answer[d].is # "ok" => row[m].attempts < sends[m].failed

\* At most one session holds the topic's lock.
OneHolds ==
  \A d \in Dispatchers, e \in Dispatchers : session[d] = "held" /\ session[e] = "held" => d = e

BatchesOK ==
  \A d \in Dispatchers : session[d] = "held" => \A m \in Msgs : BatchOK(d, m)

\* Outside drainOnce there is no batch.
RestingIsEmpty ==
  \A d \in Dispatchers :
    pc[d] \in {"down", "lock", "drain", "release"} => batch[d] = NoBatch /\ marks[d] = NoMarks

AnswerIsForMessage == \A d \in Dispatchers : pc[d] = "mark" => answer[d].msg \in Msgs

\* Init implies it, every step of Next keeps it, and it contains
\* DeliveredWasAccepted and ParkedAfterFailures.
DInv ==
  /\ TypeOK
  /\ OneHolds
  /\ BatchesOK
  /\ RestingIsEmpty
  /\ AnswerIsForMessage
  /\ DeliveredWasAccepted
  /\ ParkedAfterFailures

\* Dispatchers that may still send m although their session is gone.
Stray(m) == {d \in Dispatchers : session[d] = "lost" /\ pc[d] = "send" /\ m \in ToDo(d)}

\* m will not be sent again unless something fails: its row is finished, or
\* the owner of the lock has its 2xx answer in hand or in its transaction.
Answered(m) ==
  \/ row[m].state \in {"delivered", "parked"}
  \/ \E d \in Dispatchers :
       /\ session[d] = "held"
       /\ \/ marks[d][m] = "delivered"
          \/ pc[d] = "mark" /\ answer[d] = [msg |-> m, is |-> "ok"]

Unanswered(m) == IF Answered(m) THEN 0 ELSE 1

\* A message is sent only while it has no result.
SentUnmarked == \A d \in Dispatchers : pc[d] = "mark" => marks[d][answer[d].msg] = "none"

\* Whoever sends has claimed in a session, alive or not.
SendsInSession == \A d \in Dispatchers : pc[d] = "send" => session[d] # "none"

\* Behind DuplicatesNeedFaults: the 2xx answers so far, those that dispatchers
\* without a session may still get and the one that is still due are paid
\* for by the first delivery and the faults.
Paid(m) == sends[m].ok + Cardinality(Stray(m)) + Unanswered(m) <= 1 + faults

DupInv == SentUnmarked /\ SendsInSession /\ \A m \in Msgs : Paid(m)

=============================================================================
