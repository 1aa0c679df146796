----------------------------- MODULE Dispatcher -----------------------------
(***************************************************************************)
(* The outbox dispatcher (internal/outbox) and its webhook sender: rows of *)
(* one topic are claimed in batches, each is posted to its merchant, and   *)
(* one transaction for the whole batch records what became of them.  A     *)
(* session-scoped advisory lock makes one dispatcher the owner.            *)
(*                                                                         *)
(* The lock, the open transaction and its row locks live in one Postgres   *)
(* session and end with it.  The dispatcher notices at its next statement, *)
(* so it can go on sending for a while without them.                       *)
(***************************************************************************)
EXTENDS Integers, FiniteSets

CONSTANTS
  N,            \* bound: messages published, in the order 1..N
  Dispatchers,  \* dispatcher processes of the topic
  Configured,   \* messages whose merchant has a webhook URL and secret
  Flaky,        \* messages whose receiver may time out or answer with an error
  BatchSize,    \* DispatcherConfig.BatchSize
  MaxAttempts,  \* DispatcherConfig.MaxAttempts
  MaxFaults     \* bound: crashes, lost connections and failed statements

Msgs == 1..N

ASSUME DispatcherAssumption ==
  /\ N \in Nat
  /\ IsFiniteSet(Dispatchers)
  /\ Configured \subseteq Msgs
  /\ Flaky \subseteq Configured
  /\ BatchSize \in Nat \ {0}
  /\ MaxAttempts \in Nat \ {0}
  /\ MaxFaults \in Nat

VARIABLES
  row,      \* the outbox table: state, attempts, place in next_attempt_at order
  session,  \* the Postgres session each dispatcher holds
  orphans,  \* sessions with the lock whose client is gone, not yet noticed
  pc,       \* where in Run and drainOnce each dispatcher is
  batch,    \* the rows its claim returned, each with its place, or 0
  marks,    \* the updates of its open transaction
  answer,   \* the message it sent last and what Send returned
  sends,    \* 2xx answers and failures of Send so far, per message
  faults    \* faults spent so far

table == <<row>>
connections == <<session, orphans>>
memory == <<pc, batch, marks, answer>>
vars == <<table, connections, memory, sends, faults>>

-----------------------------------------------------------------------------

NoRow == [state |-> "none", attempts |-> 0, turn |-> 0]
NoAnswer == [msg |-> 0, is |-> "none"]
NoBatch == [m \in Msgs |-> 0]
NoMarks == [m \in Msgs |-> "none"]

Init ==
  /\ row = [m \in Msgs |-> NoRow]
  /\ session = [d \in Dispatchers |-> "none"]
  /\ orphans = 0
  /\ pc = [d \in Dispatchers |-> "lock"]
  /\ batch = [d \in Dispatchers |-> NoBatch]
  /\ marks = [d \in Dispatchers |-> NoMarks]
  /\ answer = [d \in Dispatchers |-> NoAnswer]
  /\ sends = [m \in Msgs |-> [ok |-> 0, failed |-> 0]]
  /\ faults = 0

Due == {m \in Msgs : row[m].state = "due"}

\* The first k of a set of rows by their place.
FirstOf(S, place, k) == {m \in S : Cardinality({n \in S : place[n] < place[m]}) < k}

\* Row m becomes due in place t; the rows from there on come after it.
Enter(m, t) ==
  [n \in Msgs |->
     IF n = m THEN [row[m] EXCEPT !.state = "due", !.turn = t]
     ELSE IF n \in Due /\ row[n].turn >= t THEN [row[n] EXCEPT !.turn = @ + 1]
     ELSE row[n]]

-----------------------------------------------------------------------------
(* The table.                                                              *)

\* emit_completed commits a row; it is due at once, but by the time its
\* transaction began, which may be before that of rows already there.
Publish(m) ==
  /\ row[m].state = "none"
  /\ \A n \in 1..(m - 1) : row[n].state # "none"
  /\ \E t \in 1..(Cardinality(Due) + 1) : row' = Enter(m, t)
  /\ UNCHANGED <<connections, memory, sends, faults>>

\* next_attempt_at passes.  It was computed from the dispatcher's clock and
\* before a slow batch committed, so rows already due may come after it.
BackoffElapses(m) ==
  /\ row[m].state = "later"
  /\ \E t \in 1..(Cardinality(Due) + 1) : row' = Enter(m, t)
  /\ UNCHANGED <<connections, memory, sends, faults>>

-----------------------------------------------------------------------------
(* Run.                                                                    *)

\* Something fails, within the bound.
Fault == faults < MaxFaults /\ faults' = faults + 1

\* Mutant: the answer of pg_try_advisory_lock is not looked at.
TryLockIgnored(d) ==
  /\ pc[d] = "lock"
  /\ session' = [session EXCEPT ![d] = "held"]
  /\ pc' = [pc EXCEPT ![d] = "drain"]
  /\ UNCHANGED <<table, orphans, batch, marks, answer, sends, faults>>

\* pg_try_advisory_lock on a fresh connection; a refused try is repeated.
TryLock(d) ==
  /\ pc[d] = "lock"
  /\ orphans = 0 /\ \A e \in Dispatchers : session[e] # "held"
  /\ session' = [session EXCEPT ![d] = "held"]
  /\ pc' = [pc EXCEPT ![d] = "drain"]
  /\ UNCHANGED <<table, orphans, batch, marks, answer, sends, faults>>

\* An error while it acquires the lock ends Run, and the process with it.
LockFails(d) ==
  /\ Fault
  /\ pc[d] = "lock"
  /\ pc' = [pc EXCEPT ![d] = "down"]
  /\ UNCHANGED <<table, connections, batch, marks, answer, sends>>

\* What drainOnce keeps of the batch when it returns.
Forget(d) ==
  /\ batch' = [batch EXCEPT ![d] = NoBatch]
  /\ marks' = [marks EXCEPT ![d] = NoMarks]
  /\ answer' = [answer EXCEPT ![d] = NoAnswer]

\* Mutant: the connection goes back to the pool with the lock.
ReleaseLockLeaks(d) ==
  /\ pc[d] = "release" /\ session[d] = "held"
  /\ pc' = [pc EXCEPT ![d] = "lock"]
  /\ UNCHANGED <<table, connections, batch, marks, answer, sends, faults>>

\* drainOnce returned an error: unlock, give the connection back, start over.
ReleaseLock(d) ==
  /\ pc[d] = "release" /\ session[d] = "held"
  /\ session' = [session EXCEPT ![d] = "none"]
  /\ pc' = [pc EXCEPT ![d] = "lock"]
  /\ UNCHANGED <<table, orphans, batch, marks, answer, sends, faults>>

-----------------------------------------------------------------------------
(* drainOnce.                                                              *)

InBatch(d) == {m \in Msgs : batch[d][m] # 0}

\* ClaimDueOutbox: due rows that no open transaction has locked.
Claimable(d) ==
  Due \ UNION {InBatch(e) : e \in {f \in Dispatchers \ {d} : session[f] = "held"}}

\* An empty claim is rolled back and tried again.
ClaimDueOutbox(d) ==
  LET turn == [m \in Msgs |-> row[m].turn]
      claimed == FirstOf(Claimable(d), turn, BatchSize)
  IN  /\ pc[d] = "drain" /\ session[d] = "held"
      /\ Claimable(d) # {}
      /\ batch' = [batch EXCEPT ![d] = [m \in Msgs |-> IF m \in claimed THEN turn[m] ELSE 0]]
      /\ pc' = [pc EXCEPT ![d] = "send"]
      /\ UNCHANGED <<table, connections, marks, answer, sends, faults>>

\* The rows of the batch without a result, and the first of them.
ToDo(d) == {m \in InBatch(d) : marks[d][m] = "none"}
Current(d) == FirstOf(ToDo(d), batch[d], 1)

\* Mutant: an error answer counts as delivered.
SendIgnoresStatus(d, m) ==
  /\ pc[d] = "send" /\ m \in Current(d)
  /\ answer' = [answer EXCEPT ![d] = [msg |-> m, is |-> "ok"]]
  /\ \/ m \notin Configured /\ UNCHANGED sends
     \/ m \in Configured /\ sends' = [sends EXCEPT ![m].ok = @ + 1]
     \/ m \in Flaky /\ sends' = [sends EXCEPT ![m].failed = @ + 1]
  /\ pc' = [pc EXCEPT ![d] = "mark"]
  /\ UNCHANGED <<table, connections, batch, marks, faults>>

\* Sender.Send.  A merchant without a webhook counts as delivered; a timeout,
\* an answer outside 2xx and a failed lookup of the merchant are failures.
Send(d, m) ==
  /\ pc[d] = "send" /\ m \in Current(d)
  /\ \/ /\ m \notin Configured
        /\ answer' = [answer EXCEPT ![d] = [msg |-> m, is |-> "ok"]]
        /\ UNCHANGED <<sends, faults>>
     \/ /\ m \in Configured
        /\ answer' = [answer EXCEPT ![d] = [msg |-> m, is |-> "ok"]]
        /\ sends' = [sends EXCEPT ![m].ok = @ + 1]
        /\ UNCHANGED faults
     \/ /\ (m \in Flaky /\ UNCHANGED faults) \/ Fault
        /\ answer' = [answer EXCEPT ![d] = [msg |-> m, is |-> "failed"]]
        /\ sends' = [sends EXCEPT ![m].failed = @ + 1]
  /\ pc' = [pc EXCEPT ![d] = "mark"]
  /\ UNCHANGED <<table, connections, batch, marks>>

\* MarkOutboxDelivered or ScheduleOutboxRetry, inside the batch's transaction.
Mark(d) ==
  LET m == answer[d].msg
  IN  /\ pc[d] = "mark" /\ session[d] = "held"
      /\ marks' = [marks EXCEPT ![d][m] = IF answer[d].is = "ok" THEN "delivered" ELSE "retry"]
      /\ answer' = [answer EXCEPT ![d] = NoAnswer]
      /\ pc' = [pc EXCEPT ![d] = IF ToDo(d) = {m} THEN "commit" ELSE "send"]
      /\ UNCHANGED <<table, connections, batch, sends, faults>>

\* Mutant: one attempt too few.
MarkedEarly(d, m) ==
  CASE marks[d][m] = "delivered" -> [row[m] EXCEPT !.state = "delivered", !.turn = 0]
    [] marks[d][m] = "retry" ->
         [state |-> IF row[m].attempts + 2 >= MaxAttempts THEN "parked" ELSE "later",
          attempts |-> row[m].attempts + 1, turn |-> 0]
    [] OTHER -> row[m]

\* Mutant: delivered_at is not set.
MarkedUndelivered(d, m) ==
  IF marks[d][m] = "retry"
  THEN [state |-> IF row[m].attempts + 1 >= MaxAttempts THEN "parked" ELSE "later",
        attempts |-> row[m].attempts + 1, turn |-> 0]
  ELSE row[m]

\* Mutant: attempts counts down.
MarkedDown(d, m) ==
  CASE marks[d][m] = "delivered" -> [row[m] EXCEPT !.state = "delivered", !.turn = 0]
    [] marks[d][m] = "retry" -> [state |-> "later", attempts |-> row[m].attempts - 1, turn |-> 0]
    [] OTHER -> row[m]

\* A row after the transaction: a row that has used up its attempts is due
\* in a hundred years.
Marked(d, m) ==
  CASE marks[d][m] = "delivered" -> [row[m] EXCEPT !.state = "delivered", !.turn = 0]
    [] marks[d][m] = "retry" ->
         [state |-> IF row[m].attempts + 1 >= MaxAttempts THEN "parked" ELSE "later",
          attempts |-> row[m].attempts + 1, turn |-> 0]
    [] OTHER -> row[m]

\* The table after the transaction; the remaining due rows close up.
Applied(d) ==
  LET stay == {m \in Due : marks[d][m] = "none"}
  IN  [m \in Msgs |->
         IF m \in stay
         THEN [row[m] EXCEPT !.turn = Cardinality({n \in stay : row[n].turn <= row[m].turn})]
         ELSE Marked(d, m)]

\* Mutant: the transaction outlives its session.
CommitStale(d) ==
  /\ pc[d] = "commit"
  /\ row' = Applied(d)
  /\ Forget(d)
  /\ pc' = [pc EXCEPT ![d] = "drain"]
  /\ UNCHANGED <<connections, sends, faults>>

Commit(d) ==
  /\ pc[d] = "commit" /\ session[d] = "held"
  /\ row' = Applied(d)
  /\ Forget(d)
  /\ pc' = [pc EXCEPT ![d] = "drain"]
  /\ UNCHANGED <<connections, sends, faults>>

-----------------------------------------------------------------------------
(* Faults.                                                                 *)

\* The commit takes effect and its acknowledgement is lost with the session.
CommitUnacknowledged(d) ==
  /\ Fault
  /\ pc[d] = "commit" /\ session[d] = "held"
  /\ row' = Applied(d)
  /\ Forget(d)
  /\ session' = [session EXCEPT ![d] = "lost"]
  /\ pc' = [pc EXCEPT ![d] = "release"]
  /\ UNCHANGED <<orphans, sends>>

\* A statement fails on a live connection: the transaction is rolled back.
StatementFails(d) ==
  /\ Fault
  /\ pc[d] \in {"drain", "mark", "commit"} /\ session[d] = "held"
  /\ Forget(d)
  /\ pc' = [pc EXCEPT ![d] = "release"]
  /\ UNCHANGED <<table, connections, sends>>

\* Postgres ends the session; the dispatcher does not know yet.
ConnectionLost(d) ==
  /\ Fault
  /\ session[d] = "held"
  /\ session' = [session EXCEPT ![d] = "lost"]
  /\ UNCHANGED <<table, orphans, memory, sends>>

\* Its next statement fails, the rollback and the unlock too.
NoticeLoss(d) ==
  /\ session[d] = "lost"
  /\ pc[d] # "send"
  /\ Forget(d)
  /\ session' = [session EXCEPT ![d] = "none"]
  /\ pc' = [pc EXCEPT ![d] = "lock"]
  /\ UNCHANGED <<table, orphans, sends, faults>>

\* The process dies; its session stays until Postgres notices.
Crash(d) ==
  /\ Fault
  /\ pc[d] # "down"
  /\ orphans' = IF session[d] = "held" THEN orphans + 1 ELSE orphans
  /\ session' = [session EXCEPT ![d] = "none"]
  /\ Forget(d)
  /\ pc' = [pc EXCEPT ![d] = "down"]
  /\ UNCHANGED <<table, sends>>

Restart(d) ==
  /\ pc[d] = "down"
  /\ pc' = [pc EXCEPT ![d] = "lock"]
  /\ UNCHANGED <<table, connections, batch, marks, answer, sends, faults>>

SessionEnds ==
  /\ orphans > 0
  /\ orphans' = orphans - 1
  /\ UNCHANGED <<table, session, memory, sends, faults>>

-----------------------------------------------------------------------------

Step(d) ==
  \/ TryLock(d) \/ ReleaseLock(d) \/ ClaimDueOutbox(d)
  \/ \E m \in Msgs : Send(d, m)
  \/ Mark(d) \/ Commit(d) \/ NoticeLoss(d)

Next ==
  \/ \E m \in Msgs : Publish(m) \/ BackoffElapses(m)
  \/ \E d \in Dispatchers :
       \/ Step(d) \/ LockFails(d) \/ CommitUnacknowledged(d) \/ StatementFails(d)
       \/ ConnectionLost(d) \/ Crash(d) \/ Restart(d)
  \/ SessionEnds

Spec == Init /\ [][Next]_vars

\* Running dispatchers keep going, time passes, and Postgres notices a dead
\* client.  Nobody has to restart a dispatcher that went down.
Fairness ==
  /\ \A d \in Dispatchers : WF_vars(Step(d))
  /\ \A m \in Msgs : WF_vars(BackoffElapses(m))
  /\ WF_vars(SessionEnds)

FairSpec == Spec /\ Fairness

-----------------------------------------------------------------------------
(* Properties.                                                             *)

Row == [state: {"none", "due", "later", "parked", "delivered"}, attempts: Nat, turn: Nat]

\* The table, the sessions and the dispatchers' variables keep their types,
\* and the fault budget is not overdrawn.
TypeOK ==
  /\ row \in [Msgs -> Row]
  /\ session \in [Dispatchers -> {"none", "held", "lost"}]
  /\ orphans \in Nat
  /\ pc \in [Dispatchers -> {"down", "lock", "drain", "send", "mark", "commit", "release"}]
  /\ batch \in [Dispatchers -> [Msgs -> Nat]]
  /\ marks \in [Dispatchers -> [Msgs -> {"none", "delivered", "retry"}]]
  /\ answer \in [Dispatchers -> [msg: 0..N, is: {"none", "ok", "failed"}]]
  /\ sends \in [Msgs -> [ok: Nat, failed: Nat]]
  /\ faults \in 0..MaxFaults

\* A row is marked delivered only if its merchant answered 2xx to some
\* request, whatever was lost, repeated or rolled back in between.
DeliveredWasAccepted ==
  \A m \in Configured : row[m].state = "delivered" => sends[m].ok > 0

\* A row is parked only after MaxAttempts failed sends, and never has more
\* attempts on it than sends that failed, although the counter is raised in
\* a transaction that may be rolled back or repeated.
ParkedAfterFailures ==
  \A m \in Msgs :
    /\ row[m].attempts <= sends[m].failed
    /\ row[m].state = "parked" => row[m].attempts >= MaxAttempts

\* A merchant gets the same event again only because of a fault, once for
\* each: two dispatchers never both work on a row that nothing went wrong
\* with.
DuplicatesNeedFaults ==
  \A m \in Msgs : sends[m].ok <= 1 + faults

\* A dispatcher that lost its session never writes over what its successor
\* recorded: a delivered or parked row stays as it is.
FinishedStays ==
  [][\A m \in Msgs : row[m].state \in {"delivered", "parked"} => row'[m] = row[m]]_row

\* Every event is delivered, or parked if sending it keeps failing; rows that
\* fail do not keep the others from delivery, and a dispatcher that goes down
\* is replaced by another one, unless all went down and nobody restarts one.
PublishedEnds ==
  \/ \A m \in Msgs : row[m].state # "none" ~> row[m].state \in {"delivered", "parked"}
  \/ <>[](\A d \in Dispatchers : pc[d] = "down")

=============================================================================
