-------------------------- MODULE DispatcherProofs --------------------------
(***************************************************************************)
(* What the operators of Dispatcher make of a row, a batch and the         *)
(* counters, then proofs that DInv is an invariant of Dispatcher, and of   *)
(* the properties that follow from it, for any number of events,           *)
(* dispatchers and faults.                                                 *)
(***************************************************************************)
EXTENDS DispatcherInv, FiniteSetTheorems, TLAPS

USE DispatcherAssumption

\* A count of messages is a number.
LEMMA CountType ==
  ASSUME NEW S, S \subseteq Msgs
  PROVE  Cardinality(S) \in Nat
  <1>1. IsFiniteSet(Msgs)
    BY FS_Interval DEF Msgs
  <1> QED BY Zenon, <1>1, FS_Subset, FS_CardinalityType

LEMMA RowMoved ==
  ASSUME NEW r \in Row, NEW u \in Nat, NEW q, q = [r EXCEPT !.turn = u]
  PROVE  q \in Row /\ q.state = r.state /\ q.attempts = r.attempts
  BY Zenon DEF Row

LEMMA RowDelivered ==
  ASSUME NEW r \in Row, NEW q, q = [r EXCEPT !.state = "delivered", !.turn = 0]
  PROVE  q \in Row /\ q.state = "delivered" /\ q.attempts = r.attempts
  BY Zenon DEF Row

\* A row stays a row when it becomes due, in whatever place.
LEMMA EnterType ==
  ASSUME row \in [Msgs -> Row], NEW m \in Msgs, NEW t \in Nat
  PROVE  /\ Enter(m, t) \in [Msgs -> Row]
         /\ \A n \in Msgs : /\ Enter(m, t)[n].attempts = row[n].attempts
                            /\ n # m => Enter(m, t)[n].state = row[n].state
                            /\ Enter(m, t)[m].state = "due"
                            /\ n # m /\ row[n].state # "due" => Enter(m, t)[n] = row[n]
  <1>1. ASSUME NEW n \in Msgs PROVE row[n] \in Row /\ row[n].turn + 1 \in Nat
    BY DEF Row
  <1>2. ASSUME NEW r \in Row, NEW u \in Nat
        PROVE  /\ [r EXCEPT !.state = "due", !.turn = u] \in Row
               /\ [r EXCEPT !.turn = u] \in Row
    BY Zenon DEF Row
  <1>3. ASSUME NEW n \in Msgs PROVE Enter(m, t)[n] \in Row
    BY Zenon, <1>1, <1>2 DEF Enter
  <1>4. Enter(m, t) \in [Msgs -> Row]
    BY Zenon, <1>3 DEF Enter
  <1>5. ASSUME NEW n \in Msgs
        PROVE  /\ Enter(m, t)[n].attempts = row[n].attempts
               /\ n # m => Enter(m, t)[n].state = row[n].state
               /\ Enter(m, t)[m].state = "due"
               /\ n # m /\ row[n].state # "due" => Enter(m, t)[n] = row[n]
    BY Zenon, <1>1 DEF Enter, Row, Due
  <1> QED BY Zenon, <1>4, <1>5

\* What the batch's transaction makes of a row.
LEMMA MarkedType ==
  ASSUME row \in [Msgs -> Row], NEW d, NEW m \in Msgs
  PROVE  /\ Marked(d, m) \in Row
         /\ marks[d][m] \notin {"delivered", "retry"} => Marked(d, m) = row[m]
         /\ Marked(d, m).state = "delivered" => marks[d][m] = "delivered" \/ Marked(d, m) = row[m]
         /\ Marked(d, m).state = "parked" =>
              Marked(d, m) = row[m] \/ Marked(d, m).attempts >= MaxAttempts
         /\ \/ Marked(d, m).attempts = row[m].attempts
            \/ marks[d][m] = "retry" /\ Marked(d, m).attempts = row[m].attempts + 1
  <1>1. row[m] \in Row /\ row[m].attempts \in Nat
    BY Zenon DEF Row
  <1>2. CASE marks[d][m] = "delivered"
    <2>1. Marked(d, m) = [row[m] EXCEPT !.state = "delivered", !.turn = 0]
      BY Zenon, <1>2 DEF Marked
    <2>2. /\ Marked(d, m) \in Row /\ Marked(d, m).state = "delivered"
          /\ Marked(d, m).attempts = row[m].attempts
      BY <1>1, <2>1, RowDelivered, Zenon
    <2> QED BY Zenon, <1>2, <2>2
  <1>3. CASE marks[d][m] = "retry"
    <2>1. Marked(d, m) = [state |-> IF row[m].attempts + 1 >= MaxAttempts THEN "parked" ELSE "later",
                          attempts |-> row[m].attempts + 1, turn |-> 0]
      BY Zenon, <1>3 DEF Marked
    <2> QED BY <1>1, <1>3, <2>1 DEF Row
  <1>4. CASE marks[d][m] \notin {"delivered", "retry"}
    <2>1. Marked(d, m) = row[m]
      BY Zenon, <1>4 DEF Marked
    <2> QED BY Zenon, <1>1, <1>4, <2>1
  <1> QED BY Zenon, <1>2, <1>3, <1>4

LEMMA AppliedType ==
  ASSUME row \in [Msgs -> Row], NEW d
  PROVE  /\ Applied(d) \in [Msgs -> Row]
         /\ \A m \in Msgs :
              \/ Applied(d)[m] = Marked(d, m)
              \/ /\ Applied(d)[m].state = "due" /\ row[m].state = "due"
                 /\ Applied(d)[m].attempts = row[m].attempts
  <1> DEFINE stay == {m \in Due : marks[d][m] = "none"}
             place(m) == Cardinality({n \in stay : row[n].turn <= row[m].turn})
  <1>1. ASSUME NEW m \in Msgs PROVE place(m) \in Nat
    BY Zenon, CountType DEF Due
  <1>2. Applied(d) = [m \in Msgs |-> IF m \in stay THEN [row[m] EXCEPT !.turn = place(m)]
                                     ELSE Marked(d, m)]
    BY Zenon DEF Applied
  <1> HIDE DEF place
  <1>3. ASSUME NEW m \in Msgs, m \in stay
        PROVE  /\ Applied(d)[m] \in Row /\ Applied(d)[m].state = row[m].state
               /\ Applied(d)[m].attempts = row[m].attempts
    <2>1. row[m] \in Row /\ place(m) \in Nat
      BY Zenon, <1>1
    <2>2. Applied(d)[m] = [row[m] EXCEPT !.turn = place(m)]
      BY Zenon, <1>2, <1>3
    <2> HIDE DEF stay
    <2> QED BY ONLY <2>1, <2>2, RowMoved
  <1>4. ASSUME NEW m \in Msgs
        PROVE  /\ Applied(d)[m] \in Row
               /\ \/ Applied(d)[m] = Marked(d, m)
                  \/ /\ Applied(d)[m].state = "due" /\ row[m].state = "due"
                     /\ Applied(d)[m].attempts = row[m].attempts
    <2>1. CASE m \in stay
      BY Zenon, <1>3, <2>1 DEF Due
    <2>2. CASE m \notin stay
      <3>1. Applied(d)[m] = Marked(d, m)
        BY Zenon, <1>2, <2>2
      <3> QED BY <3>1, MarkedType
    <2> QED BY Zenon, <2>1, <2>2
  <1> QED BY Zenon, <1>2, <1>4

\* What Send counts, it counts up.
LEMMA SendsRise ==
  ASSUME sends \in [Msgs -> [ok: Nat, failed: Nat]], NEW m \in Msgs, NEW q,
         q = sends \/ q = [sends EXCEPT ![m].ok = @ + 1] \/ q = [sends EXCEPT ![m].failed = @ + 1]
  PROVE  /\ q \in [Msgs -> [ok: Nat, failed: Nat]]
         /\ \A n \in Msgs : q[n].ok >= sends[n].ok /\ q[n].failed >= sends[n].failed
         /\ q = [sends EXCEPT ![m].ok = @ + 1] => q[m].ok > 0
         /\ q = [sends EXCEPT ![m].failed = @ + 1] => q[m].failed > sends[m].failed
  OBVIOUS

LEMMA CountsStay ==
  ASSUME TypeOK
  PROVE  \A m \in Msgs : /\ sends[m].ok >= sends[m].ok /\ sends[m].failed >= sends[m].failed
                         /\ sends[m].ok \in Nat /\ sends[m].failed \in Nat /\ row[m].attempts \in Nat
  BY DEF TypeOK, Row

LEMMA TypeInit == Init => TypeOK
  BY DEF Init, TypeOK, NoRow, Row, NoBatch, NoMarks, NoAnswer, Msgs

LEMMA TypeStutter == TypeOK /\ UNCHANGED vars => TypeOK'
  BY Zenon DEF TypeOK, vars, table, connections, memory

LEMMA ForgetType ==
  ASSUME TypeOK, NEW d \in Dispatchers, Forget(d)
  PROVE  /\ batch' \in [Dispatchers -> [Msgs -> Nat]]
         /\ marks' \in [Dispatchers -> [Msgs -> {"none", "delivered", "retry"}]]
         /\ answer' \in [Dispatchers -> [msg: 0..N, is: {"none", "ok", "failed"}]]
         /\ batch'[d] = NoBatch /\ marks'[d] = NoMarks
         /\ \A e \in Dispatchers : e # d => UNCHANGED <<batch[e], marks[e], answer[e]>>
  <1>1. NoBatch \in [Msgs -> Nat] /\ NoMarks \in [Msgs -> {"none", "delivered", "retry"}]
    BY Zenon DEF NoBatch, NoMarks
  <1>2. NoAnswer \in [msg: 0..N, is: {"none", "ok", "failed"}]
    BY DEF NoAnswer
  <1> QED BY Zenon, <1>1, <1>2 DEF Forget, TypeOK

LEMMA FaultType ==
  ASSUME faults \in 0..MaxFaults, Fault
  PROVE  faults' \in 0..MaxFaults
  BY DEF Fault

\* Publishing and waiting keep the types.
LEMMA TypeTable ==
  ASSUME TypeOK, NEW m \in Msgs, Publish(m) \/ BackoffElapses(m)
  PROVE  TypeOK'
  <1> USE DEF connections, memory
  <1>1. PICK t \in 1..(Cardinality(Due) + 1) : row' = Enter(m, t)
    BY Zenon DEF Publish, BackoffElapses
  <1>2. t \in Nat
    <2>1. Cardinality(Due) \in Nat
      BY Zenon, CountType DEF Due
    <2> QED BY <1>1, <2>1
  <1>3. row' \in [Msgs -> Row]
    BY Zenon, <1>1, <1>2, EnterType DEF TypeOK
  <1>4. UNCHANGED <<session, orphans, pc, batch, marks, answer, sends, faults>>
    BY Zenon DEF Publish, BackoffElapses
  <1> QED BY Zenon, <1>3, <1>4 DEF TypeOK

\* Every step of a dispatcher, and every fault, keeps the types.
LEMMA TypeSession ==
  ASSUME TypeOK, NEW d \in Dispatchers,
         TryLock(d) \/ ReleaseLock(d) \/ LockFails(d) \/ ConnectionLost(d) \/ Restart(d)
  PROVE  TypeOK'
  <1> USE DEF table, connections, memory
  <1>1. UNCHANGED <<row, orphans, batch, marks, answer, sends>>
    BY Zenon DEF TryLock, ReleaseLock, LockFails, ConnectionLost, Restart
  <1>2. faults' \in 0..MaxFaults
    BY Zenon, FaultType DEF TryLock, ReleaseLock, LockFails, ConnectionLost, Restart, TypeOK
  <1>3. session' \in [Dispatchers -> {"none", "held", "lost"}]
    BY SMTT(30) DEF TryLock, ReleaseLock, LockFails, ConnectionLost, Restart, TypeOK
  <1>4. pc' \in [Dispatchers -> {"down", "lock", "drain", "send", "mark", "commit", "release"}]
    BY DEF TryLock, ReleaseLock, LockFails, ConnectionLost, Restart, TypeOK
  <1> QED BY Zenon, <1>1, <1>2, <1>3, <1>4 DEF TypeOK

LEMMA TypeEnd ==
  ASSUME TypeOK, NEW d \in Dispatchers,
         Commit(d) \/ CommitUnacknowledged(d) \/ StatementFails(d) \/ NoticeLoss(d) \/ Crash(d)
  PROVE  TypeOK'
  <1> USE DEF table, connections, memory
  <1>1. /\ batch' \in [Dispatchers -> [Msgs -> Nat]]
        /\ marks' \in [Dispatchers -> [Msgs -> {"none", "delivered", "retry"}]]
        /\ answer' \in [Dispatchers -> [msg: 0..N, is: {"none", "ok", "failed"}]]
    <2>1. Forget(d)
      BY Zenon DEF Commit, CommitUnacknowledged, StatementFails, NoticeLoss, Crash
    <2> QED BY Zenon, <2>1, ForgetType
  <1>2. row' \in [Msgs -> Row]
    BY AppliedType DEF Commit, CommitUnacknowledged, StatementFails, NoticeLoss, Crash, TypeOK
  <1>3. faults' \in 0..MaxFaults
    BY Zenon, FaultType DEF Commit, CommitUnacknowledged, StatementFails, NoticeLoss, Crash, TypeOK
  <1>4. session' \in [Dispatchers -> {"none", "held", "lost"}]
    BY ZenonT(40) DEF Commit, CommitUnacknowledged, StatementFails, NoticeLoss, Crash, TypeOK
  <1>5. pc' \in [Dispatchers -> {"down", "lock", "drain", "send", "mark", "commit", "release"}]
    BY DEF Commit, CommitUnacknowledged, StatementFails, NoticeLoss, Crash, TypeOK
  <1>6. orphans' \in Nat /\ sends' = sends
    BY DEF Commit, CommitUnacknowledged, StatementFails, NoticeLoss, Crash, TypeOK
  <1> QED BY Zenon, <1>1, <1>2, <1>3, <1>4, <1>5, <1>6 DEF TypeOK

LEMMA TypeDrain ==
  ASSUME TypeOK, NEW d \in Dispatchers, ClaimDueOutbox(d) \/ (\E m \in Msgs : Send(d, m))
  PROVE  TypeOK'
  <1> USE DEF table, connections, memory
  <1>1. CASE ClaimDueOutbox(d)
    <2>1. PICK claimed : batch' = [batch EXCEPT ![d] =
                                     [m \in Msgs |-> IF m \in claimed THEN [n \in Msgs |-> row[n].turn][m] ELSE 0]]
      BY Zenon, <1>1 DEF ClaimDueOutbox
    <2>2. \A m \in Msgs : row[m].turn \in Nat
      BY Zenon DEF TypeOK, Row
    <2>3. batch' \in [Dispatchers -> [Msgs -> Nat]]
      BY Zenon, <2>1, <2>2 DEF TypeOK
    <2>4. pc' \in [Dispatchers -> {"down", "lock", "drain", "send", "mark", "commit", "release"}]
      BY Zenon, <1>1 DEF ClaimDueOutbox, TypeOK
    <2> QED BY Zenon, <1>1, <2>3, <2>4 DEF ClaimDueOutbox, TypeOK
  <1>2. ASSUME NEW m \in Msgs, Send(d, m) PROVE TypeOK'
    <2>1. sends' \in [Msgs -> [ok: Nat, failed: Nat]]
      BY Zenon, <1>2, SendsRise DEF Send, TypeOK
    <2>2. faults' \in 0..MaxFaults
      BY Zenon, <1>2, FaultType DEF Send, TypeOK
    <2>3. answer' \in [Dispatchers -> [msg: 0..N, is: {"none", "ok", "failed"}]]
      <3>1. m \in 0..N
        BY DEF Msgs
      <3>2. PICK a \in {"ok", "failed"} : answer' = [answer EXCEPT ![d] = [msg |-> m, is |-> a]]
        BY Zenon, <1>2 DEF Send
      <3> QED BY Zenon, <3>1, <3>2 DEF TypeOK
    <2>4. pc' \in [Dispatchers -> {"down", "lock", "drain", "send", "mark", "commit", "release"}]
      BY Zenon, <1>2 DEF Send, TypeOK
    <2>5. UNCHANGED <<row, session, orphans, batch, marks>>
      BY Zenon, <1>2 DEF Send
    <2> QED BY Zenon, <2>1, <2>2, <2>3, <2>4, <2>5 DEF TypeOK
  <1> QED BY Zenon, <1>1, <1>2

LEMMA TypeMark ==
  ASSUME TypeOK, NEW d \in Dispatchers, Mark(d), answer[d].msg \in Msgs
  PROVE  TypeOK'
  <1> USE DEF table, connections, memory
  <1>1. marks' \in [Dispatchers -> [Msgs -> {"none", "delivered", "retry"}]]
    BY Zenon DEF Mark, TypeOK
  <1>2. answer' \in [Dispatchers -> [msg: 0..N, is: {"none", "ok", "failed"}]]
    <2>1. NoAnswer \in [msg: 0..N, is: {"none", "ok", "failed"}]
      BY DEF NoAnswer
    <2> QED BY Zenon, <2>1 DEF Mark, TypeOK
  <1>3. pc' \in [Dispatchers -> {"down", "lock", "drain", "send", "mark", "commit", "release"}]
    BY Zenon DEF Mark, TypeOK
  <1>4. UNCHANGED <<row, session, orphans, batch, sends, faults>>
    BY Zenon DEF Mark
  <1> QED BY Zenon, <1>1, <1>2, <1>3, <1>4 DEF TypeOK

-----------------------------------------------------------------------------
LEMMA InvInit == Init => DInv
  <1> SUFFICES ASSUME Init PROVE DInv
    BY Zenon
  <1>1. TypeOK
    BY Zenon, TypeInit
  <1>2. \A d \in Dispatchers : session[d] = "none" /\ pc[d] = "lock" /\ batch[d] = NoBatch /\ marks[d] = NoMarks
    BY Zenon DEF Init
  <1>3. DeliveredWasAccepted /\ ParkedAfterFailures
    <2>1. \A m \in Msgs : row[m].state = "none" /\ row[m].attempts = 0 /\ sends[m].failed = 0
      BY Zenon DEF Init, NoRow
    <2> QED BY <2>1 DEF DeliveredWasAccepted, ParkedAfterFailures
  <1> QED BY Zenon, <1>1, <1>2, <1>3 DEF DInv, OneHolds, BatchesOK, RestingIsEmpty, AnswerIsForMessage

\* A step keeps DInv if it takes no due row away, finishes none, only counts
\* sends up, and leaves each dispatcher with its batch or with none.
LEMMA InvFrame ==
  ASSUME DInv, TypeOK',
         \A m \in Msgs : /\ row'[m].attempts = row[m].attempts
                         /\ row[m].state = "due" => row'[m].state = "due"
                         /\ row'[m].state \in {"delivered", "parked"} => row'[m].state = row[m].state
                         /\ sends'[m].ok >= sends[m].ok /\ sends'[m].failed >= sends[m].failed,
         OneHolds',
         \A d \in Dispatchers :
           \/ /\ UNCHANGED <<batch[d], marks[d], answer[d], pc[d]>>
              /\ session'[d] = "held" => session[d] = "held"
           \/ batch'[d] = NoBatch /\ marks'[d] = NoMarks /\ pc'[d] # "mark"
  PROVE  DInv'
  <1>0. NoBatch' = NoBatch /\ NoMarks' = NoMarks
    BY Zenon DEF NoBatch, NoMarks
  <1>1. \A m \in Msgs : /\ row[m].attempts \in Nat /\ sends[m].ok \in Nat /\ sends[m].failed \in Nat
                        /\ sends'[m].ok \in Nat /\ sends'[m].failed \in Nat
    BY Zenon DEF DInv, TypeOK, Row
  <1>2. ASSUME NEW d \in Dispatchers, session'[d] = "held", NEW m \in Msgs PROVE BatchOK(d, m)'
    <2>1. CASE UNCHANGED <<batch[d], marks[d], answer[d], pc[d]>> /\ session[d] = "held"
      <3>1. BatchOK(d, m) /\ InBatch(d)' = InBatch(d)
        BY Zenon, <2>1 DEF DInv, BatchesOK, InBatch
      <3> QED BY <1>1, <2>1, <3>1 DEF BatchOK
    <2>2. CASE batch'[d] = NoBatch /\ marks'[d] = NoMarks /\ pc'[d] # "mark"
      BY Zenon, <2>2 DEF BatchOK, InBatch, NoBatch, NoMarks
    <2> QED BY Zenon, <1>2, <2>1, <2>2
  <1>3. BatchesOK'
    BY Zenon, <1>2 DEF BatchesOK
  <1>4. RestingIsEmpty'
    BY Zenon, <1>0 DEF DInv, RestingIsEmpty
  <1>5. AnswerIsForMessage'
    BY Zenon DEF DInv, AnswerIsForMessage
  <1>6. DeliveredWasAccepted'
    BY <1>1 DEF DInv, DeliveredWasAccepted
  <1>7. ParkedAfterFailures'
    BY <1>1 DEF DInv, ParkedAfterFailures
  <1> QED BY Zenon, <1>3, <1>4, <1>5, <1>6, <1>7 DEF DInv

\* A row that becomes due belongs to no batch.
LEMMA InvTable ==
  ASSUME DInv, NEW m \in Msgs, Publish(m) \/ BackoffElapses(m)
  PROVE  DInv'
  <1> USE DEF connections, memory
  <1>1. PICK t \in 1..(Cardinality(Due) + 1) : row' = Enter(m, t)
    BY Zenon DEF Publish, BackoffElapses
  <1>2. t \in Nat
    <2>1. Cardinality(Due) \in Nat
      BY Zenon, CountType DEF Due
    <2> QED BY <1>1, <2>1
  <1>3. TypeOK' /\ TypeOK
    BY Zenon, TypeTable DEF DInv
  <1>4. row[m].state \in {"none", "later"}
    BY Zenon DEF Publish, BackoffElapses
  <1>5. ASSUME NEW n \in Msgs
        PROVE  /\ row'[n].attempts = row[n].attempts
               /\ row[n].state = "due" => row'[n].state = "due"
               /\ row'[n].state \in {"delivered", "parked"} => row'[n].state = row[n].state
    <2>1. row \in [Msgs -> Row]
      BY Zenon, <1>3 DEF TypeOK
    <2>2. /\ Enter(m, t)[n].attempts = row[n].attempts
          /\ n # m => Enter(m, t)[n].state = row[n].state
          /\ Enter(m, t)[m].state = "due"
      BY <1>2, <2>1, EnterType
    <2> QED BY Zenon, <1>1, <1>4, <2>2
  <1>6. UNCHANGED <<session, pc, batch, marks, answer, sends>>
    BY Zenon DEF Publish, BackoffElapses
  <1>7. \A n \in Msgs : sends[n].ok >= sends[n].ok /\ sends[n].failed >= sends[n].failed
    BY Zenon, <1>3, CountsStay
  <1>8. OneHolds'
    BY Zenon, <1>6 DEF DInv, OneHolds
  <1> QED BY Zenon, <1>3, <1>5, <1>6, <1>7, <1>8, InvFrame

\* Taking and losing the lock, failing and starting over keep it.
LEMMA InvSession ==
  ASSUME DInv, NEW d \in Dispatchers,
         \/ TryLock(d) \/ ReleaseLock(d) \/ LockFails(d) \/ ConnectionLost(d) \/ Restart(d)
         \/ StatementFails(d) \/ NoticeLoss(d) \/ Crash(d)
  PROVE  DInv'
  <1> USE DEF table, connections, memory
  <1>1. TypeOK' /\ TypeOK
    BY Zenon, TypeSession, TypeEnd DEF DInv
  <1>2. row' = row /\ sends' = sends
    BY Zenon DEF TryLock, ReleaseLock, LockFails, ConnectionLost, Restart, StatementFails, NoticeLoss, Crash
  <1>3. \A m \in Msgs : sends[m].ok >= sends[m].ok /\ sends[m].failed >= sends[m].failed
    BY Zenon, <1>1, CountsStay
  <1>4. /\ \A e \in Dispatchers : e # d => session'[e] = session[e] /\ pc'[e] = pc[e]
        /\ session'[d] = "held" => \/ session[d] = "held"
                                  \/ \A e \in Dispatchers : session[e] # "held"
    BY <1>1 DEF TryLock, ReleaseLock, LockFails, ConnectionLost, Restart, StatementFails, NoticeLoss, Crash, TypeOK
  <1>5. OneHolds'
    BY Zenon, <1>4 DEF DInv, OneHolds
  <1>6. \A e \in Dispatchers : e # d => UNCHANGED <<batch[e], marks[e], answer[e]>>
    BY Zenon, <1>1, ForgetType DEF TryLock, ReleaseLock, LockFails, ConnectionLost, Restart, StatementFails, NoticeLoss, Crash
  <1>7. \/ /\ UNCHANGED <<batch[d], marks[d], answer[d], pc[d]>>
           /\ session'[d] = "held" => session[d] = "held"
        \/ batch'[d] = NoBatch /\ marks'[d] = NoMarks /\ pc'[d] # "mark"
    <2>1. CASE StatementFails(d) \/ NoticeLoss(d) \/ Crash(d)
      <3>1. Forget(d) /\ pc'[d] # "mark"
        BY <1>1, <2>1 DEF StatementFails, NoticeLoss, Crash, TypeOK
      <3> QED BY Zenon, <1>1, <3>1, ForgetType
    <2>2. CASE TryLock(d) \/ ReleaseLock(d) \/ LockFails(d) \/ Restart(d)
      <3>1. pc[d] \in {"lock", "release", "down"} /\ pc'[d] # "mark" /\ UNCHANGED <<batch, marks>>
        BY Zenon, <1>1, <2>2 DEF TryLock, ReleaseLock, LockFails, Restart, TypeOK
      <3> QED BY Zenon, <3>1 DEF DInv, RestingIsEmpty
    <2>3. CASE ConnectionLost(d)
      BY Zenon, <1>1, <2>3 DEF ConnectionLost, TypeOK
    <2> QED BY Zenon, <2>1, <2>2, <2>3
  <1> QED BY Zenon, <1>1, <1>2, <1>3, <1>4, <1>5, <1>6, <1>7, InvFrame

LEMMA InvSessionEnds ==
  ASSUME DInv, SessionEnds \/ UNCHANGED vars
  PROVE  DInv'
  <1> USE DEF vars, table, connections, memory
  <1>1. UNCHANGED <<row, session, pc, batch, marks, answer, sends, faults>> /\ TypeOK
    BY Zenon DEF SessionEnds, DInv
  <1>2. orphans' \in Nat
    BY DEF SessionEnds, DInv, TypeOK
  <1>3. TypeOK'
    BY Zenon, <1>1, <1>2 DEF TypeOK
  <1>4. \A m \in Msgs : sends[m].ok >= sends[m].ok /\ sends[m].failed >= sends[m].failed
    BY Zenon, <1>1, CountsStay
  <1>5. OneHolds'
    BY Zenon, <1>1 DEF DInv, OneHolds
  <1> QED BY Zenon, <1>1, <1>3, <1>4, <1>5, InvFrame

\* A claim takes due rows only.
LEMMA InvClaim ==
  ASSUME DInv, NEW d \in Dispatchers, ClaimDueOutbox(d)
  PROVE  DInv'
  <1> USE DEF table, connections, memory
  <1>1. TypeOK' /\ TypeOK
    BY Zenon, TypeDrain DEF DInv
  <1>2. /\ UNCHANGED <<row, session, marks, answer, sends>>
        /\ pc[d] = "drain" /\ marks[d] = NoMarks /\ pc' = [pc EXCEPT ![d] = "send"]
    BY Zenon DEF ClaimDueOutbox, DInv, RestingIsEmpty
  <1>3. \A e \in Dispatchers : e # d => pc'[e] = pc[e] /\ batch'[e] = batch[e]
    BY <1>1 DEF ClaimDueOutbox, TypeOK
  <1>4. pc'[d] = "send" /\ marks'[d] = NoMarks
    BY Zenon, <1>1, <1>2 DEF TypeOK
  <1>5. \A m \in Msgs : batch'[d][m] # 0 => row[m].state = "due"
    <2>1. PICK claimed \in SUBSET Claimable(d) : batch' = [batch EXCEPT ![d] =
                             [m \in Msgs |-> IF m \in claimed THEN [n \in Msgs |-> row[n].turn][m] ELSE 0]]
      BY Zenon DEF ClaimDueOutbox, FirstOf
    <2>2. claimed \subseteq Due
      BY Zenon, <2>1 DEF Claimable
    <2> QED BY Zenon, <1>1, <2>1, <2>2 DEF Due, TypeOK
  <1>6. ASSUME NEW e \in Dispatchers, session'[e] = "held", NEW m \in Msgs PROVE BatchOK(e, m)'
    <2>1. CASE e = d
      BY Zenon, <1>2, <1>4, <1>5, <2>1 DEF BatchOK, InBatch, NoMarks
    <2>2. CASE e # d
      <3>1. BatchOK(e, m)
        BY Zenon, <1>2, <1>6 DEF DInv, BatchesOK
      <3> QED BY Zenon, <1>2, <1>3, <2>2, <3>1 DEF BatchOK, InBatch
    <2> QED BY Zenon, <2>1, <2>2
  <1>7. NoBatch' = NoBatch /\ NoMarks' = NoMarks
    BY Zenon DEF NoBatch, NoMarks
  <1>8. BatchesOK'
    BY Zenon, <1>6 DEF BatchesOK
  <1>9. OneHolds' /\ DeliveredWasAccepted' /\ ParkedAfterFailures'
    BY Zenon, <1>2 DEF DInv, OneHolds, DeliveredWasAccepted, ParkedAfterFailures
  <1>10. RestingIsEmpty'
    BY Zenon, <1>2, <1>3, <1>4, <1>7 DEF DInv, RestingIsEmpty
  <1>11. AnswerIsForMessage'
    BY Zenon, <1>2, <1>3, <1>4 DEF DInv, AnswerIsForMessage
  <1> QED BY Zenon, <1>1, <1>8, <1>9, <1>10, <1>11 DEF DInv

\* What Send returned is what the counters say of the message it sent.
LEMMA InvSend ==
  ASSUME DInv, NEW d \in Dispatchers, NEW m \in Msgs, Send(d, m)
  PROVE  DInv'
  <1> USE DEF table, connections, memory
  <1>1. TypeOK' /\ TypeOK
    BY Zenon, TypeDrain DEF DInv
  <1>2. /\ UNCHANGED <<row, session, batch, marks>>
        /\ pc' = [pc EXCEPT ![d] = "mark"] /\ m \in InBatch(d)
    BY Zenon DEF Send, Current, FirstOf, ToDo
  <1>3. /\ \A e \in Dispatchers : e # d => pc'[e] = pc[e] /\ answer'[e] = answer[e]
        /\ pc'[d] = "mark" /\ answer'[d].msg = m
    BY <1>1 DEF Send, TypeOK
  <1>4. \A n \in Msgs : /\ sends'[n].ok >= sends[n].ok /\ sends'[n].failed >= sends[n].failed
                        /\ sends[n].ok \in Nat /\ sends[n].failed \in Nat
                        /\ sends'[n].ok \in Nat /\ sends'[n].failed \in Nat
                        /\ row[n].attempts \in Nat
    <2>1. /\ sends \in [Msgs -> [ok: Nat, failed: Nat]]
          /\ \/ sends' = sends \/ sends' = [sends EXCEPT ![m].ok = @ + 1]
             \/ sends' = [sends EXCEPT ![m].failed = @ + 1]
      BY Zenon, <1>1 DEF Send, TypeOK
    <2>2. \A n \in Msgs : sends'[n].ok >= sends[n].ok /\ sends'[n].failed >= sends[n].failed
      BY Zenon, <2>1, SendsRise
    <2>3. \A n \in Msgs : /\ sends[n].ok \in Nat /\ sends[n].failed \in Nat
                          /\ sends'[n].ok \in Nat /\ sends'[n].failed \in Nat
                          /\ row[n].attempts \in Nat
      BY Zenon, <1>1 DEF TypeOK, Row
    <2> QED BY Zenon, <2>2, <2>3
  <1>5. /\ answer'[d].is = "ok" /\ m \in Configured => sends'[m].ok > 0
        /\ answer'[d].is # "ok" => sends'[m].failed > sends[m].failed
    <2>1. /\ answer'[d].is = "ok" /\ m \in Configured => sends' = [sends EXCEPT ![m].ok = @ + 1]
          /\ answer'[d].is # "ok" => sends' = [sends EXCEPT ![m].failed = @ + 1]
      BY <1>1 DEF Send, TypeOK
    <2>2. sends \in [Msgs -> [ok: Nat, failed: Nat]]
      BY Zenon, <1>1 DEF TypeOK
    <2> QED BY Zenon, <2>1, <2>2, SendsRise
  <1>6. ASSUME NEW e \in Dispatchers, session'[e] = "held", NEW n \in Msgs PROVE BatchOK(e, n)'
    <2>1. BatchOK(e, n) /\ InBatch(e)' = InBatch(e)
      BY Zenon, <1>2, <1>6 DEF DInv, BatchesOK, InBatch
    <2>2. row[n].attempts <= sends[n].failed
      BY SMTT(30) DEF DInv, ParkedAfterFailures
    <2>3. CASE e = d
      BY <1>2, <1>3, <1>4, <1>5, <2>1, <2>2, <2>3 DEF BatchOK
    <2>4. CASE e # d
      BY <1>2, <1>3, <1>4, <2>1, <2>4 DEF BatchOK
    <2> QED BY Zenon, <2>3, <2>4
  <1>7. NoBatch' = NoBatch /\ NoMarks' = NoMarks
    BY Zenon DEF NoBatch, NoMarks
  <1>8. DeliveredWasAccepted'
    BY <1>2, <1>4 DEF DInv, DeliveredWasAccepted
  <1>9. ParkedAfterFailures'
    BY <1>2, <1>4 DEF DInv, ParkedAfterFailures
  <1>10. BatchesOK' /\ OneHolds'
    BY Zenon, <1>2, <1>6 DEF DInv, BatchesOK, OneHolds
  <1>11. RestingIsEmpty'
    BY Zenon, <1>2, <1>3, <1>7 DEF DInv, RestingIsEmpty
  <1>12. AnswerIsForMessage'
    BY Zenon, <1>3 DEF DInv, AnswerIsForMessage
  <1> QED BY Zenon, <1>1, <1>8, <1>9, <1>10, <1>11, <1>12 DEF DInv

\* A mark records the answer to the message it is for.
LEMMA InvMark ==
  ASSUME DInv, NEW d \in Dispatchers, Mark(d)
  PROVE  DInv'
  <1> DEFINE m == answer[d].msg
  <1> USE DEF table, connections, memory
  <1>1. m \in Msgs /\ pc[d] = "mark" /\ session[d] = "held"
    BY Zenon DEF DInv, AnswerIsForMessage, Mark
  <1>2. TypeOK' /\ TypeOK
    BY Zenon, <1>1, TypeMark DEF DInv
  <1>3. /\ UNCHANGED <<row, session, batch, sends>>
        /\ marks'[d] = [marks[d] EXCEPT ![m] = IF answer[d].is = "ok" THEN "delivered" ELSE "retry"]
        /\ pc'[d] \in {"commit", "send"}
        /\ \A e \in Dispatchers : e # d => UNCHANGED <<marks[e], answer[e], pc[e]>>
    BY <1>2 DEF Mark, TypeOK
  <1>4. marks[d] \in [Msgs -> {"none", "delivered", "retry"}]
    BY Zenon, <1>2 DEF TypeOK
  <1>5. ASSUME NEW e \in Dispatchers, session'[e] = "held", NEW n \in Msgs PROVE BatchOK(e, n)'
    <2>1. BatchOK(e, n) /\ InBatch(e)' = InBatch(e)
      BY SMTT(30), <1>3, <1>5 DEF DInv, BatchesOK, InBatch
    <2>2. CASE e = d /\ n = m
      <3>1. marks'[d][m] = IF answer[d].is = "ok" THEN "delivered" ELSE "retry"
        BY Zenon, <1>1, <1>3, <1>4
      <3> QED BY Zenon, <1>1, <1>3, <2>1, <2>2, <3>1 DEF BatchOK
    <2>3. CASE e = d /\ n # m
      <3>1. marks'[d][n] = marks[d][n]
        BY Zenon, <1>3, <1>4, <2>3
      <3> QED BY ZenonT(40), <1>3, <2>1, <2>3, <3>1 DEF BatchOK
    <2>4. CASE e # d
      BY Zenon, <1>3, <2>1, <2>4 DEF BatchOK
    <2> QED BY Zenon, <2>2, <2>3, <2>4
  <1>6. NoBatch' = NoBatch /\ NoMarks' = NoMarks
    BY DEF NoBatch, NoMarks
  <1>7. DeliveredWasAccepted' /\ ParkedAfterFailures'
    BY SMTT(30), <1>3 DEF DInv, DeliveredWasAccepted, ParkedAfterFailures
  <1>8. BatchesOK' /\ OneHolds'
    BY SMTT(30), <1>3, <1>5 DEF DInv, BatchesOK, OneHolds
  <1>9. RestingIsEmpty'
    BY Zenon, <1>3, <1>6 DEF DInv, RestingIsEmpty
  <1>10. AnswerIsForMessage'
    BY Zenon, <1>3 DEF DInv, AnswerIsForMessage
  <1> QED BY Zenon, <1>2, <1>7, <1>8, <1>9, <1>10 DEF DInv

\* What a commit may do to a row: nothing to one outside the batch.
LEMMA Recorded ==
  ASSUME DInv, NEW d \in Dispatchers, session[d] = "held", NEW m \in Msgs
  PROVE  LET new == Applied(d)[m] IN
         /\ row[m].state \in {"delivered", "parked"} => new = row[m]
         /\ new.state = "delivered" /\ m \in Configured => sends[m].ok > 0
         /\ new.state = "parked" => new.attempts >= MaxAttempts
         /\ new.attempts <= sends[m].failed
  <1>1. /\ BatchOK(d, m) /\ row \in [Msgs -> Row] /\ row[m].attempts \in Nat /\ sends[m].failed \in Nat
        /\ marks[d][m] \in {"none", "delivered", "retry"}
    BY DEF DInv, BatchesOK, TypeOK, Row
  <1>2. /\ row[m].attempts <= sends[m].failed
        /\ row[m].state = "parked" => row[m].attempts >= MaxAttempts
        /\ row[m].state = "delivered" /\ m \in Configured => sends[m].ok > 0
    BY Zenon DEF DInv, ParkedAfterFailures, DeliveredWasAccepted
  <1>3. CASE Applied(d)[m] = Marked(d, m)
    <2>1. /\ marks[d][m] \notin {"delivered", "retry"} => Marked(d, m) = row[m]
          /\ Marked(d, m).state = "delivered" => marks[d][m] = "delivered" \/ Marked(d, m) = row[m]
          /\ Marked(d, m).state = "parked" =>
               Marked(d, m) = row[m] \/ Marked(d, m).attempts >= MaxAttempts
          /\ \/ Marked(d, m).attempts = row[m].attempts
             \/ marks[d][m] = "retry" /\ Marked(d, m).attempts = row[m].attempts + 1
      BY Zenon, <1>1, MarkedType
    <2>2. /\ row[m].state \in {"delivered", "parked"} => marks[d][m] = "none"
          /\ marks[d][m] = "delivered" /\ m \in Configured => sends[m].ok > 0
          /\ marks[d][m] = "retry" => row[m].attempts < sends[m].failed
      BY Zenon, <1>1 DEF BatchOK
    <2>3. row[m].state \in {"delivered", "parked"} => Applied(d)[m] = row[m]
      BY SMTT(30), <1>3, <2>1, <2>2
    <2>4. Applied(d)[m].state = "delivered" /\ m \in Configured => sends[m].ok > 0
      BY Zenon, <1>2, <1>3, <2>1, <2>2
    <2>5. Applied(d)[m].state = "parked" => Applied(d)[m].attempts >= MaxAttempts
      BY Zenon, <1>2, <1>3, <2>1
    <2>6. Applied(d)[m].attempts <= sends[m].failed
      BY <1>1, <1>2, <1>3, <2>1, <2>2
    <2> QED BY Zenon, <2>3, <2>4, <2>5, <2>6
  <1>4. CASE Applied(d)[m] # Marked(d, m)
    <2>1. /\ Applied(d)[m].state = "due" /\ row[m].state = "due"
          /\ Applied(d)[m].attempts = row[m].attempts
      BY Zenon, <1>1, <1>4, AppliedType
    <2> QED BY Zenon, <1>2, <2>1
  <1> QED BY Zenon, <1>3, <1>4

\* Nobody else holds the lock when a batch is committed.
LEMMA InvCommit ==
  ASSUME DInv, NEW d \in Dispatchers, Commit(d) \/ CommitUnacknowledged(d)
  PROVE  DInv'
  <1>1. TypeOK' /\ TypeOK /\ OneHolds /\ RestingIsEmpty /\ AnswerIsForMessage
    BY Zenon, TypeEnd DEF DInv
  <1>2. /\ session[d] = "held" /\ row' = Applied(d) /\ Forget(d) /\ sends' = sends
        /\ pc'[d] \in {"drain", "release"}
        /\ \A e \in Dispatchers : e # d => session'[e] = session[e] /\ pc'[e] = pc[e]
    BY <1>1 DEF Commit, CommitUnacknowledged, TypeOK, table, connections, memory
  <1>3. \A e \in Dispatchers : e # d => session'[e] # "held"
    BY Zenon, <1>1, <1>2 DEF OneHolds
  <1>4. /\ batch'[d] = NoBatch /\ marks'[d] = NoMarks
        /\ \A e \in Dispatchers : e # d => UNCHANGED <<batch[e], marks[e], answer[e]>>
    BY Zenon, <1>1, <1>2, ForgetType
  <1>5. OneHolds'
    BY Zenon, <1>3 DEF OneHolds
  <1>6. NoBatch' = NoBatch /\ NoMarks' = NoMarks
    BY Zenon DEF NoBatch, NoMarks
  <1>7. ASSUME NEW m \in Msgs PROVE BatchOK(d, m)'
    <2>1. m \notin InBatch(d)' /\ marks'[d][m] = "none" /\ pc'[d] # "mark"
      BY Zenon, <1>2, <1>4 DEF InBatch, NoBatch, NoMarks
    <2> QED BY Zenon, <2>1 DEF BatchOK
  <1>8. BatchesOK'
    BY ZenonT(40), <1>3, <1>7 DEF BatchesOK
  <1>9. RestingIsEmpty'
    BY Zenon, <1>1, <1>2, <1>4, <1>6 DEF RestingIsEmpty
  <1>10. AnswerIsForMessage'
    BY Zenon, <1>1, <1>2, <1>4 DEF AnswerIsForMessage
  <1>11. \A m \in Msgs : /\ row'[m].state = "delivered" /\ m \in Configured => sends[m].ok > 0
                         /\ row'[m].state = "parked" => row'[m].attempts >= MaxAttempts
                         /\ row'[m].attempts <= sends[m].failed
    BY Zenon, <1>2, Recorded
  <1>12. DeliveredWasAccepted' /\ ParkedAfterFailures'
    BY Zenon, <1>2, <1>11 DEF DeliveredWasAccepted, ParkedAfterFailures
  <1> QED BY Zenon, <1>1, <1>5, <1>8, <1>9, <1>10, <1>12 DEF DInv

LEMMA InvNext == DInv /\ [Next]_vars => DInv'
  <1> SUFFICES ASSUME DInv, [Next]_vars PROVE DInv'
    BY Zenon
  <1>1. ASSUME NEW d \in Dispatchers, Step(d) PROVE DInv'
    BY Zenon, <1>1, InvSession, InvClaim, InvSend, InvMark, InvCommit DEF Step
  <1>2. ASSUME NEW d \in Dispatchers,
               \/ LockFails(d) \/ CommitUnacknowledged(d) \/ StatementFails(d)
               \/ ConnectionLost(d) \/ Crash(d) \/ Restart(d)
        PROVE  DInv'
    BY Zenon, <1>2, InvSession, InvCommit
  <1> QED BY Zenon, <1>1, <1>2, InvTable, InvSessionEnds DEF Next

\* Everything DInv says of rows, batches and answers holds in every reachable
\* state, for any number of events, dispatchers, attempts and faults.
THEOREM Invariance == Spec => []DInv
  BY InvInit, InvNext, PTL DEF Spec

\* The table, the sessions and the dispatchers always have their types.
THEOREM TypeCorrect == Spec => []TypeOK
  <1>1. DInv => TypeOK
    BY Zenon DEF DInv
  <1> QED BY <1>1, Invariance, PTL

\* No row is marked delivered that its merchant did not accept.
THEOREM DeliveredWasAcceptedHolds == Spec => []DeliveredWasAccepted
  <1>1. DInv => DeliveredWasAccepted
    BY Zenon DEF DInv
  <1> QED BY <1>1, Invariance, PTL

\* No row is parked before it has failed MaxAttempts times.
THEOREM ParkedAfterFailuresHolds == Spec => []ParkedAfterFailures
  <1>1. DInv => ParkedAfterFailures
    BY Zenon DEF DInv
  <1> QED BY <1>1, Invariance, PTL

\* A dispatcher whose session is gone never touches a finished row.
THEOREM FinishedStaysHolds == Spec => FinishedStays
  <1> DEFINE Stays == \A m \in Msgs : row[m].state \in {"delivered", "parked"} => row'[m] = row[m]
  <1>1. DInv /\ [Next]_vars => [Stays]_row
    <2> SUFFICES ASSUME DInv, Next, row' # row PROVE Stays
      BY Zenon DEF vars, table
    <2> USE DEF table, connections, memory
    <2>1. \/ \E m \in Msgs : Publish(m) \/ BackoffElapses(m)
          \/ \E d \in Dispatchers : Commit(d) \/ CommitUnacknowledged(d)
      BY DEF Next, Step, TryLock, ReleaseLock, ClaimDueOutbox, Send, Mark, NoticeLoss, LockFails,
             StatementFails, ConnectionLost, Crash, Restart, SessionEnds
    <2>2. ASSUME NEW m \in Msgs, Publish(m) \/ BackoffElapses(m) PROVE Stays
      <3>1. PICK t \in 1..(Cardinality(Due) + 1) : row' = Enter(m, t)
        BY Zenon, <2>2 DEF Publish, BackoffElapses
      <3>2. t \in Nat
        <4>1. Cardinality(Due) \in Nat
          BY Zenon, CountType DEF Due
        <4> QED BY <3>1, <4>1
      <3>3. row \in [Msgs -> Row] /\ row[m].state \in {"none", "later"}
        BY Zenon, <2>2 DEF Publish, BackoffElapses, DInv, TypeOK
      <3>4. \A n \in Msgs : n # m /\ row[n].state # "due" => Enter(m, t)[n] = row[n]
        BY <3>2, <3>3, EnterType
      <3> QED BY Zenon, <3>1, <3>3, <3>4
    <2>3. ASSUME NEW d \in Dispatchers, Commit(d) \/ CommitUnacknowledged(d) PROVE Stays
      <3>1. session[d] = "held" /\ row' = Applied(d)
        BY Zenon, <2>3 DEF Commit, CommitUnacknowledged
      <3> QED BY Zenon, <3>1, Recorded
    <2> QED BY Zenon, <2>1, <2>2, <2>3
  <1>2. FinishedStays <=> [][Stays]_row
    BY Zenon DEF FinishedStays
  <1> QED BY <1>1, <1>2, Invariance, PTL DEF Spec

-----------------------------------------------------------------------------
(* Duplicates.  Every 2xx answer beyond the first is paid for by a fault.  *)

\* Counting dispatchers.
LEMMA CountDispatchers ==
  ASSUME NEW S, NEW T, S \subseteq Dispatchers, T \subseteq Dispatchers
  PROVE  /\ Cardinality(S) \in Nat /\ Cardinality(T) \in Nat
         /\ T \subseteq S => Cardinality(T) <= Cardinality(S)
         /\ \A d \in S : d \notin T /\ T \subseteq S => Cardinality(T) + 1 <= Cardinality(S)
         /\ \A d \in Dispatchers : T \subseteq S \cup {d} => Cardinality(T) <= Cardinality(S) + 1
  <1>1. IsFiniteSet(S) /\ IsFiniteSet(T) /\ Cardinality(S) \in Nat /\ Cardinality(T) \in Nat
    BY Zenon, FS_Subset, FS_CardinalityType
  <1>2. T \subseteq S => Cardinality(T) <= Cardinality(S)
    BY Zenon, <1>1, FS_Subset
  <1>3. ASSUME NEW d \in S, d \notin T, T \subseteq S PROVE Cardinality(T) + 1 <= Cardinality(S)
    <2>1. IsFiniteSet(T \cup {d}) /\ Cardinality(T \cup {d}) = Cardinality(T) + 1
      BY Zenon, <1>1, <1>3, FS_AddElement
    <2>2. T \cup {d} \subseteq S
      BY Zenon, <1>3
    <2>3. Cardinality(T \cup {d}) <= Cardinality(S)
      BY Zenon, <1>1, <2>2, FS_Subset
    <2> QED BY <2>1, <2>3
  <1>4. ASSUME NEW d \in Dispatchers, T \subseteq S \cup {d}
        PROVE  Cardinality(T) <= Cardinality(S) + 1
    <2>1. /\ IsFiniteSet(S \cup {d})
          /\ Cardinality(S \cup {d}) = Cardinality(S) \/ Cardinality(S \cup {d}) = Cardinality(S) + 1
      BY Zenon, <1>1, FS_AddElement
    <2>2. Cardinality(T) <= Cardinality(S \cup {d})
      BY Zenon, <1>4, <2>1, FS_Subset
    <2> QED BY <1>1, <2>1, <2>2
  <1> QED BY Zenon, <1>1, <1>2, <1>3, <1>4

\* The books of one message: what a step adds to its answers, to its strays
\* and to its debt, against what it adds to the faults.
LEMMA PaidNumbers ==
  ASSUME TypeOK, NEW m \in Msgs
  PROVE  /\ sends[m].ok \in Nat /\ faults \in Nat /\ Unanswered(m) \in {0, 1}
         /\ Stray(m) \subseteq Dispatchers /\ Stray(m)' \subseteq Dispatchers
         /\ Unanswered(m)' \in {0, 1}
         /\ Answered(m) <=> Unanswered(m) = 0
         /\ Answered(m)' <=> Unanswered(m)' = 0
  <1>1. sends[m].ok \in Nat /\ faults \in Nat
    BY DEF TypeOK
  <1>2. Stray(m) \subseteq Dispatchers /\ Stray(m)' \subseteq Dispatchers
    BY Zenon DEF Stray
  <1>3. Unanswered(m) \in {0, 1} /\ (Answered(m) <=> Unanswered(m) = 0)
    BY DEF Unanswered
  <1>4. Unanswered(m)' \in {0, 1} /\ (Answered(m)' <=> Unanswered(m)' = 0)
    BY DEF Unanswered
  <1> QED BY Zenon, <1>1, <1>2, <1>3, <1>4

\* A step that sends nothing keeps a message paid for if nothing more is
\* expected of it, or if the step is a fault.
LEMMA PaidFrame ==
  ASSUME TypeOK, NEW m \in Msgs, Paid(m), sends'[m].ok = sends[m].ok, Stray(m)' \subseteq Stray(m),
         (faults' = faults /\ (Answered(m) => Answered(m)')) \/ faults' = faults + 1
  PROVE  Paid(m)'
  <1>1. /\ Cardinality(Stray(m)) \in Nat /\ Cardinality(Stray(m)') \in Nat
        /\ Cardinality(Stray(m)') <= Cardinality(Stray(m))
    BY Zenon, PaidNumbers, CountDispatchers
  <1>3. Unanswered(m)' <= Unanswered(m) \/ (faults' = faults + 1 /\ Unanswered(m)' <= Unanswered(m) + 1)
    BY PaidNumbers
  <1>4. /\ sends[m].ok \in Nat /\ faults \in Nat /\ Unanswered(m) \in {0, 1}
        /\ Unanswered(m)' \in {0, 1} /\ faults' \in {faults, faults + 1}
    BY Zenon, PaidNumbers
  <1>5. sends[m].ok + Cardinality(Stray(m)) + Unanswered(m) <= 1 + faults
    BY Zenon DEF Paid
  <1>6. sends'[m].ok + Cardinality(Stray(m)') + Unanswered(m)' <= 1 + faults'
    BY <1>1, <1>3, <1>4, <1>5
  <1> QED BY Zenon, <1>6 DEF Paid

\* Nobody but d has moved.
OnlyMoves(d) ==
  \A e \in Dispatchers : e # d =>
    /\ session'[e] = session[e] /\ pc'[e] = pc[e] /\ batch'[e] = batch[e]
    /\ marks'[e] = marks[e] /\ answer'[e] = answer[e]

\* d has the answer to m in hand or in its transaction.
HasAnswer(d, m) ==
  /\ session[d] = "held"
  /\ \/ marks[d][m] = "delivered"
     \/ pc[d] = "mark" /\ answer[d] = [msg |-> m, is |-> "ok"]

LEMMA AnsweredBy ==
  ASSUME NEW m \in Msgs
  PROVE  /\ Answered(m) <=> (row[m].state \in {"delivered", "parked"} \/ \E d \in Dispatchers : HasAnswer(d, m))
         /\ Answered(m)' <=> (row'[m].state \in {"delivered", "parked"} \/ \E d \in Dispatchers : HasAnswer(d, m)')
  BY Zenon DEF Answered, HasAnswer

LEMMA OthersHaveAnswer ==
  ASSUME NEW d, OnlyMoves(d), NEW e \in Dispatchers, e # d, NEW m \in Msgs
  PROVE  HasAnswer(e, m)' <=> HasAnswer(e, m)
  BY Zenon DEF OnlyMoves, HasAnswer

LEMMA OthersStray ==
  ASSUME NEW d, OnlyMoves(d), NEW e \in Dispatchers, e # d, NEW m \in Msgs
  PROVE  e \in Stray(m)' <=> e \in Stray(m)
  BY Zenon DEF OnlyMoves, Stray, ToDo, InBatch

\* If d is no stray afterwards, there are no new ones.
LEMMA StrayFrame ==
  ASSUME NEW d, OnlyMoves(d), NEW m \in Msgs, session'[d] # "lost" \/ pc'[d] # "send"
  PROVE  Stray(m)' \subseteq Stray(m)
  <1> SUFFICES ASSUME NEW e \in Stray(m)' PROVE e \in Stray(m)
    BY Zenon
  <1>1. e \in Dispatchers /\ e # d
    BY Zenon DEF Stray
  <1> QED BY Zenon, <1>1, OthersStray

\* If d has no answer to lose, an answered message stays answered.
LEMMA AnsweredFrame ==
  ASSUME NEW d, OnlyMoves(d), NEW m \in Msgs, HasAnswer(d, m) => Answered(m)',
         row[m].state \in {"delivered", "parked"} => row'[m].state \in {"delivered", "parked"},
         Answered(m)
  PROVE  Answered(m)'
  <1>1. CASE row[m].state \in {"delivered", "parked"}
    BY Zenon, <1>1, AnsweredBy
  <1>2. ASSUME NEW e \in Dispatchers, HasAnswer(e, m) PROVE Answered(m)'
    BY Zenon, <1>2, OthersHaveAnswer, AnsweredBy
  <1> QED BY Zenon, <1>1, <1>2, AnsweredBy

\* Outside drainOnce nothing is in hand.
LEMMA RestingHasNoAnswer ==
  ASSUME RestingIsEmpty, NEW d \in Dispatchers, NEW m \in Msgs,
         pc[d] \in {"down", "lock", "drain", "release"} \/ session[d] # "held"
  PROVE  ~HasAnswer(d, m)
  <1>1. pc[d] \in {"down", "lock", "drain", "release"} => marks[d][m] = "none" /\ pc[d] # "mark"
    BY Zenon DEF RestingIsEmpty, NoMarks
  <1> QED BY Zenon, <1>1 DEF HasAnswer

\* A dispatcher that is not about to record an answer has none unmarked.
LEMMA UnmarkedFrame ==
  ASSUME SentUnmarked, SendsInSession, NEW d, OnlyMoves(d), pc'[d] # "mark",
         pc'[d] = "send" => session'[d] # "none"
  PROVE  SentUnmarked' /\ SendsInSession'
  BY Zenon DEF SentUnmarked, SendsInSession, OnlyMoves

\* Lock, unlock, restart, notice: nothing is sent and no answer is lost.
LEMMA DupSession ==
  ASSUME DInv, DupInv, NEW d \in Dispatchers,
         TryLock(d) \/ ReleaseLock(d) \/ Restart(d) \/ NoticeLoss(d) \/ ClaimDueOutbox(d)
  PROVE  DupInv'
  <1> USE DEF table, connections, memory
  <1>1. TypeOK /\ RestingIsEmpty
    BY Zenon DEF DInv
  <1>2. OnlyMoves(d)
    BY Zenon, <1>1
       DEF OnlyMoves, TypeOK, TryLock, ReleaseLock, Restart, NoticeLoss, ClaimDueOutbox, Forget
  <1>3. pc'[d] # "mark" /\ (session'[d] = "held" \/ pc'[d] # "send")
    BY Zenon, <1>1
       DEF TypeOK, TryLock, ReleaseLock, Restart, NoticeLoss, ClaimDueOutbox
  <1>4. UNCHANGED <<row, sends, faults>>
    BY Zenon DEF TryLock, ReleaseLock, Restart, NoticeLoss, ClaimDueOutbox
  <1>5. pc[d] \in {"down", "lock", "drain", "release"} \/ session[d] # "held"
    BY Zenon DEF TryLock, ReleaseLock, Restart, NoticeLoss, ClaimDueOutbox
  <1>6. ASSUME NEW m \in Msgs PROVE Paid(m)'
    <2>1. Stray(m)' \subseteq Stray(m)
      BY Zenon, <1>2, <1>3, StrayFrame
    <2>2. Answered(m) => Answered(m)'
      BY Zenon, <1>1, <1>2, <1>4, <1>5, RestingHasNoAnswer, AnsweredFrame
    <2> QED BY Zenon, <1>1, <1>4, <2>1, <2>2, PaidFrame DEF DupInv
  <1> QED BY Zenon, <1>2, <1>3, <1>6, UnmarkedFrame DEF DupInv

\* A fault pays for the answers it loses.
LEMMA DupFault ==
  ASSUME DInv, DupInv, NEW d \in Dispatchers,
         LockFails(d) \/ CommitUnacknowledged(d) \/ StatementFails(d) \/ Crash(d)
  PROVE  DupInv'
  <1> USE DEF table, connections, memory
  <1>1. TypeOK
    BY Zenon DEF DInv
  <1>2. OnlyMoves(d)
    BY Zenon, <1>1
       DEF OnlyMoves, TypeOK, LockFails, CommitUnacknowledged, StatementFails, Crash, Forget
  <1>3. pc'[d] # "mark" /\ pc'[d] # "send"
    BY Zenon, <1>1 DEF TypeOK, LockFails, CommitUnacknowledged, StatementFails, Crash
  <1>4. sends' = sends /\ faults' = faults + 1
    BY Zenon DEF LockFails, CommitUnacknowledged, StatementFails, Crash, Fault
  <1>5. ASSUME NEW m \in Msgs PROVE Paid(m)'
    BY Zenon, <1>1, <1>2, <1>3, <1>4, StrayFrame, PaidFrame DEF DupInv
  <1> QED BY Zenon, <1>2, <1>3, <1>5, UnmarkedFrame DEF DupInv

\* A dispatcher that loses its session while it sends has no answer yet for
\* what it may still send; for the rest, the fault pays.
LEMMA DupConnectionLost ==
  ASSUME DInv, DupInv, NEW d \in Dispatchers, ConnectionLost(d)
  PROVE  DupInv'
  <1> USE DEF table, connections, memory
  <1>1. TypeOK
    BY Zenon DEF DInv
  <1>2. OnlyMoves(d) /\ UNCHANGED <<pc, batch, marks, answer, row, sends>> /\ session'[d] = "lost"
    BY Zenon, <1>1 DEF OnlyMoves, TypeOK, ConnectionLost
  <1>3. faults' = faults + 1
    BY Zenon DEF ConnectionLost, Fault
  <1>4. ASSUME NEW m \in Msgs PROVE Paid(m)'
    <2>1. CASE d \notin Stray(m)'
      <3>1. Stray(m)' \subseteq Stray(m)
        <4> SUFFICES ASSUME NEW e \in Stray(m)' PROVE e \in Stray(m)
          BY Zenon
        <4>1. e \in Dispatchers /\ e # d
          BY Zenon, <2>1 DEF Stray
        <4> QED BY Zenon, <1>2, <4>1, OthersStray
      <3> QED BY Zenon, <1>1, <1>2, <1>3, <3>1, PaidFrame DEF DupInv
    <2>2. CASE d \in Stray(m)'
      <3>1. pc[d] = "send" /\ marks[d][m] = "none"
        BY Zenon, <1>2, <2>2 DEF Stray, ToDo
      <3>2. ~HasAnswer(d, m)
        BY Zenon, <3>1 DEF HasAnswer
      <3>3. Answered(m) => Answered(m)'
        BY Zenon, <1>2, <3>2, AnsweredFrame
      <3>4. Stray(m)' \subseteq Stray(m) \cup {d}
        <4> SUFFICES ASSUME NEW e \in Stray(m)', e # d PROVE e \in Stray(m)
          BY Zenon
        <4>1. e \in Dispatchers
          BY Zenon DEF Stray
        <4> QED BY Zenon, <1>2, <4>1, OthersStray
      <3>5. /\ Cardinality(Stray(m)) \in Nat /\ Cardinality(Stray(m)') \in Nat
            /\ Cardinality(Stray(m)') <= Cardinality(Stray(m)) + 1
        BY Zenon, <1>1, <3>4, PaidNumbers, CountDispatchers
      <3>6. Unanswered(m)' <= Unanswered(m) /\ Unanswered(m) \in Nat /\ Unanswered(m)' \in Nat
        BY <1>1, <3>3, PaidNumbers
      <3>7. sends[m].ok \in Nat /\ faults \in Nat /\ sends'[m].ok = sends[m].ok
        BY Zenon, <1>1, <1>2, PaidNumbers
      <3>8. sends[m].ok + Cardinality(Stray(m)) + Unanswered(m) <= 1 + faults
        BY Zenon DEF DupInv, Paid
      <3>9. sends'[m].ok + Cardinality(Stray(m)') + Unanswered(m)' <= 1 + faults'
        BY <1>3, <3>5, <3>6, <3>7, <3>8
      <3> QED BY Zenon, <3>9 DEF Paid
    <2> QED BY Zenon, <2>1, <2>2
  <1>5. SentUnmarked' /\ SendsInSession'
    BY Zenon, <1>2 DEF DupInv, SentUnmarked, SendsInSession, OnlyMoves
  <1> QED BY Zenon, <1>4, <1>5 DEF DupInv

\* Steps of the table and of Postgres touch no dispatcher.
LEMMA DupElsewhere ==
  ASSUME DInv, DupInv, UNCHANGED <<session, pc, batch, marks, answer, sends, faults>>,
         \A m \in Msgs : row[m].state \in {"delivered", "parked"} => row'[m].state = row[m].state
  PROVE  DupInv'
  <1>1. TypeOK
    BY Zenon DEF DInv
  <1>2. ASSUME NEW m \in Msgs PROVE Paid(m)'
    <2>1. Stray(m)' \subseteq Stray(m)
      BY Zenon DEF Stray, ToDo, InBatch
    <2>2. Answered(m) => Answered(m)'
      BY Zenon DEF Answered
    <2> QED BY Zenon, <1>1, <2>1, <2>2, PaidFrame DEF DupInv
  <1>3. SentUnmarked' /\ SendsInSession'
    BY Zenon DEF DupInv, SentUnmarked, SendsInSession
  <1> QED BY Zenon, <1>2, <1>3 DEF DupInv

LEMMA DupTable ==
  ASSUME DInv, DupInv, NEW m \in Msgs, Publish(m) \/ BackoffElapses(m)
  PROVE  DupInv'
  <1>1. PICK t \in 1..(Cardinality(Due) + 1) : row' = Enter(m, t)
    BY Zenon DEF Publish, BackoffElapses
  <1>2. t \in Nat
    <2>1. Cardinality(Due) \in Nat
      BY Zenon, CountType DEF Due
    <2> QED BY <1>1, <2>1
  <1>3. row \in [Msgs -> Row] /\ row[m].state \in {"none", "later"}
    BY Zenon DEF Publish, BackoffElapses, DInv, TypeOK
  <1>4. \A n \in Msgs : n # m => row'[n].state = row[n].state
    BY Zenon, <1>1, <1>2, <1>3, EnterType
  <1>5. \A n \in Msgs : row[n].state \in {"delivered", "parked"} => row'[n].state = row[n].state
    BY Zenon, <1>3, <1>4
  <1>6. UNCHANGED <<session, pc, batch, marks, answer, sends, faults>>
    BY Zenon DEF Publish, BackoffElapses, connections, memory
  <1> QED BY Zenon, <1>5, <1>6, DupElsewhere

LEMMA DupSessionEnds ==
  ASSUME DInv, DupInv, SessionEnds \/ UNCHANGED vars
  PROVE  DupInv'
  <1>1. UNCHANGED <<row, session, pc, batch, marks, answer, sends, faults>>
    BY Zenon DEF SessionEnds, table, connections, memory, vars
  <1> QED BY Zenon, <1>1, DupElsewhere

\* The owner of the lock sends only what is still unanswered, and a stray
\* sends once more and no further.
LEMMA DupSend ==
  ASSUME DInv, DupInv, NEW d \in Dispatchers, NEW k \in Msgs, Send(d, k)
  PROVE  DupInv'
  <1> USE DEF table, connections, memory
  <1>1. TypeOK
    BY Zenon DEF DInv
  <1>2. /\ UNCHANGED <<row, session, batch, marks>> /\ pc[d] = "send" /\ pc'[d] = "mark"
        /\ k \in ToDo(d) /\ marks[d][k] = "none" /\ k \in InBatch(d)
    BY Zenon, <1>1 DEF Send, Current, FirstOf, ToDo, TypeOK
  <1>3. OnlyMoves(d)
    BY Zenon, <1>1, <1>2 DEF OnlyMoves, TypeOK, Send
  <1>4. faults' = faults \/ faults' = faults + 1
    BY Zenon DEF Send, Fault
  <1>5. /\ sends \in [Msgs -> [ok: Nat, failed: Nat]] /\ faults \in Nat
        /\ answer \in [Dispatchers -> [msg: 0..N, is: {"none", "ok", "failed"}]]
    BY DEF DInv, TypeOK
  <1>6. ASSUME NEW m \in Msgs
        PROVE  Stray(m)' \subseteq Stray(m) /\ (Answered(m) => Answered(m)')
    <2>1. HasAnswer(d, m) => HasAnswer(d, m)'
      BY Zenon, <1>2 DEF HasAnswer
    <2> QED BY Zenon, <1>2, <1>3, <2>1, StrayFrame, AnsweredFrame, AnsweredBy
  <1>7. ASSUME NEW m \in Msgs, sends'[m].ok = sends[m].ok PROVE Paid(m)'
    BY Zenon, <1>1, <1>4, <1>6, <1>7, PaidFrame DEF DupInv
  <1>8. \/ \A m \in Msgs : sends'[m].ok = sends[m].ok
        \/ /\ sends'[k].ok = sends[k].ok + 1 /\ faults' = faults
           /\ answer'[d] = [msg |-> k, is |-> "ok"]
           /\ \A m \in Msgs : m # k => sends'[m].ok = sends[m].ok
    <2>1. CASE UNCHANGED sends
      BY Zenon, <2>1
    <2>2. CASE sends' = [sends EXCEPT ![k].failed = @ + 1]
      BY <1>5, <2>2
    <2>3. CASE /\ sends' = [sends EXCEPT ![k].ok = @ + 1] /\ faults' = faults
               /\ answer' = [answer EXCEPT ![d] = [msg |-> k, is |-> "ok"]]
      BY <1>5, <2>3
    <2> QED BY Zenon, <2>1, <2>2, <2>3 DEF Send
  <1>9. ASSUME sends'[k].ok = sends[k].ok + 1, faults' = faults,
               answer'[d] = [msg |-> k, is |-> "ok"]
        PROVE  Paid(k)'
    <2>1. /\ Cardinality(Stray(k)) \in Nat /\ Cardinality(Stray(k)') \in Nat
          /\ Cardinality(Stray(k)') <= Cardinality(Stray(k))
      BY Zenon, <1>1, <1>6, PaidNumbers, CountDispatchers
    <2>2. /\ sends[k].ok \in Nat /\ faults \in Nat
          /\ Unanswered(k) \in {0, 1} /\ Unanswered(k)' \in {0, 1}
          /\ sends[k].ok + Cardinality(Stray(k)) + Unanswered(k) <= 1 + faults
      BY Zenon, <1>1, PaidNumbers DEF DupInv, Paid
    <2>3. CASE session[d] = "held"
      <3>1. row[k].state = "due"
        BY Zenon, <1>2, <2>3 DEF DInv, BatchesOK, BatchOK
      <3>2. ASSUME NEW e \in Dispatchers PROVE ~HasAnswer(e, k)
        <4>1. session[e] = "held" => e = d
          BY Zenon, <2>3 DEF DInv, OneHolds
        <4> QED BY Zenon, <1>2, <4>1 DEF HasAnswer
      <3>3. ~Answered(k)
        BY Zenon, <3>1, <3>2, AnsweredBy
      <3>4. HasAnswer(d, k)'
        BY Zenon, <1>2, <1>9, <2>3 DEF HasAnswer
      <3>5. Unanswered(k) = 1 /\ Unanswered(k)' = 0
        BY Zenon, <1>1, <2>2, <3>3, <3>4, PaidNumbers, AnsweredBy
      <3>6. sends'[k].ok + Cardinality(Stray(k)') + Unanswered(k)' <= 1 + faults'
        BY <1>9, <2>1, <2>2, <3>5
      <3> QED BY Zenon, <3>6 DEF Paid
    <2>4. CASE session[d] # "held"
      <3>1. session[d] = "lost"
        BY Zenon, <1>1, <1>2, <2>4 DEF DupInv, SendsInSession, TypeOK
      <3>2. d \in Stray(k) /\ d \notin Stray(k)'
        BY Zenon, <1>2, <3>1 DEF Stray
      <3>3. Cardinality(Stray(k)') + 1 <= Cardinality(Stray(k))
        BY Zenon, <1>1, <1>6, <3>2, PaidNumbers, CountDispatchers
      <3>4. Answered(k) => Answered(k)'
        BY Zenon, <1>6
      <3>5. Unanswered(k)' <= Unanswered(k)
        BY <1>1, <3>4, PaidNumbers
      <3>6. sends'[k].ok + Cardinality(Stray(k)') + Unanswered(k)' <= 1 + faults'
        BY <1>9, <2>1, <2>2, <3>3, <3>5
      <3> QED BY Zenon, <3>6 DEF Paid
    <2> QED BY Zenon, <2>3, <2>4
  <1>10. ASSUME NEW m \in Msgs PROVE Paid(m)'
    BY Zenon, <1>7, <1>8, <1>9
  <1>11. SentUnmarked' /\ SendsInSession'
    <2>1. answer'[d].msg = k
      BY <1>5 DEF Send
    <2>2. marks'[d][answer'[d].msg] = "none"
      BY Zenon, <1>2, <2>1
    <2>3. ASSUME NEW e \in Dispatchers, e # d
          PROVE  /\ pc'[e] = "mark" => marks'[e][answer'[e].msg] = "none"
                 /\ pc'[e] = "send" => session'[e] # "none"
      BY Zenon, <1>3, <2>3 DEF DupInv, SentUnmarked, SendsInSession, OnlyMoves
    <2>4. pc'[d] # "send"
      BY Zenon, <1>2
    <2> QED BY Zenon, <2>2, <2>3, <2>4 DEF SentUnmarked, SendsInSession
  <1> QED BY Zenon, <1>10, <1>11 DEF DupInv

\* Recording an answer keeps it.
LEMMA DupMark ==
  ASSUME DInv, DupInv, NEW d \in Dispatchers, Mark(d), NEW k \in Msgs, answer[d].msg = k
  PROVE  DupInv'
  <1> USE DEF table, connections, memory
  <1>1. TypeOK
    BY Zenon DEF DInv
  <1>2. /\ UNCHANGED <<row, session, batch, sends, faults>> /\ session[d] = "held" /\ pc[d] = "mark"
        /\ marks[d][k] = "none"
    BY Zenon DEF Mark, DupInv, SentUnmarked
  <1>3. OnlyMoves(d)
    BY Zenon, <1>1, <1>2 DEF OnlyMoves, TypeOK, Mark
  <1>4. /\ marks'[d][k] = IF answer[d].is = "ok" THEN "delivered" ELSE "retry"
        /\ \A m \in Msgs : m # k => marks'[d][m] = marks[d][m]
    <2>1. marks \in [Dispatchers -> [Msgs -> {"none", "delivered", "retry"}]]
      BY Zenon, <1>1 DEF TypeOK
    <2>2. marks' = [marks EXCEPT ![d][k] = IF answer[d].is = "ok" THEN "delivered" ELSE "retry"]
      BY Zenon DEF Mark
    <2> QED BY <2>1, <2>2
  <1>5. pc'[d] # "mark"
    BY Zenon, <1>1 DEF Mark, TypeOK
  <1>6. ASSUME NEW m \in Msgs PROVE Paid(m)'
    <2>1. Stray(m)' \subseteq Stray(m)
      BY Zenon, <1>2, <1>3, StrayFrame
    <2>2. HasAnswer(d, m) => HasAnswer(d, m)'
      <3>1. CASE m = k
        <4>1. answer[d] = [msg |-> k, is |-> "ok"] => answer[d].is = "ok"
          BY SMT
        <4> QED BY Zenon, <1>2, <1>4, <3>1, <4>1 DEF HasAnswer
      <3>2. CASE m # k
        <4>1. answer[d] # [msg |-> m, is |-> "ok"]
          BY <3>2
        <4> QED BY Zenon, <1>2, <1>4, <3>2, <4>1 DEF HasAnswer
      <3> QED BY Zenon, <3>1, <3>2
    <2>3. Answered(m) => Answered(m)'
      BY Zenon, <1>2, <1>3, <2>2, AnsweredFrame, AnsweredBy
    <2> QED BY Zenon, <1>1, <1>2, <2>1, <2>3, PaidFrame DEF DupInv
  <1> QED BY Zenon, <1>2, <1>3, <1>5, <1>6, UnmarkedFrame DEF DupInv

\* A commit moves the answers of its transaction into the table.
LEMMA DupCommit ==
  ASSUME DInv, DupInv, NEW d \in Dispatchers, Commit(d)
  PROVE  DupInv'
  <1> USE DEF table, connections, memory
  <1>1. TypeOK /\ row \in [Msgs -> Row]
    BY Zenon DEF DInv, TypeOK
  <1>2. /\ row' = Applied(d) /\ UNCHANGED <<session, sends, faults>>
        /\ session[d] = "held" /\ pc[d] = "commit"
    BY Zenon DEF Commit
  <1>3. OnlyMoves(d) /\ pc'[d] = "drain"
    BY Zenon, <1>1 DEF OnlyMoves, TypeOK, Commit, Forget
  <1>4. ASSUME NEW m \in Msgs, HasAnswer(d, m) PROVE row'[m].state = "delivered"
    <2>1. marks[d][m] = "delivered"
      BY Zenon, <1>2, <1>4 DEF HasAnswer
    <2>2. Applied(d)[m] = Marked(d, m)
      BY Zenon, <2>1 DEF Applied
    <2>3. Marked(d, m) = [row[m] EXCEPT !.state = "delivered", !.turn = 0]
      BY Zenon, <2>1 DEF Marked
    <2> QED BY Zenon, <1>1, <1>2, <2>2, <2>3, RowDelivered
  <1>5. ASSUME NEW m \in Msgs PROVE Paid(m)'
    <2>1. Stray(m)' \subseteq Stray(m)
      BY Zenon, <1>3, StrayFrame
    <2>2. row[m].state \in {"delivered", "parked"} => row'[m] = row[m]
      BY Zenon, <1>2, Recorded
    <2>3. Answered(m) => Answered(m)'
      BY Zenon, <1>3, <1>4, <2>2, AnsweredFrame, AnsweredBy
    <2> QED BY Zenon, <1>1, <1>2, <2>1, <2>3, PaidFrame DEF DupInv
  <1> QED BY Zenon, <1>3, <1>5, UnmarkedFrame DEF DupInv

LEMMA DupInit == Init => DupInv
  <1> SUFFICES ASSUME Init PROVE DupInv
    BY Zenon
  <1>1. ASSUME NEW m \in Msgs PROVE Paid(m)
    <2>1. Stray(m) = {}
      BY Zenon DEF Init, Stray
    <2>2. Cardinality(Stray(m)) = 0
      BY Zenon, <2>1, FS_EmptySet
    <2>3. sends[m].ok = 0 /\ faults = 0
      BY DEF Init
    <2>4. Unanswered(m) \in {0, 1}
      BY Zenon DEF Unanswered
    <2>5. sends[m].ok + Cardinality(Stray(m)) + Unanswered(m) <= 1 + faults
      BY <2>2, <2>3, <2>4
    <2> QED BY Zenon, <2>5 DEF Paid
  <1>2. SentUnmarked /\ SendsInSession
    BY Zenon DEF Init, SentUnmarked, SendsInSession
  <1> QED BY Zenon, <1>1, <1>2 DEF DupInv

LEMMA DupNext == DInv /\ DupInv /\ [Next]_vars => DupInv'
  <1> SUFFICES ASSUME DInv, DupInv, [Next]_vars PROVE DupInv'
    BY Zenon
  <1>1. ASSUME NEW d \in Dispatchers, Mark(d) PROVE DupInv'
    <2>1. answer[d].msg \in Msgs
      BY Zenon, <1>1 DEF DInv, AnswerIsForMessage, Mark
    <2> QED BY Zenon, <1>1, <2>1, DupMark
  <1>2. ASSUME NEW d \in Dispatchers, Step(d) PROVE DupInv'
    BY Zenon, <1>1, <1>2, DupSession, DupSend, DupCommit DEF Step
  <1>3. ASSUME NEW d \in Dispatchers,
               \/ LockFails(d) \/ CommitUnacknowledged(d) \/ StatementFails(d)
               \/ ConnectionLost(d) \/ Crash(d) \/ Restart(d)
        PROVE  DupInv'
    BY Zenon, <1>3, DupFault, DupConnectionLost, DupSession
  <1> QED BY Zenon, <1>2, <1>3, DupTable, DupSessionEnds DEF Next

\* The account of answers and faults balances in every reachable state.
THEOREM DupInvariance == Spec => []DupInv
  BY DupInit, DupNext, Invariance, PTL DEF Spec

\* No merchant gets an event more often than once plus once per fault: the
\* advisory lock, the row locks and the order send, mark, commit leave a
\* crash, a lost session and a failed statement as the only causes of a
\* duplicate.
THEOREM DuplicatesNeedFaultsHolds == Spec => []DuplicatesNeedFaults
  <1>1. ASSUME DInv, DupInv, NEW m \in Msgs PROVE sends[m].ok <= 1 + faults
    <2>1. TypeOK /\ Paid(m)
      BY Zenon, <1>1 DEF DInv, DupInv
    <2>2. /\ sends[m].ok \in Nat /\ faults \in Nat /\ Unanswered(m) \in {0, 1}
          /\ Cardinality(Stray(m)) \in Nat
      BY Zenon, <2>1, PaidNumbers, CountDispatchers
    <2>3. sends[m].ok + Cardinality(Stray(m)) + Unanswered(m) <= 1 + faults
      BY Zenon, <2>1 DEF Paid
    <2> QED BY <2>2, <2>3
  <1>2. DInv /\ DupInv => DuplicatesNeedFaults
    BY Zenon, <1>1 DEF DuplicatesNeedFaults
  <1> QED BY <1>2, Invariance, DupInvariance, PTL

=============================================================================
