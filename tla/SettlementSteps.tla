-------------------------- MODULE SettlementSteps ---------------------------
(***************************************************************************)
(* Type correctness of Settlement, and its inductive invariant under each  *)
(* step: what a step may rely on although others run, the runner's own     *)
(* statements, those that only change one open transaction, and last the   *)
(* payout statements and the commit.                                       *)
(***************************************************************************)
EXTENDS SettlementInv, TLAPS

USE SettlementAssumption

-----------------------------------------------------------------------------
(* Rows keep their type under the updates the actions make.                *)

\* The saga_runs row the enqueue writes is well typed.
LEMMA NewSagaType == [NoSaga EXCEPT !.state = "pending"] \in SagaRow
  BY Zenon DEF NoSaga, SagaRow, Steps

\* The saga_runs updates of the runner (and of passing time) keep a row well
\* typed.
LEMMA SagaRowUpdates ==
  ASSUME NEW r \in SagaRow
  PROVE  /\ [r EXCEPT !.next_run = "due"] \in SagaRow
         /\ [r EXCEPT !.lease = "expired"] \in SagaRow
         /\ [r EXCEPT !.state = "running", !.lease = "held"] \in SagaRow
         /\ [r EXCEPT !.state = "completed", !.lease = "none"] \in SagaRow
         /\ [r EXCEPT !.state = "failed", !.lease = "none"] \in SagaRow
         /\ [r EXCEPT !.state = "pending", !.lease = "none", !.attempts = r.attempts + 1,
                      !.next_run = "later"] \in SagaRow
  <1>1. r.attempts + 1 \in Nat
    BY DEF SagaRow
  <1>2. [r EXCEPT !.next_run = "due"] \in SagaRow
    BY Zenon DEF SagaRow
  <1>3. [r EXCEPT !.lease = "expired"] \in SagaRow
    BY Zenon DEF SagaRow
  <1>4. [r EXCEPT !.state = "running", !.lease = "held"] \in SagaRow
    BY Zenon DEF SagaRow
  <1>5. [r EXCEPT !.state = "completed", !.lease = "none"] \in SagaRow
    BY Zenon DEF SagaRow
  <1>6. [r EXCEPT !.state = "failed", !.lease = "none"] \in SagaRow
    BY Zenon DEF SagaRow
  <1>7. [r EXCEPT !.state = "pending", !.lease = "none", !.attempts = r.attempts + 1,
                  !.next_run = "later"] \in SagaRow
    BY <1>1, Zenon DEF SagaRow
  <1> QED BY Zenon, <1>2, <1>3, <1>4, <1>5, <1>6, <1>7

\* So does AdvanceSagaStep.
LEMMA AdvancedSagaType ==
  ASSUME NEW s \in Steps
  PROVE  [state |-> "pending", step |-> s, attempts |-> 0,
          lease |-> "none", next_run |-> "due"] \in SagaRow
  BY Zenon DEF SagaRow

\* A transaction that has written nothing is well typed.
LEMMA EmptyTxType == EmptyTx \in Tx
  BY Zenon DEF EmptyTx, Tx, NoPayout, PayoutRow, PayoutStates, EntryKinds, IntentStates

\* Inserting the entry to post, and going on to the next one, keeps the
\* transaction well typed.
LEMMA TxPosted ==
  ASSUME NEW t \in Tx, t.post # "none", NEW k \in EntryKinds \cup {"none"}
  PROVE  [t EXCEPT !.entries = t.entries \cup {t.post}, !.post = k] \in Tx
  <1>1. t.entries \cup {t.post} \in SUBSET EntryKinds
    BY Zenon DEF Tx
  <1> QED BY Zenon, <1>1 DEF Tx

\* The initial tables and workers are well typed.
LEMMA TypeInit == Init => TypeOK
  BY EmptyTxType DEF Init, TypeOK, NoSaga, NoPayout, NoRun, Steps, SagaRow, BankRow, Run,
     PayoutRow, IntentStates, PayoutStates, Verdicts, PCs

-----------------------------------------------------------------------------
(* Type correctness of each step.  An entry is only inserted while one is  *)
(* to be posted and a commit only follows a claim, so the worker part of   *)
(* IInv is needed.                                                         *)

\* The statements of the claim, retry and fail queries keep the types.
LEMMA TypeRunner ==
  ASSUME TypeOK, NEW i \in Intents,
         \/ EnqueueSagaRun(i) \/ BackoffElapses(i) \/ LeaseExpires(i)
         \/ \E w \in Workers : ClaimDueSagaRun(w, i)
  PROVE  TypeOK'
  <1> saga[i] \in SagaRow /\ saga[i].step \in Steps /\ saga[i].attempts \in Nat
    BY Zenon DEF TypeOK, SagaRow
  <1> USE DEF TypeOK, db, worker, faults
  <1>1. CASE EnqueueSagaRun(i)
    BY Zenon, <1>1, NewSagaType DEF EnqueueSagaRun
  <1>2. CASE BackoffElapses(i)
    BY Zenon, <1>2, SagaRowUpdates DEF BackoffElapses
  <1>3. CASE LeaseExpires(i)
    <2>1. saga' \in [Intents -> SagaRow]
      BY Zenon, <1>3, SagaRowUpdates DEF LeaseExpires
    <2>2. stale' \in 0..MaxStale
      BY SMTT(30), <1>3 DEF LeaseExpires
    <2> QED BY SMTT(30), <1>3, <2>1, <2>2 DEF LeaseExpires
  <1>4. ASSUME NEW w \in Workers, ClaimDueSagaRun(w, i) PROVE TypeOK'
    <2>1. [intent |-> i, step |-> saga[i].step, attempts |-> saga[i].attempts] \in Run
      BY Zenon DEF Run
    <2> QED BY Zenon, <1>4, <2>1, SagaRowUpdates DEF ClaimDueSagaRun, PCs, InTx
  <1> QED BY Zenon, <1>1, <1>2, <1>3, <1>4

\* The reads of a step, the posting of its entries and the update of the
\* intent keep the types.
LEMMA TypeStep ==
  ASSUME TypeOK, NEW w \in Workers, RunOK(w), EntriesOK(w),
         Load(w) \/ LookupEntry(w) \/ InsertEntry(w) \/ UpdateIntent(w)
  PROVE  TypeOK'
  <1>0. /\ run[w].step \in Steps /\ tx[w] \in Tx
        /\ tx[w].post \in EntryKinds \cup {"none"}
    BY Zenon DEF TypeOK, Run, Tx
  <1>1. CASE Load(w)
    <2>1. FirstEntry(run[w].step) \in EntryKinds \cup {"none"}
      BY Zenon, <1>0 DEF FirstEntry, EntryKinds, Steps
    <2>2. [tx[w] EXCEPT !.post = FirstEntry(run[w].step)] \in Tx
      BY Zenon, <1>0, <2>1 DEF Tx
    <2>3. tx' \in [Workers -> Tx]
      <3>1. tx' = tx \/ tx' = [tx EXCEPT ![w] = [tx[w] EXCEPT !.post = FirstEntry(run[w].step)]]
        BY Zenon, <1>1 DEF Load
      <3> QED BY Zenon, <2>2, <3>1 DEF TypeOK
    <2>4. pc' \in [Workers -> PCs]
      BY Zenon, <1>1 DEF Load, TypeOK, PCs, InTx, Failing
    <2>5. seen' \in [Workers -> IntentStates]
      BY Zenon, <1>1 DEF Load, TypeOK, RunOK
    <2> QED BY Zenon, <1>1, <2>3, <2>4, <2>5 DEF Load, TypeOK, db, faults
  <1>2. EntryAfter(tx[w].post) \in EntryKinds \cup {"none"}
    BY Zenon DEF EntryAfter, EntryKinds
  <1>3. CASE LookupEntry(w)
    <2>1. tx' \in [Workers -> Tx]
      <3>1. [tx[w] EXCEPT !.post = EntryAfter(tx[w].post)] \in Tx
        BY Zenon, <1>0, <1>2 DEF Tx
      <3> QED BY Zenon, <1>3, <3>1 DEF LookupEntry, TypeOK
    <2>2. pc' \in [Workers -> PCs]
      BY Zenon, <1>3 DEF LookupEntry, Posted, TypeOK, PCs, InTx
    <2> QED BY Zenon, <1>3, <2>1, <2>2 DEF LookupEntry, TypeOK, db, faults
  <1>4. CASE InsertEntry(w)
    <2>1. tx' \in [Workers -> Tx]
      <3>1. tx[w].post # "none"
        BY Zenon, <1>4 DEF InsertEntry, EntriesOK
      <3>2. [tx[w] EXCEPT !.entries = tx[w].entries \cup {tx[w].post}, !.post = EntryAfter(tx[w].post)] \in Tx
        BY Zenon, <1>0, <1>2, <3>1, TxPosted
      <3>3. \/ tx' = [tx EXCEPT ![w] = EmptyTx]
            \/ tx' = [tx EXCEPT ![w] = [tx[w] EXCEPT !.entries = tx[w].entries \cup {tx[w].post},
                                                    !.post = EntryAfter(tx[w].post)]]
        BY Zenon, <1>4 DEF InsertEntry, Rollback
      <3> QED BY Zenon, <3>2, <3>3, EmptyTxType DEF TypeOK
    <2>2. pc' \in [Workers -> PCs]
      BY Zenon, <1>4 DEF InsertEntry, Posted, Rollback, TypeOK, PCs, InTx, Failing
    <2> QED BY Zenon, <1>4, <2>1, <2>2 DEF InsertEntry, TypeOK, db, faults
  <1>5. CASE UpdateIntent(w)
    <2> DEFINE m == IF Moves(w) THEN To(run[w].step) ELSE "none"
    <2>1. m \in IntentStates \cup {"none"} /\ Event(w) \in IntentStates \cup {"none"}
      BY Zenon, <1>0 DEF To, Event, Steps, IntentStates, TypeOK
    <2>2. [tx[w] EXCEPT !.intent = m, !.event = Event(w)] \in Tx
      BY Zenon, <1>0, <2>1 DEF Tx
    <2>3. tx' \in [Workers -> Tx]
      BY Zenon, <1>5, <2>2 DEF UpdateIntent, TypeOK
    <2>4. pc' \in [Workers -> PCs]
      BY Zenon, <1>5 DEF UpdateIntent, TypeOK, PCs, InTx
    <2> QED BY Zenon, <1>5, <2>3, <2>4 DEF UpdateIntent, TypeOK, db, faults
  <1> QED BY Zenon, <1>1, <1>3, <1>4, <1>5

\* The statements of trigger_payout keep the types.
LEMMA TypePayout ==
  ASSUME TypeOK, NEW w \in Workers, RunOK(w), TxPayoutOK(w),
         \/ UpsertPayout(w) \/ (\E v \in Verdicts : SubmitPayout(w, v))
         \/ SubmitUnanswered(w) \/ RejectPayout(w)
  PROVE  TypeOK'
  <1>0. /\ tx[w] \in Tx /\ tx[w].payout \in PayoutRow
        /\ tx[w].payout.id \in Keys \cup {None} /\ run[w].intent \in Intents \cup {None}
    BY Zenon DEF TypeOK, Tx, PayoutRow, Run
  <1>1. ASSUME NEW x \in PayoutRow PROVE [tx[w] EXCEPT !.payout = x] \in Tx
    BY Zenon, <1>0 DEF Tx
  <1>2. ASSUME NEW v \in Verdicts, BankHandles(w, v) PROVE bank' \in [Keys -> BankRow]
    <2>1. [intent |-> run[w].intent, verdict |-> v] \in BankRow
      BY Zenon, <1>0 DEF BankRow
    <2> QED BY Zenon, <1>2, <2>1 DEF BankHandles, TypeOK
  <1>3. CASE UpsertPayout(w)
    <2>1. payout[run[w].intent] \in PayoutRow
      BY Zenon, <1>3 DEF UpsertPayout, RunOK, TypeOK
    <2>2. (\E k \in Keys : Fresh(k)) => [id |-> NewPayoutId, state |-> "pending"] \in PayoutRow
      BY Zenon DEF NewPayoutId, PayoutRow, PayoutStates
    <2>3. tx' \in [Workers -> Tx]
      <3>1. CASE tx' = [tx EXCEPT ![w] = EmptyTx]
        BY Zenon, <3>1, EmptyTxType DEF TypeOK
      <3>2. CASE tx' # [tx EXCEPT ![w] = EmptyTx]
        <4>1. PICK x \in PayoutRow : tx' = [tx EXCEPT ![w] = [tx[w] EXCEPT !.payout = x]]
          BY Zenon, <1>3, <2>1, <2>2, <3>2 DEF UpsertPayout, Rollback
        <4> QED BY Zenon, <1>1, <4>1 DEF TypeOK
      <3> QED BY Zenon, <3>1, <3>2
    <2>4. pc' \in [Workers -> PCs]
      BY Zenon, <1>3 DEF UpsertPayout, Rollback, TypeOK, PCs, InTx, Failing
    <2> QED BY Zenon, <1>3, <2>3, <2>4 DEF UpsertPayout, TypeOK, db, faults
  <1>4. ASSUME NEW v \in Verdicts, SubmitPayout(w, v) PROVE TypeOK'
    <2>1. /\ [tx[w].payout EXCEPT !.state = "succeeded"] \in PayoutRow
          /\ [tx[w].payout EXCEPT !.state = "failed"] \in PayoutRow
      BY Zenon, <1>0 DEF PayoutRow, PayoutStates
    <2>2. tx' \in [Workers -> Tx]
      <3>1. \/ tx' = [tx EXCEPT ![w] = EmptyTx]
            \/ \E x \in PayoutRow : tx' = [tx EXCEPT ![w] = [tx[w] EXCEPT !.payout = x]]
        BY Zenon, <1>4, <2>1 DEF SubmitPayout, Rollback, TypeOK
      <3>2. CASE tx' = [tx EXCEPT ![w] = EmptyTx]
        BY Zenon, <3>2, EmptyTxType DEF TypeOK
      <3>3. ASSUME NEW x \in PayoutRow, tx' = [tx EXCEPT ![w] = [tx[w] EXCEPT !.payout = x]]
            PROVE  tx' \in [Workers -> Tx]
        BY Zenon, <1>1, <3>3 DEF TypeOK
      <3> QED BY Zenon, <3>1, <3>2, <3>3
    <2>3. pc' \in [Workers -> PCs]
      BY <1>4 DEF SubmitPayout, Rollback, TypeOK, PCs, InTx, Failing
    <2>4. bank' \in [Keys -> BankRow]
      BY Zenon, <1>2, <1>4 DEF SubmitPayout
    <2> QED BY Zenon, <1>4, <2>2, <2>3, <2>4 DEF SubmitPayout, TypeOK, db, faults
  <1>5. CASE SubmitUnanswered(w)
    <2>1. tx' \in [Workers -> Tx] /\ pc' \in [Workers -> PCs]
      BY Zenon, <1>5, EmptyTxType DEF SubmitUnanswered, Rollback, TypeOK, PCs, Failing
    <2>2. bank' \in [Keys -> BankRow]
      BY Zenon, <1>2, <1>5 DEF SubmitUnanswered, TypeOK
    <2>3. lost' \in 0..MaxLost
      BY <1>5 DEF SubmitUnanswered, TypeOK
    <2> QED BY Zenon, <1>5, <2>1, <2>2, <2>3 DEF SubmitUnanswered, TypeOK, db
  <1>6. CASE RejectPayout(w)
    BY Zenon, <1>6, EmptyTxType DEF RejectPayout, Rollback, TypeOK, PCs, Failing, db, faults
  <1> QED BY Zenon, <1>3, <1>4, <1>5, <1>6

\* Committing a step, failing it, crashing and recording the failure keep the
\* types.
LEMMA TypeEnd ==
  ASSUME TypeOK, NEW w \in Workers, RunOK(w),
         \/ Commit(w) \/ CommitUnacknowledged(w) \/ StepError(w) \/ Crash(w) \/ RecordFailure(w)
  PROVE  TypeOK'
  <1>1. ASSUME NEW p \in PCs, Rollback(w, p)
        PROVE  tx' \in [Workers -> Tx] /\ pc' \in [Workers -> PCs]
    BY Zenon, <1>1, EmptyTxType DEF Rollback, TypeOK
  <1>2. ASSUME Apply(w), run[w].intent \in Intents
        PROVE  /\ saga' \in [Intents -> SagaRow] /\ intent' \in [Intents -> IntentStates]
               /\ payout' \in [Intents -> PayoutRow] /\ journal' \in [Intents -> SUBSET EntryKinds]
               /\ outbox' \in [Intents -> Seq(IntentStates)]
    <2>1. /\ run[w].step \in Steps /\ saga[run[w].intent] \in SagaRow
          /\ tx[w].intent \in IntentStates \cup {"none"} /\ tx[w].event \in IntentStates \cup {"none"}
          /\ tx[w].payout \in PayoutRow /\ tx[w].entries \in SUBSET EntryKinds
      BY Zenon, <1>2 DEF TypeOK, Run, Tx
    <2>2. run[w].step # "emit_completed" => NextStep(run[w].step) \in Steps
      BY SMTT(30), <2>1 DEF NextStep, Steps
    <2>3. SagaAfter(w) \in SagaRow
      BY Zenon, <2>1, <2>2, SagaRowUpdates, AdvancedSagaType DEF SagaAfter
    <2>4. saga' \in [Intents -> SagaRow]
      BY Zenon, <1>2, <2>3 DEF Apply, TypeOK
    <2>5. intent' \in [Intents -> IntentStates] /\ payout' \in [Intents -> PayoutRow]
      BY Zenon, <1>2, <2>1 DEF Apply, TypeOK
    <2>6. journal' \in [Intents -> SUBSET EntryKinds]
      BY Zenon, <1>2, <2>1 DEF Apply, TypeOK
    <2>7. outbox' \in [Intents -> Seq(IntentStates)]
      BY <1>2, <2>1 DEF Apply, TypeOK
    <2> QED BY Zenon, <2>4, <2>5, <2>6, <2>7
  <1>3. CASE Commit(w)
    BY Zenon, <1>1, <1>2, <1>3 DEF Commit, RunOK, TypeOK, PCs, faults
  <1>4. CASE CommitUnacknowledged(w)
    <2>1. unacked' \in 0..MaxUnacked
      BY <1>4 DEF CommitUnacknowledged, TypeOK
    <2> QED BY Zenon, <1>1, <1>2, <1>4, <2>1 DEF CommitUnacknowledged, RunOK, TypeOK, PCs, Failing
  <1>5. CASE StepError(w) \/ Crash(w)
    <2>1. crashes' \in 0..MaxCrashes
      BY <1>5 DEF StepError, Crash, TypeOK
    <2> QED BY Zenon, <1>1, <1>5, <2>1 DEF StepError, Crash, TypeOK, PCs, Failing, db
  <1>6. CASE RecordFailure(w)
    <2>1. run[w].intent \in Intents /\ saga[run[w].intent] \in SagaRow
      BY Zenon, <1>6 DEF RecordFailure, RunOK, TypeOK, Failing
    <2>2. saga' \in [Intents -> SagaRow]
      <3>1. FailSagaRun(run[w].intent) \/ ScheduleSagaRetry(run[w].intent)
        BY SMTT(30), <1>6 DEF RecordFailure
      <3>2. CASE FailSagaRun(run[w].intent)
        BY ZenonT(40), <2>1, <3>2, SagaRowUpdates DEF FailSagaRun, TypeOK
      <3>3. CASE ScheduleSagaRetry(run[w].intent)
        BY Zenon, <2>1, <3>3, SagaRowUpdates DEF ScheduleSagaRetry, TypeOK
      <3> QED BY Zenon, <3>1, <3>2, <3>3
    <2> QED BY Zenon, <1>6, <2>2 DEF RecordFailure, TypeOK, PCs, faults
  <1> QED BY Zenon, <1>3, <1>4, <1>5, <1>6

-----------------------------------------------------------------------------
(* What a step leaves alone.  Workers rely on the tables only through      *)
(* facts that later commits do not undo.                                   *)

\* No entry disappears and no successful payout is taken back.
Grows ==
  \A i \in Intents :
    /\ journal[i] \subseteq journal'[i]
    /\ payout[i].state = "succeeded" => payout'[i].state = "succeeded"

\* The prerequisites of a step survive every growth of the tables.
LEMMA PrerequisitesStable ==
  ASSUME Grows, NEW i \in Intents, NEW s, Prerequisites(s, i)
  PROVE  Prerequisites(s, i)'
  BY Zenon DEF Grows, Prerequisites

\* A worker that does not move keeps its part of the invariant while others
\* commit and the bank answers for other ids.
LEMMA WorkerFrame ==
  ASSUME NEW v \in Workers, WorkerOK(v), Grows,
         pc'[v] = pc[v], run'[v] = run[v], tx'[v] = tx[v],
         tx[v].payout.id # None => bank'[tx[v].payout.id] = bank[tx[v].payout.id]
  PROVE  WorkerOK(v)'
  <1>1. RunOK(v)'
    BY Zenon, PrerequisitesStable DEF WorkerOK, RunOK, Prerequisites, Grows
  <1>2. EntriesOK(v)'
    BY Zenon DEF WorkerOK, RunOK, EntriesOK, Entries, Grows
  <1>3. TxPayoutOK(v)'
    BY Zenon DEF WorkerOK, TxPayoutOK, Paid
  <1>4. TxEventOK(v)'
    BY Zenon DEF WorkerOK, TxEventOK
  <1> QED BY Zenon, <1>1, <1>2, <1>3, <1>4 DEF WorkerOK

\* A worker whose transaction was rolled back keeps its part.
LEMMA RolledBack ==
  ASSUME TypeOK, NEW w \in Workers, WorkerOK(w), Grows, pc[w] # "idle", run'[w] = run[w],
         tx'[w] = EmptyTx, pc'[w] \in {"idle", "retry", "fail"}
  PROVE  WorkerOK(w)'
  <1>1. RunOK(w)'
    BY Zenon DEF WorkerOK, RunOK, Prerequisites, Grows
  <1>2. EntriesOK(w)'
    BY DEF EntriesOK, EmptyTx
  <1>3. TxPayoutOK(w)'
    BY DEF TxPayoutOK, EmptyTx, NoPayout
  <1>4. TxEventOK(w)'
    BY DEF TxEventOK, EmptyTx
  <1> QED BY Zenon, <1>1, <1>2, <1>3, <1>4 DEF WorkerOK

\* The rows of an intent keep their part when only the lease, the schedule or
\* the claim of its saga changes and the bank leaves its payout id alone.
LEMMA IntentFrame ==
  ASSUME NEW i \in Intents, IntentOK(i),
         saga'[i].step = saga[i].step,
         saga'[i].state = "completed" => saga[i].state = "completed",
         journal'[i] = journal[i], outbox'[i] = outbox[i], payout'[i] = payout[i],
         payout[i].id \in Keys => bank'[payout[i].id] = bank[payout[i].id]
  PROVE  IntentOK(i)'
  BY Zenon DEF IntentOK, Prerequisites, Paid, Legs

\* Neither passing time nor a claim, a retry or a failure moves a saga to
\* another step or completes it.
LEMMA StepKept ==
  ASSUME saga \in [Intents -> SagaRow], NEW i \in Intents, NEW j \in Intents,
         \/ BackoffElapses(i) \/ LeaseExpires(i) \/ (\E w \in Workers : ClaimDueSagaRun(w, i))
         \/ FailSagaRun(i) \/ ScheduleSagaRetry(i)
  PROVE  saga'[j].step = saga[j].step /\ (saga'[j].state = "completed" => saga[j].state = "completed")
  <1>1. ASSUME NEW r, saga' = [saga EXCEPT ![i] = r], r.step = saga[i].step,
               r.state = "completed" => saga[i].state = "completed"
        PROVE  saga'[j].step = saga[j].step /\ (saga'[j].state = "completed" => saga[j].state = "completed")
    BY Zenon, <1>1
  <1>2. saga[i] \in SagaRow
    BY Zenon
  <1>3. CASE BackoffElapses(i)
    <2>1. [saga[i] EXCEPT !.next_run = "due"].step = saga[i].step
          /\ [saga[i] EXCEPT !.next_run = "due"].state = saga[i].state
      BY Zenon, <1>2 DEF SagaRow
    <2> QED BY Zenon, <1>1, <1>3, <2>1 DEF BackoffElapses
  <1>4. CASE LeaseExpires(i)
    <2>1. [saga[i] EXCEPT !.lease = "expired"].step = saga[i].step
          /\ [saga[i] EXCEPT !.lease = "expired"].state = saga[i].state
      BY Zenon, <1>2 DEF SagaRow
    <2> QED BY Zenon, <1>1, <1>4, <2>1 DEF LeaseExpires
  <1>5. CASE \E w \in Workers : ClaimDueSagaRun(w, i)
    <2>1. [saga[i] EXCEPT !.state = "running", !.lease = "held"].step = saga[i].step
          /\ [saga[i] EXCEPT !.state = "running", !.lease = "held"].state = "running"
      BY Zenon, <1>2 DEF SagaRow
    <2> QED BY Zenon, <1>1, <1>5, <2>1 DEF ClaimDueSagaRun
  <1>6. CASE FailSagaRun(i)
    <2>1. [saga[i] EXCEPT !.state = "failed", !.lease = "none"].step = saga[i].step
          /\ [saga[i] EXCEPT !.state = "failed", !.lease = "none"].state = "failed"
      BY Zenon, <1>2 DEF SagaRow
    <2> QED BY Zenon, <1>1, <1>6, <2>1 DEF FailSagaRun
  <1>7. CASE ScheduleSagaRetry(i)
    <2> DEFINE r == [saga[i] EXCEPT !.state = "pending", !.lease = "none",
                                    !.attempts = saga[i].attempts + 1, !.next_run = "later"]
    <2>1. r.step = saga[i].step /\ r.state = "pending"
      BY Zenon, <1>2 DEF SagaRow
    <2> QED BY Zenon, <1>1, <1>7, <2>1 DEF ScheduleSagaRetry
  <1> QED BY Zenon, <1>3, <1>4, <1>5, <1>6, <1>7

\* Ids stay distinct and submissions serialized while payout rows are only
\* carried along or dropped.
LEMMA KeysFrame ==
  ASSUME SerializedSubmission, KeysDistinct, payout' = payout,
         \A v \in Workers : \/ tx'[v].payout = NoPayout
                            \/ /\ tx'[v].payout.id = tx[v].payout.id
                               /\ tx[v].payout.state = "none" => tx'[v].payout.state = "none"
                               /\ run'[v].intent = run[v].intent
  PROVE  SerializedSubmission' /\ KeysDistinct'
  <1>1. SerializedSubmission'
    BY DEF SerializedSubmission, NoPayout
  <1>2. KeysDistinct'
    BY DEF KeysDistinct, NoPayout
  <1> QED BY Zenon, <1>1, <1>2

\* What the bank has paid stays credited.
LEMMA BankFrame ==
  ASSUME BankOK, bank' = bank, Grows
  PROVE  BankOK'
  BY Zenon DEF BankOK, Grows

-----------------------------------------------------------------------------
(* The inductive invariant.                                                *)

\* It holds before any saga is enqueued.
LEMMA InvInit == Init => IInv
  <1> SUFFICES ASSUME Init PROVE IInv
    BY Zenon
  <1>1. TypeOK
    BY Zenon, TypeInit
  <1>2. ASSUME NEW i \in Intents PROVE IntentOK(i)
    BY Zenon DEF Init, IntentOK, NoSaga, NoPayout, Prerequisites, Legs
  <1>3. ASSUME NEW w \in Workers PROVE WorkerOK(w)
    BY Zenon DEF Init, WorkerOK, RunOK, EntriesOK, TxPayoutOK, TxEventOK, EmptyTx, NoPayout
  <1>4. SerializedSubmission /\ KeysDistinct /\ BankOK
    BY Zenon DEF Init, SerializedSubmission, KeysDistinct, BankOK, EmptyTx, NoPayout
  <1> QED BY Zenon, <1>1, <1>2, <1>3, <1>4 DEF IInv

\* The watcher's enqueue, passing time and a claim keep it: a claimed step's
\* prerequisites are those of the saga row.
LEMMA InvRunner ==
  ASSUME IInv, NEW i \in Intents,
         \/ EnqueueSagaRun(i) \/ BackoffElapses(i) \/ LeaseExpires(i)
         \/ \E w \in Workers : ClaimDueSagaRun(w, i)
  PROVE  IInv'
  <1> DEFINE Only == UNCHANGED <<intent, payout, journal, outbox, bank, tx>>
  <1>1. Only /\ Grows
    BY Zenon DEF EnqueueSagaRun, BackoffElapses, LeaseExpires, ClaimDueSagaRun, worker, Grows
  <1>2. TypeOK'
    BY Zenon, TypeRunner DEF IInv
  <1>3. ASSUME NEW j \in Intents PROVE IntentOK(j)'
    <2>1. IntentOK(j) /\ saga[j] \in SagaRow /\ saga \in [Intents -> SagaRow]
      BY Zenon DEF IInv, TypeOK
    <2>2. CASE EnqueueSagaRun(i)
      BY Zenon, <1>1, <2>1, <2>2 DEF EnqueueSagaRun, NoSaga, IntentOK, Prerequisites, Paid, Legs
    <2>3. CASE ~EnqueueSagaRun(i)
      <3>1. saga'[j].step = saga[j].step /\ (saga'[j].state = "completed" => saga[j].state = "completed")
        BY Zenon, <2>1, <2>3, StepKept
      <3> QED BY Zenon, <1>1, <2>1, <3>1, IntentFrame
    <2> QED BY Zenon, <2>2, <2>3
  <1>4. ASSUME NEW v \in Workers PROVE WorkerOK(v)'
    <2>1. CASE pc'[v] = pc[v] /\ run'[v] = run[v]
      BY Zenon, <1>1, <2>1, WorkerFrame DEF IInv
    <2>2. CASE ~(pc'[v] = pc[v] /\ run'[v] = run[v])
      <3>1. ClaimDueSagaRun(v, i)
        BY <2>2 DEF EnqueueSagaRun, BackoffElapses, LeaseExpires, ClaimDueSagaRun, worker, IInv, TypeOK
      <3>2. /\ tx[v] = EmptyTx /\ tx'[v] = EmptyTx /\ pc'[v] = "load"
            /\ run'[v].intent = i /\ run'[v].step = saga[i].step
        BY Zenon, <1>1, <3>1 DEF ClaimDueSagaRun, IInv, WorkerOK, RunOK, TypeOK
      <3>3. Prerequisites(saga[i].step, i)
        BY Zenon DEF IInv, IntentOK
      <3>4. RunOK(v)'
        BY Zenon, <1>1, <3>2, <3>3 DEF RunOK, Prerequisites
      <3>5. EntriesOK(v)' /\ TxPayoutOK(v)' /\ TxEventOK(v)'
        BY <3>2 DEF EntriesOK, TxPayoutOK, TxEventOK, EmptyTx, NoPayout
      <3> QED BY Zenon, <3>4, <3>5 DEF WorkerOK
    <2> QED BY Zenon, <2>1, <2>2
  <1>5. SerializedSubmission' /\ KeysDistinct'
    <2>1. ASSUME NEW v \in Workers
          PROVE  tx'[v].payout = NoPayout \/ (tx'[v].payout = tx[v].payout /\ run'[v].intent = run[v].intent)
      <3>1. CASE run'[v] = run[v]
        BY Zenon, <1>1, <3>1
      <3>2. CASE run'[v] # run[v]
        <4>1. tx[v] = EmptyTx
          BY Zenon, <3>2 DEF EnqueueSagaRun, BackoffElapses, LeaseExpires, ClaimDueSagaRun, worker,
                      IInv, TypeOK, WorkerOK, RunOK
        <4> QED BY <1>1, <4>1 DEF EmptyTx
      <3> QED BY Zenon, <3>1, <3>2
    <2> QED BY Zenon, <1>1, <2>1, KeysFrame DEF IInv
  <1>6. BankOK'
    BY Zenon, <1>1, BankFrame DEF IInv
  <1> QED BY Zenon, <1>2, <1>3, <1>4, <1>5, <1>6 DEF IInv

\* A rollback (statement error, crash, rejected payout) and the recording of
\* a failure keep it.
LEMMA InvFailure ==
  ASSUME IInv, NEW w \in Workers,
         StepError(w) \/ Crash(w) \/ RejectPayout(w) \/ RecordFailure(w)
  PROVE  IInv'
  <1>1. UNCHANGED <<intent, payout, journal, outbox, bank, run>> /\ Grows
    BY Zenon DEF StepError, Crash, RejectPayout, RecordFailure, db, Grows
  <1>2. TypeOK'
    BY Zenon, TypeEnd, TypePayout DEF IInv, WorkerOK
  <1>3. ASSUME NEW j \in Intents PROVE IntentOK(j)'
    <2>1. IntentOK(j) /\ saga \in [Intents -> SagaRow] /\ saga[j] \in SagaRow
      BY Zenon DEF IInv, TypeOK
    <2>2. saga'[j].step = saga[j].step /\ (saga'[j].state = "completed" => saga[j].state = "completed")
      <3>1. CASE RecordFailure(w)
        <4>1. run[w].intent \in Intents
          BY Zenon, <3>1 DEF RecordFailure, Failing, IInv, WorkerOK, RunOK
        <4> QED BY Zenon, <2>1, <3>1, <4>1, StepKept DEF RecordFailure
      <3>2. CASE ~RecordFailure(w)
        BY Zenon, <3>2 DEF StepError, Crash, RejectPayout, db
      <3> QED BY Zenon, <3>1, <3>2
    <2> QED BY Zenon, <1>1, <2>1, <2>2, IntentFrame
  <1>4. /\ tx'[w] = EmptyTx /\ pc'[w] \in {"idle", "retry", "fail"} /\ pc[w] # "idle"
        /\ \A v \in Workers : v # w => tx'[v] = tx[v] /\ pc'[v] = pc[v]
    BY Zenon DEF StepError, Crash, RejectPayout, RecordFailure, Rollback, IInv, TypeOK, WorkerOK, RunOK,
           Failing, InTx
  <1>5. ASSUME NEW v \in Workers PROVE WorkerOK(v)'
    <2>1. CASE v = w
      BY Zenon, <1>1, <1>4, <2>1, RolledBack DEF IInv
    <2>2. CASE v # w
      BY Zenon, <1>1, <1>4, <2>2, WorkerFrame DEF IInv
    <2> QED BY Zenon, <2>1, <2>2
  <1>6. SerializedSubmission' /\ KeysDistinct'
    BY <1>1, <1>4, KeysFrame DEF IInv, EmptyTx
  <1>7. BankOK'
    BY Zenon, <1>1, BankFrame DEF IInv
  <1> QED BY Zenon, <1>2, <1>3, <1>5, <1>6, <1>7 DEF IInv

\* A step that only touches worker w's transaction, and not its payout row,
\* keeps the invariant if it keeps w's part of it.
LEMMA InvLocal ==
  ASSUME IInv, NEW w \in Workers, TypeOK', WorkerOK(w)',
         UNCHANGED <<saga, intent, payout, journal, outbox, bank, run>>,
         \A v \in Workers : v # w => tx'[v] = tx[v] /\ pc'[v] = pc[v],
         tx'[w].payout \in {tx[w].payout, NoPayout}
  PROVE  IInv'
  <1>1. Grows
    BY Zenon DEF Grows
  <1>2. ASSUME NEW j \in Intents PROVE IntentOK(j)'
    BY Zenon, IntentFrame DEF IInv
  <1>3. ASSUME NEW v \in Workers PROVE WorkerOK(v)'
    BY Zenon, <1>1, WorkerFrame DEF IInv
  <1>4. SerializedSubmission' /\ KeysDistinct'
    BY Zenon, KeysFrame DEF IInv
  <1>5. BankOK'
    BY Zenon, <1>1, BankFrame DEF IInv
  <1> QED BY Zenon, <1>2, <1>3, <1>4, <1>5 DEF IInv

\* The reads of a step keep it: what the step may post or submit next is
\* what its name says.
LEMMA InvLoad ==
  ASSUME IInv, NEW w \in Workers, Load(w)
  PROVE  IInv'
  <1>1. TypeOK'
    BY Zenon, TypeStep DEF IInv, WorkerOK
  <1>2. /\ tx[w] = EmptyTx /\ run' = run /\ journal' = journal /\ payout' = payout /\ bank' = bank
        /\ run[w].intent \in Intents /\ Prerequisites(run[w].step, run[w].intent) /\ run[w].step \in Steps
    BY Zenon DEF Load, IInv, WorkerOK, RunOK, TypeOK, Run, db
  <1>3. /\ tx'[w].entries = {} /\ tx'[w].payout = NoPayout /\ tx'[w].intent = "none"
        /\ tx'[w].event = "none"
        /\ pc'[w] # "fail" => tx'[w].post = FirstEntry(run[w].step)
    <2> DEFINE t == [EmptyTx EXCEPT !.post = FirstEntry(run[w].step)]
    <2>1. /\ tx'[w] = EmptyTx \/ tx'[w] = t
          /\ pc'[w] # "fail" => tx'[w] = t
      BY Zenon, <1>2 DEF Load, IInv, TypeOK
    <2>2. /\ t.entries = {} /\ t.payout = NoPayout /\ t.intent = "none" /\ t.event = "none"
          /\ t.post = FirstEntry(run[w].step)
      BY Zenon DEF EmptyTx
    <2>3. /\ EmptyTx.entries = {} /\ EmptyTx.payout = NoPayout /\ EmptyTx.intent = "none"
          /\ EmptyTx.event = "none"
      BY Zenon DEF EmptyTx
    <2> HIDE DEF t
    <2> QED BY Zenon, <2>1, <2>2, <2>3
  <1>4. /\ pc'[w] \in {"upsert", "fail", "intent", "lookup"}
        /\ pc'[w] = "upsert" => run[w].step = "trigger_payout"
        /\ pc'[w] = "lookup" => run[w].step \in {"credit_deposit", "apply_payout_result"}
        /\ pc'[w] = "intent" => run[w].step = "emit_completed"
        /\ pc'[w] = "fail" => tx'[w] = EmptyTx
    BY Zenon, <1>2 DEF Load, IInv, TypeOK, Steps
  <1>5. RunOK(w)'
    BY Zenon, <1>2, <1>4 DEF RunOK, Prerequisites
  <1>6. EntriesOK(w)'
    BY Zenon, <1>2, <1>3, <1>4 DEF EntriesOK, FirstEntry, EmptyTx
  <1>7. TxPayoutOK(w)' /\ TxEventOK(w)'
    BY <1>2, <1>3, <1>4 DEF TxPayoutOK, TxEventOK, NoPayout
  <1>8. UNCHANGED <<saga, intent, payout, journal, outbox, bank, run>>
        /\ \A v \in Workers : v # w => tx'[v] = tx[v] /\ pc'[v] = pc[v]
    BY Zenon DEF Load, db, IInv, TypeOK
  <1> QED BY Zenon, <1>1, <1>3, <1>5, <1>6, <1>7, <1>8, InvLocal DEF WorkerOK

\* Looking an entry up and inserting it keep it: fx_swap_usdc is on the books
\* or in the transaction before payout_disbursed is looked at.
LEMMA InvPost ==
  ASSUME IInv, NEW w \in Workers, LookupEntry(w) \/ InsertEntry(w)
  PROVE  IInv'
  <1>1. TypeOK'
    BY Zenon, TypeStep DEF IInv, WorkerOK
  <1>2. /\ UNCHANGED <<saga, intent, payout, journal, outbox, bank, run>> /\ Grows
        /\ \A v \in Workers : v # w => tx'[v] = tx[v] /\ pc'[v] = pc[v]
    BY Zenon DEF LookupEntry, InsertEntry, Rollback, Posted, db, Grows, IInv, TypeOK
  <1>3. /\ WorkerOK(w) /\ pc[w] # "idle" /\ pc[w] \in {"lookup", "insert"}
        /\ tx[w] \in Tx /\ tx \in [Workers -> Tx] /\ pc \in [Workers -> PCs]
    BY Zenon DEF LookupEntry, InsertEntry, IInv, TypeOK
  <1>4. CASE tx'[w] = EmptyTx /\ pc'[w] = "retry"
    <2>1. WorkerOK(w)'
      BY Zenon, <1>2, <1>3, <1>4, RolledBack DEF IInv
    <2> QED BY <1>1, <1>2, <1>4, <2>1, InvLocal DEF EmptyTx
  <1>5. CASE ~(tx'[w] = EmptyTx /\ pc'[w] = "retry")
    <2>1. /\ tx'[w].payout = tx[w].payout /\ tx'[w].event = tx[w].event
          /\ tx'[w].entries = tx[w].entries \/ tx'[w].entries = tx[w].entries \cup {tx[w].post}
          /\ \/ pc'[w] = "insert" /\ tx'[w].post = tx[w].post
             \/ /\ tx[w].post \in journal[run[w].intent] \cup tx'[w].entries
                /\ tx'[w].post = EntryAfter(tx[w].post)
                /\ pc'[w] = IF EntryAfter(tx[w].post) = "none" THEN "intent" ELSE "lookup"
      <3>1. CASE LookupEntry(w)
        BY <1>3, <3>1 DEF LookupEntry, Posted, Tx
      <3>2. CASE InsertEntry(w)
        <4> DEFINE t == [tx[w] EXCEPT !.entries = tx[w].entries \cup {tx[w].post},
                                      !.post = EntryAfter(tx[w].post)]
        <4>1. tx'[w] = t /\ Posted(w)
          BY Zenon, <1>3, <1>5, <3>2 DEF InsertEntry, Rollback
        <4>2. /\ t.payout = tx[w].payout /\ t.event = tx[w].event
              /\ t.entries = tx[w].entries \cup {tx[w].post} /\ t.post = EntryAfter(tx[w].post)
          BY Zenon, <1>3 DEF Tx
        <4> HIDE DEF t
        <4> QED BY Zenon, <1>3, <4>1, <4>2 DEF Posted
      <3> QED BY Zenon, <3>1, <3>2
    <2>2. RunOK(w)'
      BY SMTT(30), <1>2, <1>3, <2>1 DEF WorkerOK, RunOK, Prerequisites
    <2>3. EntriesOK(w)'
      BY SMTT(30), <1>2, <1>3, <2>1 DEF WorkerOK, EntriesOK, Entries, EntryAfter, Legs
    <2>4. TxPayoutOK(w)' /\ TxEventOK(w)'
      BY SMTT(30), <1>2, <1>3, <2>1 DEF WorkerOK, TxPayoutOK, TxEventOK, EntriesOK, EntryAfter
    <2> QED BY Zenon, <1>1, <1>2, <2>1, <2>2, <2>3, <2>4, InvLocal DEF WorkerOK
  <1> QED BY Zenon, <1>4, <1>5

\* The update of the intent, with the event of emit_completed, keeps it.
LEMMA InvUpdateIntent ==
  ASSUME IInv, NEW w \in Workers, UpdateIntent(w)
  PROVE  IInv'
  <1>1. TypeOK'
    BY Zenon, TypeStep DEF IInv, WorkerOK
  <1>2. /\ UNCHANGED <<saga, intent, payout, journal, outbox, bank, run>>
        /\ \A v \in Workers : v # w => tx'[v] = tx[v] /\ pc'[v] = pc[v]
    BY Zenon DEF UpdateIntent, db, IInv, TypeOK
  <1>3. /\ WorkerOK(w) /\ pc[w] = "intent" /\ pc'[w] = "commit" /\ tx[w] \in Tx
        /\ seen[w] \in IntentStates
    BY Zenon DEF UpdateIntent, IInv, TypeOK
  <1>4. /\ tx'[w].payout = tx[w].payout /\ tx'[w].entries = tx[w].entries
        /\ tx'[w].event = Event(w)
    BY Zenon, <1>3 DEF UpdateIntent, IInv, TypeOK, Tx
  <1>5. /\ Event(w) # "none" => run[w].step = "emit_completed"
        /\ run[w].step = "emit_completed" => Event(w) # "none"
    BY Zenon, <1>3 DEF Event, To, IntentStates
  <1>6. RunOK(w)'
    BY Zenon, <1>2, <1>3 DEF WorkerOK, RunOK, Prerequisites
  <1>7. EntriesOK(w)'
    BY Zenon, <1>2, <1>3, <1>4 DEF WorkerOK, EntriesOK, Entries, Legs
  <1>8. TxPayoutOK(w)' /\ TxEventOK(w)'
    BY Zenon, <1>2, <1>3, <1>4, <1>5 DEF WorkerOK, TxPayoutOK, TxEventOK, Paid
  <1> QED BY Zenon, <1>1, <1>2, <1>4, <1>6, <1>7, <1>8, InvLocal DEF WorkerOK

-----------------------------------------------------------------------------
(* The statements that matter most: taking the payouts row, calling the    *)
(* bank, and committing a step.                                            *)

\* Upserting the payouts row keeps it: the row is locked for nobody else, and
\* it is either new, with an id nobody has used, or the committed success.
LEMMA InvUpsert ==
  ASSUME IInv, NEW w \in Workers, UpsertPayout(w)
  PROVE  IInv'
  <1> DEFINE i == run[w].intent
  <1> DEFINE x == tx'[w].payout
  <1>1. TypeOK'
    BY Zenon, TypePayout DEF IInv, WorkerOK
  <1>2. /\ UNCHANGED <<saga, intent, payout, journal, outbox, bank, run>> /\ Grows
        /\ \A v \in Workers : v # w => tx'[v] = tx[v] /\ pc'[v] = pc[v]
    BY Zenon DEF UpsertPayout, Rollback, db, Grows, IInv, TypeOK
  <1>3. /\ WorkerOK(w) /\ pc[w] = "upsert" /\ tx[w] \in Tx /\ i \in Intents
        /\ run[w].step = "trigger_payout" /\ IntentOK(i) /\ tx \in [Workers -> Tx]
        /\ pc \in [Workers -> PCs]
    BY Zenon DEF UpsertPayout, IInv, TypeOK, WorkerOK, RunOK, TxPayoutOK
  <1>4. payout[i] = NoPayout \/ (payout[i].state = "succeeded" /\ payout[i].id \in Keys
                                 /\ bank[payout[i].id] = Paid(i))
    BY Zenon, <1>3 DEF IntentOK
  <1>5. \/ /\ x.state = "pending" /\ x.id \in Keys /\ Fresh(x.id) /\ pc'[w] = "submit"
        \/ /\ payout[i].state = "succeeded" /\ x = payout[i] /\ pc'[w] = "intent"
    <2>1. CASE payout[i] = NoPayout
      <3>1. NewPayoutId \in Keys /\ Fresh(NewPayoutId)
        BY <2>1 DEF UpsertPayout, NewPayoutId, NoPayout
      <3>2. tx'[w] = [tx[w] EXCEPT !.payout = [id |-> NewPayoutId, state |-> "pending"]]
            /\ pc'[w] = "submit"
        BY <1>3, <2>1 DEF UpsertPayout, NoPayout
      <3>3. x = [id |-> NewPayoutId, state |-> "pending"]
        BY Zenon, <1>3, <3>2 DEF Tx
      <3> QED BY <3>1, <3>2, <3>3
    <2>2. CASE payout[i].state = "succeeded"
      <3>1. tx'[w] = [tx[w] EXCEPT !.payout = payout[i]] /\ pc'[w] = "intent"
        BY Zenon, <1>3, <2>2 DEF UpsertPayout
      <3> QED BY Zenon, <1>3, <2>2, <3>1 DEF Tx
    <2> QED BY Zenon, <1>4, <2>1, <2>2
  <1>6. tx'[w].entries = tx[w].entries /\ tx'[w].event = tx[w].event
    <2>1. \/ tx'[w] = [tx[w] EXCEPT !.payout = [id |-> NewPayoutId, state |-> "pending"]]
          \/ tx'[w] = [tx[w] EXCEPT !.payout = payout[i]]
      BY <1>3, <1>4 DEF UpsertPayout, NoPayout
    <2> QED BY Zenon, <1>3, <2>1 DEF Tx
  <1>7. ASSUME NEW j \in Intents PROVE IntentOK(j)'
    BY Zenon, <1>2, IntentFrame DEF IInv
  <1>8. WorkerOK(w)'
    <2>1. RunOK(w)'
      BY Zenon, <1>2, <1>3, <1>5 DEF WorkerOK, RunOK, Prerequisites
    <2>2. EntriesOK(w)'
      BY Zenon, <1>2, <1>3, <1>5, <1>6 DEF WorkerOK, EntriesOK, Entries, Legs
    <2>3. TxPayoutOK(w)'
      <3>1. \/ x.state = "pending" /\ x.id \in Keys /\ bank[x.id].verdict = "none" /\ pc'[w] = "submit"
            \/ x.state = "succeeded" /\ x.id \in Keys /\ bank[x.id] = Paid(i) /\ pc'[w] = "intent"
        BY <1>4, <1>5 DEF Fresh, NoPayout
      <3>2. UNCHANGED <<bank, run>> /\ run[w].step = "trigger_payout"
        BY Zenon, <1>2, <1>3
      <3> QED BY Zenon, <3>1, <3>2 DEF TxPayoutOK, Paid
    <2>4. TxEventOK(w)'
      BY Zenon, <1>2, <1>3, <1>5, <1>6 DEF WorkerOK, TxEventOK
    <2> QED BY Zenon, <2>1, <2>2, <2>3, <2>4 DEF WorkerOK
  <1>9. ASSUME NEW v \in Workers PROVE WorkerOK(v)'
    BY Zenon, <1>2, <1>8, WorkerFrame DEF IInv
  <1>10. ASSUME NEW v \in Workers, v # w, run[v].intent = i
         PROVE  tx[v].payout.state = "none" /\ tx[v].payout.id = None
    BY Zenon, <1>10 DEF UpsertPayout, PayoutHeld, IInv, WorkerOK, TxPayoutOK
  <1>11. SerializedSubmission'
    <2>1. SerializedSubmission /\ UNCHANGED run
      BY Zenon, <1>2 DEF IInv
    <2>2. \A v \in Workers : v # w => tx'[v] = tx[v]
      BY Zenon, <1>2
    <2>3. \A v \in Workers : v # w /\ run[v].intent = i => tx[v].payout.state = "none"
      BY Zenon, <1>10
    <2> QED BY <2>1, <2>2, <2>3 DEF SerializedSubmission
  <1>12. \A v \in Workers : v # w => tx[v].payout.id # x.id
    <2>1. CASE Fresh(x.id)
      BY Zenon, <2>1 DEF Fresh
    <2>2. CASE x = payout[i] /\ payout[i].state = "succeeded"
      <3>1. x.id \in Keys /\ x.id = payout[i].id /\ i \in Intents
        BY <1>3, <1>4, <2>2 DEF NoPayout
      <3>2. \A v \in Workers : tx[v].payout.id = payout[i].id => run[v].intent = i
        BY Zenon, <3>1 DEF IInv, KeysDistinct
      <3>3. \A v \in Workers : v # w /\ run[v].intent = i => tx[v].payout.id = None
        BY Zenon, <1>10
      <3> QED BY Zenon, <3>1, <3>2, <3>3
    <2> QED BY Zenon, <1>5, <2>1, <2>2
  <1>13. \A j \in Intents : payout[j].id # None /\ x.id = payout[j].id => j = i
    <2>1. CASE Fresh(x.id)
      BY Zenon, <2>1 DEF Fresh
    <2>2. CASE x = payout[i] /\ payout[i].state = "succeeded"
      <3> SUFFICES ASSUME NEW j \in Intents, payout[j].id # None, x.id = payout[j].id PROVE j = i
        BY Zenon
      <3>1. bank[x.id] = Paid(j)
        BY DEF IInv, IntentOK, NoPayout
      <3>2. bank[x.id] = Paid(i)
        BY <1>4, <2>2, <3>1 DEF NoPayout
      <3> QED BY <3>1, <3>2 DEF Paid
    <2> QED BY Zenon, <1>5, <2>1, <2>2
  <1>14. KeysDistinct'
    BY <1>2, <1>12, <1>13 DEF IInv, KeysDistinct
  <1>15. BankOK'
    BY Zenon, <1>2, BankFrame DEF IInv
  <1> QED BY Zenon, <1>1, <1>7, <1>9, <1>11, <1>14, <1>15 DEF IInv

\* The rail call keeps it, answered or not: the id is new to the bank, and
\* only its own worker holds it.
LEMMA InvSubmit ==
  ASSUME IInv, NEW w \in Workers, (\E v \in Verdicts : SubmitPayout(w, v)) \/ SubmitUnanswered(w)
  PROVE  IInv'
  <1> DEFINE i == run[w].intent
  <1> DEFINE k == tx[w].payout.id
  <1>1. TypeOK'
    BY Zenon, TypePayout DEF IInv, WorkerOK
  <1>2. /\ UNCHANGED <<saga, intent, payout, journal, outbox, run>> /\ Grows
        /\ \A v \in Workers : v # w => tx'[v] = tx[v] /\ pc'[v] = pc[v]
    BY Zenon DEF SubmitPayout, SubmitUnanswered, Rollback, db, Grows, IInv, TypeOK
  <1>3. /\ WorkerOK(w) /\ pc[w] = "submit" /\ tx[w] \in Tx /\ tx[w].payout \in PayoutRow /\ i \in Intents
        /\ run[w].step = "trigger_payout" /\ tx[w].payout.state = "pending"
        /\ k \in Keys /\ bank[k].verdict = "none" /\ "credit_deposit" \in journal[i]
        /\ tx \in [Workers -> Tx] /\ pc \in [Workers -> PCs] /\ bank \in [Keys -> BankRow]
    BY DEF SubmitPayout, SubmitUnanswered, IInv, TypeOK, WorkerOK, RunOK, TxPayoutOK, Tx, PayoutRow,
           Prerequisites
  <1>4. /\ \A l \in Keys : l # k => bank'[l] = bank[l]
        /\ bank'[k].verdict = "paid" => bank'[k] = Paid(i)
    <2>1. ASSUME NEW v \in Verdicts, BankHandles(w, v)
          PROVE  /\ \A l \in Keys : l # k => bank'[l] = bank[l]
                 /\ bank'[k].verdict = "paid" => bank'[k] = Paid(i)
      <3>1. bank' = [bank EXCEPT ![k] = [intent |-> i, verdict |-> v]]
        BY Zenon, <1>3, <2>1 DEF BankHandles
      <3> QED BY Zenon, <1>3, <3>1 DEF Paid
    <2>2. bank' = bank \/ \E v \in Verdicts : BankHandles(w, v)
      BY Zenon DEF SubmitPayout, SubmitUnanswered
    <2> QED BY Zenon, <1>3, <2>1, <2>2
  <1>5. ASSUME NEW j \in Intents PROVE IntentOK(j)'
    <2>1. IntentOK(j) /\ (payout[j].id \in Keys => payout[j].id # k)
      <3>1. IntentOK(j)
        BY Zenon DEF IInv
      <3>2. payout[j].id \in Keys => bank[payout[j].id].verdict = "paid"
        BY <3>1 DEF IntentOK, Paid, NoPayout
      <3> QED BY Zenon, <1>3, <3>1, <3>2
    <2> QED BY Zenon, <1>2, <1>4, <2>1, IntentFrame
  <1>6. \/ tx'[w] = EmptyTx /\ pc'[w] = "retry"
        \/ /\ tx'[w] = [tx[w] EXCEPT !.payout = [tx[w].payout EXCEPT !.state = "succeeded"]]
           /\ pc'[w] = "intent" /\ bank'[k] = Paid(i)
        \/ /\ tx'[w] = [tx[w] EXCEPT !.payout = [tx[w].payout EXCEPT !.state = "failed"]]
           /\ pc'[w] = "reject"
    <2>1. CASE SubmitUnanswered(w)
      BY Zenon, <1>3, <2>1 DEF SubmitUnanswered, Rollback
    <2>2. ASSUME NEW v \in Verdicts, SubmitPayout(w, v) PROVE <1>6!:
      <3>1. v \in {"paid", "rejected", "unavailable"} /\ bank'[k] = [intent |-> i, verdict |-> v]
        BY Zenon, <1>3, <2>2 DEF SubmitPayout, BankHandles, Decides, Verdicts
      <3> QED BY Zenon, <1>3, <2>2, <3>1 DEF SubmitPayout, Outcome, Rollback, Paid
    <2> QED BY Zenon, <2>1, <2>2
  <1>7. WorkerOK(w)'
    <2>1. CASE tx'[w] = EmptyTx /\ pc'[w] = "retry"
      BY Zenon, <1>2, <1>3, <2>1, RolledBack DEF IInv
    <2>2. CASE ~(tx'[w] = EmptyTx /\ pc'[w] = "retry")
      <3>1. /\ tx'[w].payout.id = k /\ tx'[w].payout.state \in {"succeeded", "failed"}
            /\ tx'[w].entries = tx[w].entries /\ tx'[w].event = tx[w].event
            /\ \/ pc'[w] = "reject"
               \/ pc'[w] = "intent" /\ tx'[w].payout.state = "succeeded" /\ bank'[k] = Paid(i)
        BY <1>3, <1>6, <2>2 DEF Tx, PayoutRow
      <3>2. RunOK(w)'
        BY Zenon, <1>2, <1>3, <3>1 DEF WorkerOK, RunOK, Prerequisites
      <3>3. EntriesOK(w)' /\ TxEventOK(w)'
        BY Zenon, <1>2, <1>3, <3>1 DEF WorkerOK, EntriesOK, TxEventOK
      <3>4. TxPayoutOK(w)'
        BY Zenon, <1>2, <1>3, <3>1 DEF TxPayoutOK, Paid
      <3> QED BY Zenon, <3>2, <3>3, <3>4 DEF WorkerOK
    <2> QED BY Zenon, <2>1, <2>2
  <1>8. ASSUME NEW v \in Workers PROVE WorkerOK(v)'
    <2>1. CASE v # w
      <3>1. tx[v].payout.id # None => tx[v].payout.id \in Keys /\ tx[v].payout.id # k
        BY Zenon, <2>1 DEF IInv, KeysDistinct, TypeOK, Tx, PayoutRow
      <3> QED BY Zenon, <1>2, <1>4, <2>1, <3>1, WorkerFrame DEF IInv
    <2> QED BY Zenon, <1>7, <2>1
  <1>9. SerializedSubmission' /\ KeysDistinct'
    <2>1. tx'[w].payout = NoPayout \/ (tx'[w].payout.id = k /\ tx[w].payout.state # "none")
      BY <1>3, <1>6 DEF Tx, PayoutRow, EmptyTx
    <2> QED BY Zenon, <1>2, <2>1, KeysFrame DEF IInv
  <1>10. BankOK'
    <2>1. BankOK /\ UNCHANGED journal
      BY Zenon, <1>2 DEF IInv
    <2>2. i \in Intents /\ "credit_deposit" \in journal[i]
      BY Zenon, <1>3
    <2> QED BY <1>4, <2>1, <2>2 DEF BankOK, Paid
  <1> QED BY Zenon, <1>1, <1>5, <1>8, <1>9, <1>10 DEF IInv

\* A commit keeps it, acknowledged or not: what the transaction holds at that
\* point is exactly what the next step requires.
LEMMA InvCommit ==
  ASSUME IInv, NEW w \in Workers, Commit(w) \/ CommitUnacknowledged(w)
  PROVE  IInv'
  <1> DEFINE i == run[w].intent
  <1>1. TypeOK'
    BY Zenon, TypeEnd DEF IInv, WorkerOK
  <1>2. /\ Apply(w) /\ UNCHANGED <<bank, run>> /\ pc[w] = "commit"
        /\ tx'[w] = EmptyTx /\ pc'[w] \in {"idle", "retry"}
        /\ \A v \in Workers : v # w => tx'[v] = tx[v] /\ pc'[v] = pc[v]
    BY DEF Commit, CommitUnacknowledged, Rollback, IInv, TypeOK
  <1>3. /\ WorkerOK(w) /\ i \in Intents /\ IntentOK(i) /\ Prerequisites(run[w].step, i)
        /\ run[w].step \in Steps /\ tx[w] \in Tx /\ tx[w].payout \in PayoutRow
    BY Zenon, <1>2 DEF IInv, TypeOK, WorkerOK, RunOK, Run, Tx
  <1>4. /\ run[w].step = "trigger_payout" => /\ tx[w].payout.state = "succeeded"
                                             /\ tx[w].payout.id \in Keys
                                             /\ bank[tx[w].payout.id] = Paid(i)
        /\ run[w].step # "trigger_payout" => tx[w].payout.state = "none"
    BY SMTT(30), <1>2, <1>3 DEF WorkerOK, TxPayoutOK, PayoutRow
  <1>5. /\ journal'[i] = journal[i] \cup tx[w].entries
        /\ payout'[i] = IF run[w].step = "trigger_payout" THEN tx[w].payout ELSE payout[i]
        /\ \A j \in Intents : j # i => /\ journal'[j] = journal[j] /\ payout'[j] = payout[j]
                                       /\ saga'[j] = saga[j] /\ outbox'[j] = outbox[j]
    BY SMTT(30), <1>2, <1>3, <1>4 DEF Apply, IInv, TypeOK
  <1>6. Grows
    BY Zenon, <1>3, <1>4, <1>5 DEF Grows
  <1>7. IntentOK(i)'
    <2>1. CASE run[w].step = "emit_completed"
      <3>1. saga'[i] = [saga[i] EXCEPT !.state = "completed", !.lease = "none"]
        BY ZenonT(40), <1>2, <1>3, <2>1 DEF Apply, SagaAfter, IInv, TypeOK
      <3>2. saga'[i].step = saga[i].step
        BY <1>3, <3>1 DEF IInv, TypeOK, SagaRow
      <3>3. outbox'[i] # <<>>
        <4>1. tx[w].event # "none" /\ outbox[i] \in Seq(IntentStates) /\ tx[w].event \in IntentStates
          BY Zenon, <1>2, <1>3, <2>1 DEF WorkerOK, TxEventOK, IInv, TypeOK, Tx
        <4>2. outbox'[i] = Append(outbox[i], tx[w].event)
          BY Zenon, <1>2, <1>3, <4>1 DEF Apply, IInv, TypeOK
        <4> QED BY <4>1, <4>2
      <3>4. tx[w].entries = {}
        BY SMTT(30), <1>3, <2>1 DEF WorkerOK, EntriesOK
      <3>5. Prerequisites(saga[i].step, i)'
        BY Zenon, <1>2, <1>3, <1>6, <3>2 DEF IntentOK, Prerequisites, Grows
      <3> QED BY Zenon, <1>2, <1>3, <1>5, <2>1, <3>3, <3>4, <3>5
              DEF IntentOK, Prerequisites, Paid, Legs, NoPayout
    <2>2. CASE run[w].step # "emit_completed"
      <3>1. saga'[i].step = NextStep(run[w].step) /\ saga'[i].state = "pending"
        <4>1. SagaAfter(w).step = NextStep(run[w].step) /\ SagaAfter(w).state = "pending"
          BY Zenon, <2>2 DEF SagaAfter
        <4> QED BY Zenon, <1>2, <1>3, <4>1 DEF Apply, IInv, TypeOK
      <3>2. outbox'[i] = outbox[i]
        BY Zenon, <1>2, <1>3, <2>2 DEF Apply, WorkerOK, TxEventOK
      <3>3. CASE run[w].step = "credit_deposit"
        <4>1. "credit_deposit" \in journal'[i] /\ tx[w].entries \subseteq {"credit_deposit"}
          BY Zenon, <1>2, <1>3, <1>5, <3>3 DEF WorkerOK, EntriesOK, Entries
        <4> QED BY Zenon, <1>2, <1>3, <1>5, <3>1, <3>2, <3>3, <4>1
                DEF IntentOK, Prerequisites, Paid, Legs, NoPayout, NextStep
      <3>4. CASE run[w].step = "trigger_payout"
        <4>1. tx[w].entries = {}
          BY Zenon, <1>3, <3>4 DEF WorkerOK, EntriesOK
        <4> QED BY Zenon, <1>2, <1>3, <1>4, <1>5, <3>1, <3>2, <3>4, <4>1
                DEF IntentOK, Prerequisites, Paid, Legs, NoPayout, NextStep
      <3>5. CASE run[w].step = "apply_payout_result"
        <4>1. Legs \subseteq journal'[i]
          BY Zenon, <1>2, <1>3, <1>5, <3>5 DEF WorkerOK, EntriesOK, Entries
        <4> QED BY Zenon, <1>2, <1>3, <1>5, <3>1, <3>2, <3>5, <4>1
                DEF IntentOK, Prerequisites, Paid, Legs, NoPayout, NextStep
      <3> QED BY SMTT(30), <1>3, <2>2, <3>3, <3>4, <3>5 DEF Steps
    <2> QED BY SMTT(30), <2>1, <2>2
  <1>8. ASSUME NEW j \in Intents PROVE IntentOK(j)'
    BY Zenon, <1>2, <1>5, <1>7, IntentFrame DEF IInv
  <1>9. ASSUME NEW v \in Workers PROVE WorkerOK(v)'
    <2>1. CASE v = w
      BY Zenon, <1>2, <1>3, <1>6, <2>1, RolledBack DEF IInv
    <2>2. CASE v # w
      BY SMTT(30), <1>2, <1>6, <2>2, WorkerFrame DEF IInv
    <2> QED BY Zenon, <2>1, <2>2
  <1>10. SerializedSubmission'
    BY <1>2 DEF IInv, SerializedSubmission, EmptyTx, NoPayout
  <1>11. KeysDistinct'
    <2>1. KeysDistinct /\ UNCHANGED run /\ tx'[w].payout.id = None
      BY <1>2 DEF IInv, EmptyTx, NoPayout
    <2>2. \A v \in Workers : v # w => tx'[v] = tx[v]
      BY Zenon, <1>2
    <2>3. \A j \in Intents : payout'[j] = payout[j] \/ (j = i /\ payout'[j] = tx[w].payout)
      BY Zenon, <1>5
    <2> QED BY SMTT(30), <2>1, <2>2, <2>3 DEF KeysDistinct
  <1>12. BankOK'
    BY Zenon, <1>2, <1>6, BankFrame DEF IInv
  <1> QED BY Zenon, <1>1, <1>8, <1>9, <1>10, <1>11, <1>12 DEF IInv

=============================================================================
