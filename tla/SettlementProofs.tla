-------------------------- MODULE SettlementProofs --------------------------
(***************************************************************************)
(* Theorems about Settlement for every set of intents, workers and keys and*)
(* every fault budget: the inductive invariant IInv, the safety properties *)
(* that follow from it, at most one payment while every call is answered,  *)
(* and that Settlement implements SettlementPromise.                       *)
(***************************************************************************)
EXTENDS SettlementSteps

USE SettlementAssumption

\* Every step keeps it.
LEMMA InvNext == IInv /\ [Next]_vars => IInv'
  <1> SUFFICES ASSUME IInv, [Next]_vars PROVE IInv'
    BY Zenon
  <1>1. ASSUME NEW i \in Intents, EnqueueSagaRun(i) \/ BackoffElapses(i) \/ LeaseExpires(i)
        PROVE  IInv'
    BY Zenon, <1>1, InvRunner
  <1>2. ASSUME NEW w \in Workers, Advance(w) PROVE IInv'
    BY Zenon, <1>2, InvRunner, InvLoad, InvPost, InvUpsert, InvSubmit, InvUpdateIntent, InvCommit, InvFailure
       DEF Advance
  <1>3. ASSUME NEW w \in Workers, Fault(w) PROVE IInv'
    BY Zenon, <1>3, InvSubmit, InvCommit, InvFailure DEF Fault
  <1>4. CASE UNCHANGED vars
    <2> USE <1>4 DEF vars, db, worker, faults
    <2>1. TypeOK'
      BY Zenon DEF IInv, TypeOK
    <2>2. Grows
      BY Zenon DEF Grows
    <2>3. ASSUME NEW i \in Intents PROVE IntentOK(i)'
      BY Zenon, IntentFrame DEF IInv
    <2>4. ASSUME NEW w \in Workers PROVE WorkerOK(w)'
      BY Zenon, <2>2, WorkerFrame DEF IInv
    <2>5. SerializedSubmission' /\ KeysDistinct'
      BY Zenon, KeysFrame DEF IInv
    <2>6. BankOK'
      BY Zenon, <2>2, BankFrame DEF IInv
    <2> QED BY Zenon, <2>1, <2>3, <2>4, <2>5, <2>6 DEF IInv
  <1> QED BY Zenon, <1>1, <1>2, <1>3, <1>4 DEF Next

-----------------------------------------------------------------------------
(* What the invariant gives.                                               *)

\* Whatever workers, crashes, lost replies and expired leases do, every
\* reachable state satisfies IInv.
THEOREM Invariance == Spec => []IInv
  <1>1. Init => IInv
    BY Zenon, InvInit
  <1>2. IInv /\ [Next]_vars => IInv'
    BY Zenon, InvNext
  <1> QED BY <1>1, <1>2, PTL DEF Spec

\* Rows, journal, bank and worker state keep their types.
THEOREM TypeCorrect == Spec => []TypeOK
  <1>1. IInv => TypeOK
    BY Zenon DEF IInv
  <1> QED BY <1>1, Invariance, PTL

\* A saga row or a worker stands at a step only when everything the steps
\* before it promise has been committed.
THEOREM StepsFollowEffectsHolds == Spec => []StepsFollowEffects
  <1>1. IInv => StepsFollowEffects
    BY Zenon DEF IInv, IntentOK, WorkerOK, RunOK, StepsFollowEffects
  <1> QED BY <1>1, Invariance, PTL

\* The bank never pays a merchant whose deposit is not credited.
THEOREM DisbursedOnlyIfCreditedHolds == Spec => []DisbursedOnlyIfCredited
  <1>1. IInv => DisbursedOnlyIfCredited
    BY Zenon DEF IInv, BankOK, DisbursedOnlyIfCredited
  <1> QED BY <1>1, Invariance, PTL

\* Both legs of a payout are booked or neither, and only for a payout the
\* bank executed under the id of the payouts row.
THEOREM BooksMatchBankHolds == Spec => []BooksMatchBank
  <1>1. IInv => BooksMatchBank
    <2> SUFFICES ASSUME IInv, NEW i \in Intents
                 PROVE  /\ "payout_disbursed" \in journal[i] <=> "fx_swap_usdc" \in journal[i]
                        /\ payout[i].state = "succeeded" =>
                             bank[payout[i].id] = [intent |-> i, verdict |-> "paid"]
                        /\ "payout_disbursed" \in journal[i] => payout[i].state = "succeeded"
      BY Zenon DEF BooksMatchBank
    <2>1. IntentOK(i)
      BY Zenon DEF IInv
    <2>2. "payout_disbursed" \in journal[i] <=> "fx_swap_usdc" \in journal[i]
      BY Zenon, <2>1 DEF IntentOK, Legs
    <2>3. payout[i].state = "succeeded" => bank[payout[i].id] = [intent |-> i, verdict |-> "paid"]
      BY <2>1 DEF IntentOK, Paid, NoPayout
    <2>4. "payout_disbursed" \in journal[i] => payout[i].state = "succeeded"
      BY Zenon, <2>1 DEF IntentOK, Legs
    <2> QED BY Zenon, <2>2, <2>3, <2>4
  <1> QED BY <1>1, Invariance, PTL

\* The merchant is told only of a booked settlement, and a completed saga has
\* left its event in the outbox.
THEOREM AnnouncedOnlyIfBookedHolds == Spec => []AnnouncedOnlyIfBooked
  <1>1. IInv => AnnouncedOnlyIfBooked
    BY Zenon DEF IInv, IntentOK, AnnouncedOnlyIfBooked, Legs
  <1> QED BY <1>1, Invariance, PTL

\* Two workers never hold a payout row of one intent at once.
THEOREM SerializedSubmissionHolds == Spec => []SerializedSubmission
  <1>1. IInv => SerializedSubmission
    BY Zenon DEF IInv
  <1> QED BY <1>1, Invariance, PTL

\* The payouts row commits with the step or not at all, so no committed row is
\* other than a success: an attempt that was rejected, unanswered or broken off
\* leaves no row, and no id, for the next one to find.
THEOREM OnlySucceededPayoutsCommitHolds == Spec => []OnlySucceededPayoutsCommit
  <1>1. IInv => OnlySucceededPayoutsCommit
    <2> SUFFICES ASSUME IInv, NEW i \in Intents PROVE payout[i].state \in {"none", "succeeded"}
      BY Zenon DEF OnlySucceededPayoutsCommit
    <2>1. payout[i] = NoPayout \/ payout[i].state = "succeeded"
      BY Zenon DEF IInv, IntentOK
    <2> QED BY <2>1 DEF NoPayout
  <1> QED BY <1>1, Invariance, PTL

-----------------------------------------------------------------------------
(* One disbursement.  Only a rail call adds a payment and only a commit    *)
(* changes the payouts rows; every other step keeps its hands off both.    *)

\* What a step that is neither does to a worker: nothing OnceInv sees, or it
\* takes or drops a payouts row before or instead of the rail call.
Keeps(v) ==
  /\ run'[v].intent = run[v].intent /\ tx'[v].payout.id = tx[v].payout.id
  /\ pc[v] \in PastCall => pc'[v] \in PastCall

Opens(v) ==
  /\ \/ tx'[v].payout.id = None
     \/ run'[v].intent = run[v].intent /\ payout[run[v].intent].id \in {None, tx'[v].payout.id}
  /\ lost' = 0 /\ crashes' = 0 => pc[v] \notin PastCall

LEMMA OnceFrame ==
  ASSUME OnceInv, UNCHANGED <<bank, payout>>,
         lost' = 0 /\ crashes' = 0 => lost = 0 /\ crashes = 0,
         \A v \in Workers : Keeps(v) \/ Opens(v)
  PROVE  OnceInv'
  <1>1. ASSUME lost' = 0, crashes' = 0, NEW k \in Keys, bank'[k].verdict = "paid"
        PROVE  Tracked(k)'
    <2>1. Tracked(k)
      BY Zenon, <1>1 DEF OnceInv
    <2>2. ASSUME NEW w \in Workers,
                 run[w].intent = bank[k].intent, tx[w].payout.id = k, pc[w] \in PastCall
          PROVE  Tracked(k)'
      <3>1. Keeps(w)
        BY Zenon, <1>1, <2>2 DEF Opens
      <3> QED BY Zenon, <2>2, <3>1 DEF Keeps, Tracked
    <2> QED BY Zenon, <2>1, <2>2 DEF Tracked
  <1>2. ASSUME NEW w \in Workers, tx'[w].payout.id # None, payout'[run'[w].intent].id # None
        PROVE  tx'[w].payout.id = payout'[run'[w].intent].id
    <2>1. CASE Keeps(w)
      BY Zenon, <1>2, <2>1 DEF Keeps, OnceInv
    <2>2. CASE Opens(w)
      BY Zenon, <1>2, <2>2 DEF Opens
    <2> QED BY Zenon, <2>1, <2>2
  <1> QED BY Zenon, <1>1, <1>2 DEF OnceInv

\* Steps that leave the payouts part of every transaction alone.
LEMMA OnceQuiet ==
  ASSUME IInv, OnceInv, NEW w \in Workers,
         \/ \E i \in Intents : ClaimDueSagaRun(w, i)
         \/ Load(w) \/ LookupEntry(w) \/ UpdateIntent(w) \/ RecordFailure(w)
  PROVE  OnceInv'
  <1>1. /\ tx \in [Workers -> Tx] /\ pc \in [Workers -> PCs] /\ run \in [Workers -> Run]
        /\ pc[w] = "idle" => tx[w] = EmptyTx
    BY Zenon DEF IInv, TypeOK, WorkerOK, RunOK
  <1>2. UNCHANGED <<bank, payout, lost, crashes>>
    BY Zenon DEF ClaimDueSagaRun, Load, LookupEntry, UpdateIntent, RecordFailure, db, faults
  <1>3. ASSUME NEW v \in Workers, v # w PROVE Keeps(v)
    <2>1. run'[v] = run[v] /\ pc'[v] = pc[v]
      BY Zenon, <1>1, <1>3 DEF ClaimDueSagaRun, Load, LookupEntry, Posted, UpdateIntent, RecordFailure
    <2>2. tx'[v] = tx[v]
      <3>1. \/ tx' = tx
            \/ \E y : tx' = [tx EXCEPT ![w] = y]
            \/ \E p : tx' = [tx EXCEPT ![w].post = p]
        BY Zenon DEF ClaimDueSagaRun, Load, LookupEntry, UpdateIntent, RecordFailure
      <3> QED BY Zenon, <1>1, <1>3, <3>1
    <2> QED BY Zenon, <2>1, <2>2 DEF Keeps
  <1>4. CASE \E i \in Intents : ClaimDueSagaRun(w, i)
    <2>1. tx'[w] = EmptyTx /\ pc[w] = "idle"
      BY Zenon, <1>1, <1>4 DEF ClaimDueSagaRun
    <2>2. Opens(w)
      BY <2>1 DEF Opens, EmptyTx, NoPayout, PastCall
    <2> QED BY Zenon, <1>2, <1>3, <2>2, OnceFrame
  <1>5. CASE Load(w) \/ LookupEntry(w) \/ UpdateIntent(w) \/ RecordFailure(w)
    <2>1. run' = run /\ (pc[w] \in PastCall => pc'[w] \in PastCall)
      BY Zenon, <1>1, <1>5 DEF Load, LookupEntry, UpdateIntent, RecordFailure, PastCall, Failing
    <2>2. tx'[w].payout = tx[w].payout
      <3>1. \/ tx'[w] = tx[w]
            \/ \E p : tx'[w] = [tx[w] EXCEPT !.post = p]
            \/ \E s, e : tx'[w] = [tx[w] EXCEPT !.intent = s, !.event = e]
        <4>1. CASE Load(w)
          BY Zenon, <1>1, <4>1 DEF Load
        <4>2. CASE LookupEntry(w)
          BY Zenon, <1>1, <4>2 DEF LookupEntry
        <4>3. CASE UpdateIntent(w)
          BY Zenon, <1>1, <4>3 DEF UpdateIntent
        <4>4. CASE RecordFailure(w)
          BY Zenon, <1>1, <4>4 DEF RecordFailure
        <4> QED BY Zenon, <1>5, <4>1, <4>2, <4>3, <4>4
      <3> QED BY Zenon, <1>1, <3>1 DEF Tx
    <2>3. Keeps(w)
      BY Zenon, <2>1, <2>2 DEF Keeps
    <2> QED BY Zenon, <1>2, <1>3, <2>3, OnceFrame
  <1> QED BY Zenon, <1>4, <1>5

\* Steps that may roll a transaction back: before the rail call that loses
\* no payment, and afterwards only an error or a crash does it.
LEMMA OnceRollback ==
  ASSUME IInv, OnceInv, NEW w \in Workers,
         InsertEntry(w) \/ RejectPayout(w) \/ StepError(w) \/ Crash(w)
  PROVE  OnceInv'
  <1>1. /\ tx \in [Workers -> Tx] /\ pc \in [Workers -> PCs] /\ crashes \in Nat
    BY DEF IInv, TypeOK
  <1>2. /\ UNCHANGED <<bank, payout, run, lost>>
        /\ lost' = 0 /\ crashes' = 0 => lost = 0 /\ crashes = 0
    BY <1>1 DEF InsertEntry, RejectPayout, StepError, Crash, db, faults
  <1>3. ASSUME NEW v \in Workers, v # w PROVE Keeps(v)
    BY Zenon, <1>1, <1>2, <1>3 DEF InsertEntry, Posted, RejectPayout, StepError, Crash, Rollback, Keeps
  <1>4. crashes' = 0 => pc[w] \notin PastCall
    <2>1. CASE InsertEntry(w) \/ RejectPayout(w)
      BY Zenon, <2>1 DEF InsertEntry, RejectPayout, PastCall
    <2>2. CASE StepError(w) \/ Crash(w)
      BY <1>1, <2>2 DEF StepError, Crash
    <2> QED BY Zenon, <2>1, <2>2
  <1>5. tx'[w] = EmptyTx \/ (tx'[w].payout = tx[w].payout /\ pc[w] = "insert")
    <2>1. CASE InsertEntry(w)
      <3>1. /\ pc[w] = "insert"
            /\ \/ tx'[w] = EmptyTx
               \/ \E e, p : tx'[w] = [tx[w] EXCEPT !.entries = e, !.post = p]
        BY ZenonT(40), <1>1, <2>1 DEF InsertEntry, Rollback
      <3> QED BY ZenonT(40), <1>1, <3>1 DEF Tx
    <2>2. CASE RejectPayout(w) \/ StepError(w) \/ Crash(w)
      BY Zenon, <1>1, <2>2 DEF RejectPayout, StepError, Crash, Rollback
    <2> QED BY ZenonT(40), <2>1, <2>2
  <1>6. Keeps(w) \/ Opens(w)
    BY <1>2, <1>4, <1>5 DEF Keeps, Opens, EmptyTx, NoPayout, PastCall
  <1> QED BY Zenon, <1>2, <1>3, <1>6, OnceFrame

\* The payouts row is the committed one, or new because there is none.
LEMMA OnceUpsert ==
  ASSUME IInv, OnceInv, NEW w \in Workers, UpsertPayout(w)
  PROVE  OnceInv'
  <1> DEFINE i == run[w].intent
  <1>1. /\ tx \in [Workers -> Tx] /\ pc \in [Workers -> PCs] /\ pc[w] = "upsert" /\ i \in Intents
    BY Zenon DEF IInv, TypeOK, WorkerOK, RunOK, UpsertPayout
  <1>2. UNCHANGED <<bank, payout, run, lost, crashes>>
    BY Zenon DEF UpsertPayout, db, faults
  <1>3. ASSUME NEW v \in Workers, v # w PROVE Keeps(v)
    BY Zenon, <1>1, <1>2, <1>3 DEF UpsertPayout, Rollback, Keeps
  <1>4. payout[i] = NoPayout \/ payout[i].state = "succeeded"
    BY Zenon, <1>1 DEF IInv, IntentOK
  <1>5. payout[i].id \in {None, tx'[w].payout.id}
    <2>1. CASE payout[i] = NoPayout
      BY <2>1 DEF NoPayout
    <2>2. CASE payout[i].state = "succeeded"
      <3>1. tx'[w] = [tx[w] EXCEPT !.payout = payout[i]]
        BY Zenon, <1>1, <2>2 DEF UpsertPayout
      <3> QED BY <1>1, <3>1 DEF Tx
    <2> QED BY Zenon, <1>4, <2>1, <2>2
  <1>6. Opens(w)
    BY Zenon, <1>1, <1>2, <1>5 DEF Opens, PastCall
  <1> QED BY Zenon, <1>2, <1>3, <1>6, OnceFrame

\* An answered call that pays leaves its worker past the call with the id.
LEMMA OnceSubmit ==
  ASSUME IInv, OnceInv, NEW w \in Workers, NEW r \in Verdicts, SubmitPayout(w, r)
  PROVE  OnceInv'
  <1> DEFINE i == run[w].intent
  <1> DEFINE k == tx[w].payout.id
  <1>1. /\ tx \in [Workers -> Tx] /\ pc \in [Workers -> PCs] /\ bank \in [Keys -> BankRow]
        /\ pc[w] = "submit" /\ k \in Keys /\ bank[k].verdict = "none"
    BY Zenon DEF SubmitPayout, IInv, TypeOK, WorkerOK, TxPayoutOK, Tx, PayoutRow
  <1>2. /\ UNCHANGED <<payout, run, lost, crashes>>
        /\ \A v \in Workers : v # w => tx'[v] = tx[v] /\ pc'[v] = pc[v]
    BY Zenon, <1>1 DEF SubmitPayout, Rollback, db, faults
  <1>3. bank' = [bank EXCEPT ![k] = [intent |-> i, verdict |-> r]]
    BY Zenon, <1>1 DEF SubmitPayout, BankHandles
  <1>4. /\ tx'[w].payout.id \in {None, k}
        /\ r = "paid" => tx'[w].payout.id = k /\ pc'[w] = "intent"
    <2>1. \/ tx'[w] = EmptyTx /\ r # "paid"
          \/ \E s \in {"succeeded", "failed"} :
               /\ tx'[w] = [tx[w] EXCEPT !.payout = [tx[w].payout EXCEPT !.state = s]]
               /\ r = "paid" => pc'[w] = "intent"
      BY Zenon, <1>1 DEF SubmitPayout, Rollback, Outcome
    <2> QED BY <1>1, <2>1 DEF Tx, PayoutRow, EmptyTx, NoPayout
  <1>5. ASSUME lost' = 0, crashes' = 0, NEW l \in Keys, bank'[l].verdict = "paid"
        PROVE  Tracked(l)'
    <2>1. CASE l = k
      BY Zenon, <1>1, <1>2, <1>3, <1>4, <1>5, <2>1 DEF Tracked, PastCall
    <2>2. CASE l # k
      <3>1. bank'[l] = bank[l] /\ Tracked(l)
        BY Zenon, <1>1, <1>2, <1>3, <1>5, <2>2 DEF OnceInv
      <3>2. ASSUME NEW v \in Workers,
                   run[v].intent = bank[l].intent, tx[v].payout.id = l, pc[v] \in PastCall
            PROVE  Tracked(l)'
        <4>1. v # w
          BY Zenon, <1>1, <3>2 DEF PastCall
        <4> QED BY Zenon, <1>2, <3>1, <3>2, <4>1 DEF Tracked
      <3> QED BY Zenon, <1>2, <3>1, <3>2 DEF Tracked
    <2> QED BY Zenon, <2>1, <2>2
  <1>6. ASSUME NEW v \in Workers, tx'[v].payout.id # None, payout'[run'[v].intent].id # None
        PROVE  tx'[v].payout.id = payout'[run'[v].intent].id
    <2>1. tx'[v].payout.id = tx[v].payout.id
      BY Zenon, <1>2, <1>4, <1>6
    <2> QED BY Zenon, <1>2, <1>6, <2>1 DEF OnceInv
  <1> QED BY Zenon, <1>5, <1>6 DEF OnceInv

\* A call without an answer ends the promise, not the agreement of the rows.
LEMMA OnceUnanswered ==
  ASSUME IInv, OnceInv, NEW w \in Workers, SubmitUnanswered(w)
  PROVE  OnceInv'
  <1>1. lost \in Nat /\ lost' = lost + 1 /\ tx \in [Workers -> Tx]
    BY DEF SubmitUnanswered, IInv, TypeOK
  <1>2. UNCHANGED <<payout, run>> /\ tx' = [tx EXCEPT ![w] = EmptyTx]
    BY Zenon DEF SubmitUnanswered, Rollback, db
  <1>3. ASSUME NEW v \in Workers PROVE tx'[v].payout.id \in {None, tx[v].payout.id}
    BY Zenon, <1>1, <1>2 DEF EmptyTx, NoPayout
  <1> QED BY <1>1, <1>2, <1>3 DEF OnceInv

\* A commit turns what a transaction tracks into the payouts row; nobody else
\* holds that row, and if it was there before it is the same.
LEMMA OnceCommit ==
  ASSUME IInv, OnceInv, NEW w \in Workers, Commit(w) \/ CommitUnacknowledged(w)
  PROVE  OnceInv'
  <1> DEFINE i == run[w].intent
  <1>1. /\ tx \in [Workers -> Tx] /\ pc \in [Workers -> PCs] /\ payout \in [Intents -> PayoutRow]
        /\ pc[w] = "commit" /\ i \in Intents
        /\ tx[w].payout.state = "none" <=> tx[w].payout.id = None
    BY Zenon DEF Commit, CommitUnacknowledged, IInv, TypeOK, WorkerOK, RunOK, TxPayoutOK
  <1>2. /\ UNCHANGED <<bank, run, lost, crashes>>
        /\ \A v \in Workers : v # w => tx'[v] = tx[v] /\ pc'[v] = pc[v]
        /\ tx'[w] = EmptyTx
    BY Zenon, <1>1 DEF Commit, CommitUnacknowledged, Rollback, faults
  <1>3. payout' = IF tx[w].payout.id = None THEN payout ELSE [payout EXCEPT ![i] = tx[w].payout]
    BY Zenon, <1>1 DEF Commit, CommitUnacknowledged, Apply
  <1>4. /\ \A j \in Intents : j # i => payout'[j] = payout[j]
        /\ tx[w].payout.id = None => payout' = payout
        /\ tx[w].payout.id # None => payout'[i].id = tx[w].payout.id
        /\ payout[i].id # None => payout'[i].id = payout[i].id
    BY Zenon, <1>1, <1>3 DEF OnceInv
  <1>5. ASSUME lost' = 0, crashes' = 0, NEW k \in Keys, bank'[k].verdict = "paid"
        PROVE  Tracked(k)'
    <2>1. Tracked(k) /\ bank[k].intent \in Intents /\ k # None /\ bank'[k].intent = bank[k].intent
      BY Zenon, <1>2, <1>5 DEF OnceInv, IInv, BankOK
    <2>2. CASE payout[bank[k].intent].id = k
      <3>1. payout'[bank[k].intent].id = k
        BY Zenon, <1>4, <2>1, <2>2
      <3> QED BY Zenon, <2>1, <3>1 DEF Tracked
    <2>3. ASSUME NEW v \in Workers,
                 run[v].intent = bank[k].intent, tx[v].payout.id = k, pc[v] \in PastCall
          PROVE  Tracked(k)'
      <3>1. CASE v = w
        <4>1. payout'[bank[k].intent].id = k
          BY Zenon, <1>4, <2>1, <2>3, <3>1
        <4> QED BY Zenon, <2>1, <4>1 DEF Tracked
      <3>2. CASE v # w
        BY Zenon, <1>2, <2>3, <3>2 DEF Tracked
      <3> QED BY Zenon, <3>1, <3>2
    <2> QED BY Zenon, <2>1, <2>2, <2>3 DEF Tracked
  <1>6. ASSUME NEW v \in Workers, tx'[v].payout.id # None, payout'[run'[v].intent].id # None
        PROVE  tx'[v].payout.id = payout'[run'[v].intent].id
    <2>1. v # w /\ tx'[v] = tx[v] /\ run'[v] = run[v]
      BY <1>2, <1>6 DEF EmptyTx, NoPayout
    <2>2. /\ run[v].intent \in Intents
          /\ tx[v].payout.state # "none"
      BY <1>6, <2>1 DEF IInv, WorkerOK, RunOK, TxPayoutOK, EmptyTx, NoPayout
    <2>3. run[v].intent = i => tx[w].payout.id = None
      BY Zenon, <1>1, <2>1, <2>2 DEF IInv, SerializedSubmission
    <2>4. payout'[run[v].intent] = payout[run[v].intent]
      BY Zenon, <1>4, <2>2, <2>3
    <2> QED BY Zenon, <1>6, <2>1, <2>4 DEF OnceInv
  <1> QED BY Zenon, <1>5, <1>6 DEF OnceInv

LEMMA OnceNext == IInv /\ OnceInv /\ [Next]_vars => OnceInv'
  <1> SUFFICES ASSUME IInv, OnceInv, [Next]_vars PROVE OnceInv'
    BY Zenon
  <1>1. ASSUME UNCHANGED <<payout, bank, worker, lost, crashes>> PROVE OnceInv'
    <2>1. ASSUME NEW v \in Workers PROVE Keeps(v)
      BY Zenon, <1>1 DEF Keeps, worker
    <2> QED BY Zenon, <1>1, <2>1, OnceFrame
  <1>2. ASSUME NEW i \in Intents, EnqueueSagaRun(i) \/ BackoffElapses(i) \/ LeaseExpires(i)
        PROVE  OnceInv'
    BY Zenon, <1>1, <1>2 DEF EnqueueSagaRun, BackoffElapses, LeaseExpires, faults
  <1>3. ASSUME NEW w \in Workers, Advance(w) PROVE OnceInv'
    BY Zenon, <1>3, OnceQuiet, OnceRollback, OnceUpsert, OnceSubmit, OnceCommit DEF Advance
  <1>4. ASSUME NEW w \in Workers, Fault(w) PROVE OnceInv'
    BY Zenon, <1>4, OnceRollback, OnceUnanswered, OnceCommit DEF Fault
  <1>5. CASE UNCHANGED vars
    BY Zenon, <1>1, <1>5 DEF vars, db, faults
  <1> QED BY Zenon, <1>2, <1>3, <1>4, <1>5 DEF Next

\* As long as the bank's replies arrive and no step breaks off, the bank pays
\* an intent at most once: a second worker of the saga, let in by an expired
\* lease or a commit in doubt, finds the first one's payouts row.
THEOREM PaidOnceIfAnsweredHolds == Spec => []PaidOnceIfAnswered
  <1>1. Init => OnceInv
    BY DEF Init, OnceInv, EmptyTx, NoPayout
  <1>2. IInv /\ OnceInv /\ [Next]_vars => OnceInv'
    BY Zenon, OnceNext
  <1>3. ASSUME IInv, OnceInv PROVE PaidOnceIfAnswered
    <2> SUFFICES ASSUME lost = 0, crashes = 0, NEW k \in Keys, NEW l \in Keys,
                        bank[k].verdict = "paid", bank[l].verdict = "paid",
                        bank[k].intent = bank[l].intent
                 PROVE  k = l
      BY Zenon DEF PaidOnceIfAnswered, AtMostOneDisbursement
    <2>1. Tracked(k) /\ Tracked(l) /\ k # None /\ l # None
      BY Zenon, <1>3 DEF OnceInv
    <2>2. ASSUME NEW v \in Workers, NEW w \in Workers,
                 run[v].intent = run[w].intent, tx[v].payout.id = k, tx[w].payout.id = l
          PROVE  k = l
      <3>1. tx[v].payout.state # "none" /\ tx[w].payout.state # "none"
        BY Zenon, <1>3, <2>1, <2>2 DEF IInv, WorkerOK, TxPayoutOK
      <3> QED BY Zenon, <1>3, <2>2, <3>1 DEF IInv, SerializedSubmission
    <2> QED BY <1>3, <2>1, <2>2 DEF OnceInv, Tracked
  <1> QED BY <1>1, <1>2, <1>3, Invariance, PTL DEF Spec

-----------------------------------------------------------------------------
(* The promise.  Only two kinds of step are visible to it: the bank's      *)
(* answer and a commit.                                                    *)

\* Before any saga is enqueued nothing has happened.
LEMMA PromiseInit == Init => P!Init
  BY DEF Init, P!Init, Credited, Disbursed, Confirmed, Booked, Announced, NoPayout

\* The promise does not see a step that leaves journal, payouts, outbox and
\* bank alone.
LEMMA PromiseStutter ==
  ASSUME UNCHANGED <<journal, payout, outbox, bank>>
  PROVE  UNCHANGED P!vars
  BY Zenon DEF P!vars, Credited, Disbursed, Confirmed, Booked, Announced

\* A rail call disburses the worker's intent, which is credited, or changes
\* nothing the promise sees.
LEMMA PromiseSubmit ==
  ASSUME IInv, NEW w \in Workers, (\E v \in Verdicts : SubmitPayout(w, v)) \/ SubmitUnanswered(w)
  PROVE  P!Next \/ UNCHANGED P!vars
  <1> DEFINE i == run[w].intent
  <1> DEFINE k == tx[w].payout.id
  <1>1. UNCHANGED <<journal, payout, outbox>>
    BY Zenon DEF SubmitPayout, SubmitUnanswered, db
  <1>2. /\ i \in Intents /\ k \in Keys /\ bank[k].verdict = "none" /\ "credit_deposit" \in journal[i]
        /\ bank \in [Keys -> BankRow]
    <2>1. pc[w] = "submit" /\ WorkerOK(w) /\ TypeOK
      BY Zenon DEF SubmitPayout, SubmitUnanswered, IInv
    <2> QED BY Zenon, <2>1 DEF TypeOK, WorkerOK, RunOK, TxPayoutOK, Tx, PayoutRow, Prerequisites
  <1>3. CASE bank' = bank
    BY Zenon, <1>1, <1>3, PromiseStutter
  <1>4. ASSUME NEW v \in Verdicts, BankHandles(w, v) PROVE P!Next \/ UNCHANGED P!vars
    <2>1. bank' = [bank EXCEPT ![k] = [intent |-> i, verdict |-> v]]
      BY Zenon, <1>2, <1>4 DEF BankHandles
    <2>2. UNCHANGED <<Credited, Confirmed, Booked, Announced>>
      BY Zenon, <1>1 DEF Credited, Confirmed, Booked, Announced
    <2>3. CASE v = "paid"
      <3>1. Disbursed' = Disbursed \cup {i}
        <4>1. ASSUME NEW j \in Intents PROVE j \in Disbursed' <=> j \in Disbursed \cup {i}
          BY <1>2, <2>1, <2>3 DEF Disbursed
        <4> QED BY Zenon, <1>2, <4>1 DEF Disbursed
      <3>2. i \in Credited
        BY Zenon, <1>2 DEF Credited
      <3> QED BY Zenon, <1>2, <2>2, <3>1, <3>2 DEF P!Next, P!Disburse
    <2>4. CASE v # "paid"
      <3>1. Disbursed' = Disbursed
        BY <1>2, <2>1, <2>4 DEF Disbursed
      <3> QED BY Zenon, <2>2, <3>1 DEF P!vars
    <2> QED BY Zenon, <2>3, <2>4
  <1> QED BY Zenon, <1>3, <1>4 DEF SubmitPayout, SubmitUnanswered

\* A commit credits, confirms, books or announces the worker's intent, as its
\* step says, and what the promise asks for first is already there.
LEMMA PromiseCommit ==
  ASSUME IInv, NEW w \in Workers, Commit(w) \/ CommitUnacknowledged(w)
  PROVE  P!Next \/ UNCHANGED P!vars
  <1> DEFINE i == run[w].intent
  <1>1. /\ Apply(w) /\ bank' = bank /\ pc[w] = "commit"
        /\ WorkerOK(w) /\ i \in Intents /\ Prerequisites(run[w].step, i) /\ run[w].step \in Steps
        /\ journal \in [Intents -> SUBSET EntryKinds] /\ payout \in [Intents -> PayoutRow]
        /\ outbox \in [Intents -> Seq(IntentStates)] /\ tx[w] \in Tx
    BY Zenon DEF Commit, CommitUnacknowledged, IInv, TypeOK, WorkerOK, RunOK, Run
  <1>2. /\ journal' = [journal EXCEPT ![i] = journal[i] \cup tx[w].entries]
        /\ payout' = IF tx[w].payout.state = "none" THEN payout ELSE [payout EXCEPT ![i] = tx[w].payout]
        /\ outbox' = IF tx[w].event = "none" THEN outbox
                     ELSE [outbox EXCEPT ![i] = Append(outbox[i], tx[w].event)]
    BY Zenon, <1>1 DEF Apply
  <1>3. Disbursed' = Disbursed
    BY Zenon, <1>1 DEF Disbursed
  <1>4. run[w].step # "emit_completed" => Announced' = Announced
    BY Zenon, <1>1, <1>2 DEF WorkerOK, TxEventOK, Announced
  <1>5. run[w].step # "trigger_payout" => Confirmed' = Confirmed
    BY Zenon, <1>1, <1>2 DEF WorkerOK, TxPayoutOK, Confirmed
  <1>6. run[w].step # "apply_payout_result" => Booked' = Booked
    <2>1. run[w].step # "apply_payout_result" => tx[w].entries \subseteq {"credit_deposit"}
      BY Zenon, <1>1 DEF WorkerOK, EntriesOK
    <2> QED BY Zenon, <1>1, <1>2, <2>1 DEF Booked
  <1>7. run[w].step # "credit_deposit" => Credited' = Credited
    BY Zenon, <1>1, <1>2 DEF Prerequisites, Credited
  <1>8. CASE run[w].step = "credit_deposit"
    <2>1. Credited' = Credited \cup {i}
      BY <1>1, <1>2, <1>8 DEF WorkerOK, EntriesOK, Entries, Credited
    <2> QED BY Zenon, <1>1, <1>3, <1>4, <1>5, <1>6, <1>8, <2>1 DEF P!Next, P!Credit
  <1>9. CASE run[w].step = "trigger_payout"
    <2>1. tx[w].payout.state = "succeeded" /\ tx[w].payout.id \in Keys
          /\ bank[tx[w].payout.id] = [intent |-> i, verdict |-> "paid"]
      BY Zenon, <1>1, <1>9 DEF WorkerOK, TxPayoutOK, Tx, PayoutRow, Paid
    <2>2. Confirmed' = Confirmed \cup {i}
      BY Zenon, <1>1, <1>2, <2>1 DEF Confirmed
    <2>3. i \in Disbursed
      BY Zenon, <1>1, <2>1 DEF Disbursed
    <2> QED BY Zenon, <1>1, <1>3, <1>4, <1>6, <1>7, <1>9, <2>2, <2>3 DEF P!Next, P!Confirm
  <1>10. CASE run[w].step = "apply_payout_result"
    <2>1. Booked' = Booked \cup {i}
      BY ZenonT(40), <1>1, <1>2, <1>10 DEF WorkerOK, EntriesOK, Entries, Booked, Legs
    <2>2. i \in Confirmed
      BY Zenon, <1>1, <1>10 DEF Prerequisites, Confirmed
    <2> QED BY Zenon, <1>1, <1>3, <1>4, <1>5, <1>7, <1>10, <2>1, <2>2 DEF P!Next, P!Book
  <1>11. CASE run[w].step = "emit_completed"
    <2>1. Announced' = Announced \cup {i}
      <3>1. tx[w].event # "none" /\ tx[w].event \in IntentStates /\ outbox[i] \in Seq(IntentStates)
        BY Zenon, <1>1, <1>11 DEF WorkerOK, TxEventOK, Tx
      <3>2. Append(outbox[i], tx[w].event) # <<>>
        BY <3>1
      <3> QED BY Zenon, <1>1, <1>2, <3>1, <3>2 DEF Announced
    <2>2. i \in Booked
      BY Zenon, <1>1, <1>11 DEF Prerequisites, Booked
    <2> QED BY Zenon, <1>1, <1>3, <1>5, <1>6, <1>7, <1>11, <2>1, <2>2 DEF P!Next, P!Announce
  <1> QED BY Zenon, <1>1, <1>8, <1>9, <1>10, <1>11 DEF Steps

\* Every step of settlement is a step of the promise or invisible to it.
LEMMA PromiseNext == IInv /\ [Next]_vars => [P!Next]_(P!vars)
  <1> SUFFICES ASSUME IInv, [Next]_vars PROVE P!Next \/ UNCHANGED P!vars
    BY Zenon
  <1>1. ASSUME NEW i \in Intents, EnqueueSagaRun(i) \/ BackoffElapses(i) \/ LeaseExpires(i)
        PROVE  UNCHANGED P!vars
    BY Zenon, <1>1, PromiseStutter DEF EnqueueSagaRun, BackoffElapses, LeaseExpires
  <1>2. ASSUME NEW w \in Workers, Advance(w) \/ Fault(w) PROVE P!Next \/ UNCHANGED P!vars
    <2>1. CASE (\E v \in Verdicts : SubmitPayout(w, v)) \/ SubmitUnanswered(w)
      BY Zenon, <2>1, PromiseSubmit
    <2>2. CASE Commit(w) \/ CommitUnacknowledged(w)
      BY Zenon, <2>2, PromiseCommit
    <2>3. CASE \/ \E i \in Intents : ClaimDueSagaRun(w, i)
               \/ Load(w) \/ LookupEntry(w) \/ InsertEntry(w) \/ UpsertPayout(w) \/ RejectPayout(w)
               \/ UpdateIntent(w) \/ RecordFailure(w) \/ StepError(w) \/ Crash(w)
      <3>1. UNCHANGED <<journal, payout, outbox, bank>>
        BY Zenon, <2>3 DEF ClaimDueSagaRun, Load, LookupEntry, InsertEntry, UpsertPayout, RejectPayout,
                    UpdateIntent, RecordFailure, StepError, Crash, db
      <3> QED BY SMTT(30), <3>1, PromiseStutter
    <2> QED BY Zenon, <1>2, <2>1, <2>2, <2>3 DEF Advance, Fault
  <1>3. CASE UNCHANGED vars
    BY Zenon, <1>3, PromiseStutter DEF vars, db
  <1> QED BY Zenon, <1>1, <1>2, <1>3 DEF Next

\* Settlement implements its promise: credit, disbursement, confirmation,
\* booking and announcement of an intent come in that order, and none is
\* undone, under crashes, lost replies and workers whose lease ran out.
THEOREM Refinement == Spec => KeepsPromise
  <1>1. Init => P!Init
    BY Zenon, PromiseInit
  <1>2. IInv /\ [Next]_vars => [P!Next]_(P!vars)
    BY Zenon, PromiseNext
  <1> QED BY <1>1, <1>2, Invariance, PTL DEF Spec, KeepsPromise, P!Spec

=============================================================================
