-------------------------- MODULE SettlementLeases --------------------------
(***************************************************************************)
(* Locks and leases of Settlement, for every set of intents, workers and   *)
(* keys and every fault budget: row locks close no cycle, no entry is      *)
(* inserted twice, the lease alone keeps a second worker away, and intents *)
(* walk their state machine as long as no lease ran out under its worker   *)
(* and every commit was acknowledged.                                      *)
(***************************************************************************)
EXTENDS SettlementProofs

USE SettlementAssumption

-----------------------------------------------------------------------------
(* Locks.                                                                  *)

\* A worker that does not move keeps what it holds.
LEMMA LockFrame ==
  ASSUME NEW v \in Workers, LockOK(v), pc'[v] = pc[v], tx'[v] = tx[v]
  PROVE  LockOK(v)'
  BY Zenon DEF LockOK

\* A transaction that has written nothing holds nothing.
LEMMA LockEmpty ==
  ASSUME NEW v \in Workers, tx'[v].entries = {}, tx'[v].intent = "none",
         tx'[v].payout.state = "none"
  PROVE  LockOK(v)'
  BY Zenon DEF LockOK

LEMMA EmptyTxHoldsNothing ==
  EmptyTx.entries = {} /\ EmptyTx.intent = "none" /\ EmptyTx.payout.state = "none"
  BY Zenon DEF EmptyTx, NoPayout

\* v has not moved; nobody but w has.
Still(v) == pc'[v] = pc[v] /\ run'[v] = run[v] /\ seen'[v] = seen[v] /\ tx'[v] = tx[v]

Alone(w) == \A v \in Workers \ {w} : Still(v)

LEMMA OneMoves ==
  ASSUME TypeOK, NEW w \in Workers, Advance(w) \/ Fault(w)
  PROVE  Alone(w)
  <1> USE DEF Alone, Still, TypeOK, db, faults, worker
  <1>1. ASSUME NEW i \in Intents, ClaimDueSagaRun(w, i) PROVE Alone(w)
    BY Zenon, <1>1 DEF ClaimDueSagaRun
  <1>2. ASSUME Load(w) PROVE Alone(w)
    BY Zenon, <1>2 DEF Load
  <1>3. ASSUME LookupEntry(w) PROVE Alone(w)
    BY Zenon, <1>3 DEF LookupEntry, Posted
  <1>4. ASSUME InsertEntry(w) PROVE Alone(w)
    BY Zenon, <1>4 DEF InsertEntry, Posted, Rollback
  <1>5. ASSUME UpsertPayout(w) PROVE Alone(w)
    BY Zenon, <1>5 DEF UpsertPayout, Rollback
  <1>6. ASSUME NEW v \in Verdicts, SubmitPayout(w, v) PROVE Alone(w)
    BY Zenon, <1>6 DEF SubmitPayout, Rollback
  <1>7. ASSUME RejectPayout(w) \/ StepError(w) \/ Crash(w) PROVE Alone(w)
    BY Zenon, <1>7 DEF RejectPayout, StepError, Crash, Rollback
  <1>8. ASSUME UpdateIntent(w) PROVE Alone(w)
    BY Zenon, <1>8 DEF UpdateIntent
  <1>9. ASSUME Commit(w) \/ CommitUnacknowledged(w) PROVE Alone(w)
    BY Zenon, <1>9 DEF Commit, CommitUnacknowledged, Rollback
  <1>10. ASSUME RecordFailure(w) PROVE Alone(w)
    BY Zenon, <1>10 DEF RecordFailure
  <1>11. ASSUME SubmitUnanswered(w) PROVE Alone(w)
    BY Zenon, <1>11 DEF SubmitUnanswered, Rollback
  <1> HIDE DEF Alone, Still, TypeOK
  <1> QED BY Zenon, <1>1, <1>2, <1>3, <1>4, <1>5, <1>6, <1>7, <1>8, <1>9, <1>10, <1>11
          DEF Advance, Fault

\* Dropping the transaction, or ending one that is empty, releases every row.
LEMMA LockDropped ==
  ASSUME NEW w \in Workers, IInv,
         \/ \E i \in Intents : ClaimDueSagaRun(w, i)
         \/ RecordFailure(w) \/ Commit(w) \/ RejectPayout(w) \/ Fault(w)
  PROVE  LockOK(w)'
  <1>1. tx \in [Workers -> Tx] /\ RunOK(w)
    BY Zenon DEF IInv, TypeOK, WorkerOK
  <1>2. tx'[w] = EmptyTx
    BY Zenon, <1>1
       DEF RunOK, ClaimDueSagaRun, RecordFailure, Commit, RejectPayout, Fault, SubmitUnanswered,
           CommitUnacknowledged, StepError, Crash, Rollback, Failing
  <1> QED BY Zenon, <1>2, LockEmpty, EmptyTxHoldsNothing

\* The reads a step begins with write nothing.
LEMMA LockLoad ==
  ASSUME NEW w \in Workers, IInv, Load(w)
  PROVE  LockOK(w)'
  <1>1. tx \in [Workers -> Tx] /\ tx[w] = EmptyTx
    BY Zenon DEF IInv, TypeOK, WorkerOK, RunOK, Load
  <1>2. tx'[w] = EmptyTx \/ tx'[w] = [tx[w] EXCEPT !.post = FirstEntry(run[w].step)]
    BY Zenon, <1>1 DEF Load
  <1>3. /\ tx'[w].entries = tx[w].entries
        /\ tx'[w].intent = tx[w].intent
        /\ tx'[w].payout.state = tx[w].payout.state
    BY ZenonT(40), <1>1, <1>2 DEF Tx
  <1> QED BY Zenon, <1>1, <1>3, LockEmpty, EmptyTxHoldsNothing

\* Posting takes the keys of the two legs in the order USDC, IDR.
LEMMA LockPost ==
  ASSUME NEW w \in Workers, TypeOK, LockOK(w), LookupEntry(w) \/ InsertEntry(w)
  PROVE  LockOK(w)'
  <1>1. /\ tx \in [Workers -> Tx] /\ tx[w] \in Tx /\ pc \in [Workers -> PCs]
        /\ pc[w] \in {"lookup", "insert"}
    BY Zenon DEF TypeOK, LookupEntry, InsertEntry
  <1>2. tx[w].intent = "none" /\ tx[w].payout.state = "none"
    BY Zenon, <1>1 DEF LockOK
  <1>3. CASE tx'[w] = EmptyTx
    BY Zenon, <1>3, LockEmpty, EmptyTxHoldsNothing
  <1>4. CASE tx' = tx /\ pc' = [pc EXCEPT ![w] = "insert"]
    BY Zenon, <1>1, <1>2, <1>4 DEF LockOK
  <1>5. CASE /\ \/ tx'[w] = [tx[w] EXCEPT !.post = EntryAfter(tx[w].post)]
               \/ tx'[w] = [tx[w] EXCEPT !.entries = tx[w].entries \cup {tx[w].post},
                                         !.post = EntryAfter(tx[w].post)]
            /\ Posted(w)
    <2>1. /\ tx'[w].intent = "none" /\ tx'[w].payout.state = "none"
          /\ tx'[w].entries \subseteq tx[w].entries \cup {tx[w].post}
          /\ tx'[w].post = EntryAfter(tx[w].post)
      BY Zenon, <1>1, <1>2, <1>5 DEF Tx
    <2>2. CASE tx[w].post = "fx_swap_usdc"
      <3>1. pc'[w] = "lookup" /\ tx'[w].post = "payout_disbursed"
        BY Zenon, <1>1, <1>5, <2>1, <2>2 DEF Posted, EntryAfter
      <3>2. tx'[w].entries \subseteq {"fx_swap_usdc"}
        BY Zenon, <1>1, <2>1, <2>2 DEF LockOK
      <3> QED BY Zenon, <2>1, <3>1, <3>2 DEF LockOK
    <2>3. CASE tx[w].post # "fx_swap_usdc"
      <3>1. pc'[w] = "intent"
        BY Zenon, <1>1, <1>5, <2>3 DEF Posted, EntryAfter
      <3> QED BY Zenon, <2>1, <3>1 DEF LockOK
    <2> QED BY Zenon, <2>2, <2>3
  <1> QED BY Zenon, <1>1, <1>3, <1>4, <1>5 DEF LookupEntry, InsertEntry, Rollback

\* The payout row comes before the intent row, and the intent row is last.
LEMMA LockPayout ==
  ASSUME NEW w \in Workers, TypeOK, LockOK(w),
         UpsertPayout(w) \/ (\E v \in Verdicts : SubmitPayout(w, v)) \/ UpdateIntent(w)
  PROVE  LockOK(w)'
  <1>1. tx \in [Workers -> Tx] /\ tx[w] \in Tx /\ pc \in [Workers -> PCs]
    BY Zenon DEF TypeOK
  <1>2. CASE tx'[w] = EmptyTx
    BY Zenon, <1>2, LockEmpty, EmptyTxHoldsNothing
  <1>3. CASE UpdateIntent(w)
    <2>1. pc'[w] = "commit"
      BY Zenon, <1>1, <1>3 DEF UpdateIntent
    <2> QED BY Zenon, <2>1 DEF LockOK
  <1>4. CASE /\ pc[w] \in {"upsert", "submit"} /\ pc'[w] \in {"submit", "reject", "intent"}
            /\ \E r : tx'[w] = [tx[w] EXCEPT !.payout = r]
    <2>1. tx'[w].intent = tx[w].intent /\ tx'[w].entries = tx[w].entries
      BY Zenon, <1>1, <1>4 DEF Tx
    <2>2. tx[w].intent = "none" /\ tx[w].entries = {}
      BY Zenon, <1>4 DEF LockOK
    <2> QED BY Zenon, <1>4, <2>1, <2>2 DEF LockOK
  <1>5. UpsertPayout(w) => tx'[w] = EmptyTx \/
           /\ pc[w] \in {"upsert", "submit"} /\ pc'[w] \in {"submit", "reject", "intent"}
           /\ \E r : tx'[w] = [tx[w] EXCEPT !.payout = r]
    <2>1. UpsertPayout(w) => pc[w] = "upsert"
      BY Zenon DEF UpsertPayout
    <2>2. UpsertPayout(w) =>
            \/ tx'[w] = EmptyTx
            \/ \E r : tx' = [tx EXCEPT ![w].payout = r]
      BY Zenon, <1>1 DEF UpsertPayout, Rollback
    <2>3. UpsertPayout(w) => tx'[w] = EmptyTx \/ pc'[w] \in {"submit", "intent"}
      BY Zenon, <1>1 DEF UpsertPayout, Rollback
    <2> QED BY Zenon, <1>1, <2>1, <2>2, <2>3
  <1>6. ASSUME NEW v \in Verdicts, SubmitPayout(w, v)
        PROVE  tx'[w] = EmptyTx \/
           /\ pc[w] \in {"upsert", "submit"} /\ pc'[w] \in {"submit", "reject", "intent"}
           /\ \E r : tx'[w] = [tx[w] EXCEPT !.payout = r]
    BY Zenon, <1>1, <1>6 DEF SubmitPayout, Rollback
  <1> QED BY Zenon, <1>2, <1>3, <1>4, <1>5, <1>6

LEMMA LockNext == IInv /\ LockInv /\ [Next]_vars => LockInv'
  <1> SUFFICES ASSUME IInv, LockInv, [Next]_vars PROVE LockInv'
    BY Zenon
  <1>1. TypeOK
    BY Zenon DEF IInv
  <1>2. ASSUME UNCHANGED worker PROVE LockInv'
    BY Zenon, <1>2, LockFrame DEF LockInv, worker
  <1>3. ASSUME NEW i \in Intents, EnqueueSagaRun(i) \/ BackoffElapses(i) \/ LeaseExpires(i)
        PROVE  LockInv'
    BY Zenon, <1>2, <1>3 DEF EnqueueSagaRun, BackoffElapses, LeaseExpires
  <1>4. ASSUME NEW w \in Workers, Advance(w) \/ Fault(w) PROVE LockInv'
    <2>1. LockOK(w)'
      BY Zenon, <1>1, <1>4, LockDropped, LockLoad, LockPost, LockPayout DEF Advance, LockInv
    <2>2. ASSUME NEW v \in Workers, v # w PROVE LockOK(v)'
      BY Zenon, <1>1, <1>4, <2>2, OneMoves, LockFrame DEF Alone, Still, LockInv
    <2> QED BY Zenon, <2>1, <2>2 DEF LockInv
  <1>5. CASE UNCHANGED vars
    BY Zenon, <1>2, <1>5 DEF vars
  <1> QED BY Zenon, <1>3, <1>4, <1>5 DEF Next

\* How late in a transaction a worker waits: for the first row it writes, for
\* the IDR leg under the USDC leg, for the intent row; or not at all.
Rank(w) ==
  CASE pc[w] = "upsert" -> 1
    [] pc[w] = "insert" -> IF tx[w].post = "payout_disbursed" THEN 2 ELSE 1
    [] pc[w] \in {"reject", "intent"} -> 3
    [] OTHER -> 4

LEMMA RankRange ==
  ASSUME NEW w PROVE Rank(w) \in {1, 2, 3, 4}
  BY Zenon DEF Rank

\* Nobody waits for a transaction that waits as early as they do.
LEMMA WaitsForLater ==
  ASSUME LockInv, NEW w \in Workers, NEW v \in Workers, WaitsFor(w, v)
  PROVE  Rank(w) < Rank(v)
  <1>1. LockOK(v)
    BY Zenon DEF LockInv
  <1>2. ASSUME pc[w] = "insert", tx[w].post \in tx[v].entries PROVE Rank(w) < Rank(v)
    <2>1. pc[v] \in {"lookup", "insert", "intent", "commit"}
      BY Zenon, <1>1, <1>2 DEF LockOK
    <2>2. CASE pc[v] \in {"lookup", "intent", "commit"}
      <3>1. Rank(w) \in {1, 2} /\ Rank(v) \in {3, 4}
        BY <1>2, <2>2 DEF Rank
      <3> QED BY <3>1
    <2>3. CASE pc[v] = "insert"
      <3>1. tx[v].post = "payout_disbursed" /\ tx[w].post = "fx_swap_usdc"
        BY <1>1, <1>2, <2>3 DEF LockOK
      <3> QED BY <1>2, <2>3, <3>1 DEF Rank
    <2> QED BY Zenon, <2>1, <2>2, <2>3
  <1>3. ASSUME pc[w] = "upsert", tx[v].payout.state # "none" PROVE Rank(w) < Rank(v)
    <2>1. pc[v] \in {"submit", "reject", "intent", "commit"}
      BY Zenon, <1>1, <1>3 DEF LockOK
    <2> QED BY <1>3, <2>1 DEF Rank
  <1>4. ASSUME pc[w] \in {"reject", "intent"}, tx[v].intent # "none" PROVE Rank(w) < Rank(v)
    <2>1. pc[v] = "commit"
      BY Zenon, <1>1, <1>4 DEF LockOK
    <2> QED BY <1>4, <2>1 DEF Rank
  <1> QED BY Zenon, <1>2, <1>3, <1>4 DEF WaitsFor, EntryHeld, PayoutHeld, IntentHeld

\* Among any workers, one whose rank is highest waits for none of the others.
LEMMA RankedHasNoCycle == LockInv => NoLockCycle
  <1> SUFFICES ASSUME LockInv, NEW S \in SUBSET Workers, S # {},
                      \A w \in S : \E v \in S : WaitsFor(w, v)
               PROVE  FALSE
    BY Zenon DEF NoLockCycle
  <1>1. ASSUME NEW w \in S PROVE \E v \in S : Rank(w) < Rank(v)
    BY Zenon, WaitsForLater
  <1>2. ASSUME NEW w \in S PROVE Rank(w) \in {1, 2, 3, 4}
    BY Zenon, RankRange
  <1> HIDE DEF Rank
  <1>3. \A w \in S : Rank(w) # 4
    BY <1>1, <1>2
  <1>4. \A w \in S : Rank(w) # 3
    BY <1>1, <1>2, <1>3
  <1>5. \A w \in S : Rank(w) # 2
    BY <1>1, <1>2, <1>3, <1>4
  <1>6. \A w \in S : Rank(w) # 1
    BY <1>1, <1>2, <1>3, <1>4, <1>5
  <1> QED BY <1>2, <1>3, <1>4, <1>5, <1>6

\* However workers interleave inside their step transactions, journal keys,
\* payouts rows and intents are locked without a cycle: of any set of workers,
\* one does not wait for another of the set.
THEOREM NoLockCycleHolds == Spec => []NoLockCycle
  <1>1. Init => LockInv
    BY Zenon, EmptyTxHoldsNothing DEF Init, LockInv, LockOK
  <1>2. IInv /\ LockInv /\ [Next]_vars => LockInv'
    BY Zenon, LockNext
  <1>3. LockInv => NoLockCycle
    BY Zenon, RankedHasNoCycle
  <1> QED BY <1>1, <1>2, <1>3, Invariance, PTL DEF Spec

-----------------------------------------------------------------------------
(* Unique keys.                                                            *)

\* A step that commits nothing, and leaves its worker with the entries it had
\* or with none, cannot make an entry appear twice.
LEMMA OnceKept ==
  ASSUME EntriesPostedOnce, NEW w \in Workers, Alone(w), journal' = journal,
         \/ tx'[w].entries = {}
         \/ pc[w] # "idle" /\ run'[w] = run[w] /\ tx'[w].entries = tx[w].entries
  PROVE  EntriesPostedOnce'
  <1>1. ASSUME NEW u \in Workers, pc'[u] # "idle"
        PROVE  tx'[u].entries \cap journal'[run'[u].intent] = {}
    <2>1. CASE tx'[u].entries = {}
      BY Zenon, <2>1
    <2>2. CASE tx'[u].entries # {}
      <3>1. run'[u] = run[u] /\ tx'[u].entries = tx[u].entries /\ pc[u] # "idle"
        BY Zenon, <1>1, <2>2 DEF Alone, Still
      <3> QED BY Zenon, <3>1 DEF EntriesPostedOnce
    <2> QED BY Zenon, <2>1, <2>2
  <1>2. ASSUME NEW u \in Workers, pc'[u] # "idle", NEW v \in Workers, v # u,
               run'[v].intent = run'[u].intent
        PROVE  tx'[v].entries \cap tx'[u].entries = {}
    <2>1. CASE tx'[u].entries = {} \/ tx'[v].entries = {}
      BY Zenon, <2>1
    <2>2. CASE tx'[u].entries # {} /\ tx'[v].entries # {}
      <3>1. /\ run'[u] = run[u] /\ tx'[u].entries = tx[u].entries /\ pc[u] # "idle"
            /\ run'[v] = run[v] /\ tx'[v].entries = tx[v].entries
        BY Zenon, <1>2, <2>2 DEF Alone, Still
      <3> QED BY Zenon, <1>2, <3>1 DEF EntriesPostedOnce
    <2> QED BY Zenon, <2>1, <2>2
  <1> QED BY Zenon, <1>1, <1>2 DEF EntriesPostedOnce

\* The insert waits for whoever holds the key and fails if it is committed.
LEMMA OnceInserted ==
  ASSUME IInv, EntriesPostedOnce, NEW w \in Workers, InsertEntry(w)
  PROVE  EntriesPostedOnce'
  <1>1. /\ TypeOK /\ Alone(w) /\ tx \in [Workers -> Tx] /\ tx[w] \in Tx /\ run' = run
        /\ journal' = journal /\ pc[w] # "idle"
    BY Zenon, OneMoves DEF IInv, TypeOK, Advance, InsertEntry, db
  <1> DEFINE e == tx[w].post
  <1> DEFINE t == [tx[w] EXCEPT !.entries = tx[w].entries \cup {e}, !.post = EntryAfter(e)]
  <1>2. \/ tx'[w] = EmptyTx
        \/ e \notin journal[run[w].intent] /\ tx'[w] = t
    BY Zenon, <1>1 DEF InsertEntry, Rollback
  <1>3. CASE tx'[w] = EmptyTx
    BY Zenon, <1>1, <1>3, OnceKept, EmptyTxHoldsNothing
  <1>4. CASE e \notin journal[run[w].intent] /\ tx'[w] = t
    <2>1. t.entries = tx[w].entries \cup {e}
      BY Zenon, <1>1 DEF Tx
    <2>2. tx'[w].entries = tx[w].entries \cup {e}
      BY Zenon, <1>4, <2>1
    <2>3. \A v \in Workers : v # w /\ run[v].intent = run[w].intent => e \notin tx[v].entries
      BY Zenon DEF InsertEntry, EntryHeld
    <2> HIDE DEF e, t
    <2>4. \A v \in Workers : v # w => tx'[v] = tx[v] /\ (pc'[v] = "idle" <=> pc[v] = "idle")
      BY Zenon, <1>1 DEF Alone, Still
    <2>5. ASSUME NEW v \in Workers, v # w, run[v].intent = run[w].intent
          PROVE  tx'[v].entries \cap tx'[w].entries = {} /\ tx'[w].entries \cap tx'[v].entries = {}
      <3>1. tx[v].entries \cap tx[w].entries = {}
        BY Zenon, <1>1, <2>5 DEF EntriesPostedOnce
      <3> QED BY Zenon, <2>2, <2>3, <2>4, <2>5, <3>1
    <2>6. tx'[w].entries \cap journal'[run'[w].intent] = {}
      BY Zenon, <1>1, <1>4, <2>2 DEF EntriesPostedOnce
    <2>7. ASSUME NEW u \in Workers, pc'[u] # "idle"
          PROVE  tx'[u].entries \cap journal'[run'[u].intent] = {}
      BY Zenon, <1>1, <2>4, <2>6, <2>7 DEF EntriesPostedOnce
    <2>8. ASSUME NEW u \in Workers, pc'[u] # "idle", NEW v \in Workers, v # u,
                 run'[v].intent = run'[u].intent
          PROVE  tx'[v].entries \cap tx'[u].entries = {}
      BY Zenon, <1>1, <2>4, <2>5, <2>8 DEF EntriesPostedOnce
    <2> QED BY Zenon, <2>7, <2>8 DEF EntriesPostedOnce
  <1> QED BY Zenon, <1>2, <1>3, <1>4

\* What is committed is what no other transaction holds.
LEMMA OnceCommitted ==
  ASSUME IInv, EntriesPostedOnce, NEW w \in Workers, Commit(w) \/ CommitUnacknowledged(w)
  PROVE  EntriesPostedOnce'
  <1>1. Alone(w) /\ run' = run /\ journal \in [Intents -> SUBSET EntryKinds] /\ pc[w] # "idle"
    BY Zenon, OneMoves DEF IInv, TypeOK, Advance, Fault, Commit, CommitUnacknowledged
  <1>2. run[w].intent \in Intents
    BY Zenon, <1>1 DEF IInv, WorkerOK, RunOK
  <1>3. tx'[w] = EmptyTx
    BY Zenon DEF IInv, TypeOK, Commit, CommitUnacknowledged, Rollback
  <1>4. tx'[w].entries = {}
    BY Zenon, <1>3, EmptyTxHoldsNothing
  <1>5. journal' = [journal EXCEPT ![run[w].intent] = @ \cup tx[w].entries]
    BY Zenon DEF Commit, CommitUnacknowledged, Apply
  <1>6. ASSUME NEW u \in Workers, u # w
        PROVE  tx'[u] = tx[u] /\ pc'[u] = pc[u]
    BY Zenon, <1>1, <1>6 DEF Alone, Still
  <1>7. ASSUME NEW u \in Workers, pc'[u] # "idle"
        PROVE  tx'[u].entries \cap journal'[run'[u].intent] = {}
    <2>1. CASE u = w
      BY Zenon, <1>4, <2>1
    <2>2. CASE u # w /\ run[u].intent = run[w].intent
      <3>1. journal'[run[u].intent] = journal[run[u].intent] \cup tx[w].entries
        BY Zenon, <1>1, <1>2, <1>5, <2>2
      <3>2. tx[u].entries \cap journal[run[u].intent] = {} /\ tx[w].entries \cap tx[u].entries = {}
        BY Zenon, <1>6, <1>7, <2>2 DEF EntriesPostedOnce
      <3> QED BY Zenon, <1>1, <1>6, <2>2, <3>1, <3>2
    <2>3. CASE u # w /\ run[u].intent # run[w].intent
      <3>1. run[u].intent \in Intents
        BY Zenon, <1>6, <1>7, <2>3 DEF IInv, WorkerOK, RunOK
      <3>2. journal'[run[u].intent] = journal[run[u].intent]
        BY Zenon, <1>1, <1>5, <2>3, <3>1
      <3> QED BY Zenon, <1>1, <1>6, <1>7, <2>3, <3>2 DEF EntriesPostedOnce
    <2> QED BY Zenon, <2>1, <2>2, <2>3
  <1>8. ASSUME NEW u \in Workers, pc'[u] # "idle", NEW v \in Workers, v # u,
               run'[v].intent = run'[u].intent
        PROVE  tx'[v].entries \cap tx'[u].entries = {}
    <2>1. CASE u = w \/ v = w
      BY Zenon, <1>4, <2>1
    <2>2. CASE u # w /\ v # w
      BY Zenon, <1>1, <1>6, <1>8, <2>2 DEF EntriesPostedOnce
    <2> QED BY Zenon, <2>1, <2>2
  <1> QED BY Zenon, <1>7, <1>8 DEF EntriesPostedOnce

\* Every other statement of a worker leaves it with the entries it held, or
\* with none.
LEMMA OnceElsewhere ==
  ASSUME IInv, EntriesPostedOnce, NEW w \in Workers,
         \/ \E i \in Intents : ClaimDueSagaRun(w, i)
         \/ Load(w) \/ LookupEntry(w) \/ UpsertPayout(w) \/ RejectPayout(w) \/ UpdateIntent(w)
         \/ \E v \in Verdicts : SubmitPayout(w, v)
         \/ RecordFailure(w) \/ SubmitUnanswered(w) \/ StepError(w) \/ Crash(w)
  PROVE  EntriesPostedOnce'
  <1>1. /\ tx \in [Workers -> Tx] /\ tx[w] \in Tx /\ RunOK(w) /\ journal' = journal
    BY Zenon DEF IInv, TypeOK, WorkerOK, ClaimDueSagaRun, Load, LookupEntry, UpsertPayout,
       RejectPayout, UpdateIntent, SubmitPayout, RecordFailure, SubmitUnanswered, StepError, Crash, db
  <1>2. Alone(w)
    BY Zenon, OneMoves DEF IInv, Advance, Fault
  <1>3. ASSUME \/ \E i \in Intents : ClaimDueSagaRun(w, i)
               \/ RejectPayout(w) \/ RecordFailure(w) \/ Fault(w)
        PROVE  tx'[w] = EmptyTx
    BY Zenon, <1>1, <1>3
       DEF RunOK, ClaimDueSagaRun, RecordFailure, RejectPayout, Fault, SubmitUnanswered,
           CommitUnacknowledged, StepError, Crash, Rollback, Failing
  <1>4. ASSUME \/ Load(w) \/ LookupEntry(w) \/ UpsertPayout(w) \/ UpdateIntent(w)
               \/ \E v \in Verdicts : SubmitPayout(w, v)
        PROVE  /\ pc[w] # "idle" /\ run'[w] = run[w]
               /\ \/ tx'[w] = EmptyTx
                  \/ tx'[w] = tx[w]
                  \/ \E p : tx'[w] = [tx[w] EXCEPT !.post = p]
                  \/ \E p : tx'[w] = [tx[w] EXCEPT !.payout = p]
                  \/ \E p, q : tx'[w] = [tx[w] EXCEPT !.intent = p, !.event = q]
    <2>1. CASE Load(w)
      BY Zenon, <1>1, <2>1 DEF Load
    <2>2. CASE LookupEntry(w)
      BY Zenon, <1>1, <2>2 DEF LookupEntry
    <2>3. CASE UpsertPayout(w)
      BY Zenon, <1>1, <2>3 DEF UpsertPayout, Rollback
    <2>4. CASE UpdateIntent(w)
      BY Zenon, <1>1, <2>4 DEF UpdateIntent
    <2>5. ASSUME NEW v \in Verdicts, SubmitPayout(w, v)
          PROVE  /\ pc[w] # "idle" /\ run'[w] = run[w]
                 /\ tx'[w] = EmptyTx \/ \E p : tx'[w] = [tx[w] EXCEPT !.payout = p]
      BY Zenon, <1>1, <2>5 DEF SubmitPayout, Rollback
    <2> QED BY Zenon, <1>4, <2>1, <2>2, <2>3, <2>4, <2>5
  <1>5. \/ tx'[w].entries = {}
        \/ pc[w] # "idle" /\ run'[w] = run[w] /\ tx'[w].entries = tx[w].entries
    <2>1. CASE tx'[w] = EmptyTx
      BY Zenon, <2>1, EmptyTxHoldsNothing
    <2>2. CASE tx'[w] # EmptyTx
      BY Zenon, <1>1, <1>3, <1>4, <2>2 DEF Tx, Fault
    <2> QED BY Zenon, <2>1, <2>2
  <1> QED BY Zenon, <1>1, <1>2, <1>5, OnceKept

\* However stale workers overlap, no external_ref is inserted twice: what a
\* commit adds to the journal was neither there nor about to be added by
\* another open transaction.
THEOREM EntriesPostedOnceHolds == Spec => []EntriesPostedOnce
  <1>1. Init => EntriesPostedOnce
    BY Zenon DEF Init, EntriesPostedOnce
  <1>2. IInv /\ EntriesPostedOnce /\ [Next]_vars => EntriesPostedOnce'
    <2> SUFFICES ASSUME IInv, EntriesPostedOnce, [Next]_vars PROVE EntriesPostedOnce'
      BY Zenon
    <2>1. ASSUME UNCHANGED <<worker, journal>> PROVE EntriesPostedOnce'
      BY Zenon, <2>1 DEF EntriesPostedOnce, worker
    <2>2. ASSUME NEW i \in Intents, EnqueueSagaRun(i) \/ BackoffElapses(i) \/ LeaseExpires(i)
          PROVE  EntriesPostedOnce'
      BY Zenon, <2>1, <2>2 DEF EnqueueSagaRun, BackoffElapses, LeaseExpires
    <2>3. ASSUME NEW w \in Workers, Advance(w) \/ Fault(w) PROVE EntriesPostedOnce'
      BY Zenon, <2>3, OnceInserted, OnceCommitted, OnceElsewhere DEF Advance, Fault
    <2>4. CASE UNCHANGED vars
      BY Zenon, <2>1, <2>4 DEF vars, db
    <2> QED BY Zenon, <2>2, <2>3, <2>4 DEF Next
  <1> QED BY <1>1, <1>2, Invariance, PTL DEF Spec

-----------------------------------------------------------------------------
(* Leases.                                                                 *)

\* What LeaseInv says of an undisturbed state.
Leased ==
  /\ \A v, w \in Workers :
       v # w /\ pc[v] # "idle" /\ pc[w] # "idle" => run[v].intent # run[w].intent
  /\ \A i \in Intents : SagaAgrees(i)
  /\ \A w \in Workers : HoldsLease(w)

LEMMA LeaseInvIsLeased == LeaseInv <=> (Undisturbed => Leased)
  BY Zenon DEF LeaseInv, OneWorkerPerSaga, Leased

\* A step ends in the state the next one moves from, and every move is one
\* along the state machine.
LEMMA MovesChain ==
  ASSUME NEW s \in Steps
  PROVE  /\ s # "emit_completed" => From(NextStep(s)) = To(s)
         /\ To(s) # "none" /\ To("emit_completed") = "completed"
         /\ \E n \in 1..4 : From(s) = IntentOrder[n] /\ To(s) = IntentOrder[n + 1]
  <1>1. CASE s = "credit_deposit"
    <2>1. From(s) = IntentOrder[1] /\ To(s) = IntentOrder[1 + 1]
      BY <1>1 DEF From, To, IntentOrder
    <2>2. \E n \in 1..4 : From(s) = IntentOrder[n] /\ To(s) = IntentOrder[n + 1]
      BY <2>1
    <2> QED BY <1>1, <2>2 DEF From, To, NextStep
  <1>2. CASE s = "trigger_payout"
    <2>1. From(s) = IntentOrder[2] /\ To(s) = IntentOrder[2 + 1]
      BY <1>2 DEF From, To, IntentOrder
    <2>2. \E n \in 1..4 : From(s) = IntentOrder[n] /\ To(s) = IntentOrder[n + 1]
      BY <2>1
    <2> QED BY <1>2, <2>2 DEF From, To, NextStep
  <1>3. CASE s = "apply_payout_result"
    <2>1. From(s) = IntentOrder[3] /\ To(s) = IntentOrder[3 + 1]
      BY <1>3 DEF From, To, IntentOrder
    <2>2. \E n \in 1..4 : From(s) = IntentOrder[n] /\ To(s) = IntentOrder[n + 1]
      BY <2>1
    <2> QED BY <1>3, <2>2 DEF From, To, NextStep
  <1>4. CASE s = "emit_completed"
    <2>1. From(s) = IntentOrder[4] /\ To(s) = IntentOrder[4 + 1]
      BY <1>4 DEF From, To, IntentOrder
    <2>2. \E n \in 1..4 : From(s) = IntentOrder[n] /\ To(s) = IntentOrder[n + 1]
      BY <2>1
    <2> QED BY <1>4, <2>2 DEF From, To, NextStep
  <1> QED BY Zenon, <1>1, <1>2, <1>3, <1>4 DEF Steps

\* The rows of an intent that a step leaves as they are.
SameRows(j) == saga'[j] = saga[j] /\ intent'[j] = intent[j] /\ outbox'[j] = outbox[j]

LEMMA AgreesFrame ==
  ASSUME NEW j, SagaAgrees(j), SameRows(j) PROVE SagaAgrees(j)'
  BY Zenon DEF SagaAgrees, SameRows

LEMMA IdleHoldsLease ==
  ASSUME NEW w, pc'[w] = "idle" PROVE HoldsLease(w)'
  BY Zenon DEF HoldsLease, InTx

LEMMA HolderFrame ==
  ASSUME NEW v, HoldsLease(v), Still(v),
         pc[v] # "idle" => SameRows(run[v].intent)
  PROVE  HoldsLease(v)'
  BY Zenon DEF HoldsLease, Still, SameRows

\* Only the rows of intent i change, and at most one worker moves, to idle or
\* to hold i's lease, while nobody else works on i.
LEMMA LeaseChange ==
  ASSUME Leased, \A v \in Workers : RunOK(v), NEW i \in Intents, NEW W \in SUBSET Workers,
         \A a, b \in W : a = b,
         \A j \in Intents \ {i} : SameRows(j), SagaAgrees(i)',
         \A v \in Workers \ W : Still(v) /\ (pc[v] # "idle" => run[v].intent # i),
         \A w \in W : pc'[w] = "idle" \/ (run'[w].intent = i /\ HoldsLease(w)')
  PROVE  Leased'
  <1>1. ASSUME NEW j \in Intents PROVE SagaAgrees(j)'
    BY Zenon, AgreesFrame DEF Leased
  <1>2. ASSUME NEW w \in Workers PROVE HoldsLease(w)'
    <2>1. CASE w \in W
      BY Zenon, <2>1, IdleHoldsLease
    <2>2. CASE w \notin W
      <3>1. pc[w] # "idle" => run[w].intent \in Intents \ {i}
        BY Zenon, <2>2 DEF RunOK
      <3> QED BY Zenon, <2>2, <3>1, HolderFrame DEF Leased
    <2> QED BY Zenon, <2>1, <2>2
  <1>3. ASSUME NEW v \in Workers, NEW w \in Workers, v # w, pc'[v] # "idle", pc'[w] # "idle"
        PROVE  run'[v].intent # run'[w].intent
    <2>1. ASSUME NEW u \in Workers, u \notin W, pc'[u] # "idle"
          PROVE  pc[u] # "idle" /\ run'[u] = run[u] /\ run[u].intent # i
      BY Zenon, <2>1 DEF Still
    <2>2. CASE v \in W
      BY Zenon, <1>3, <2>1, <2>2
    <2>3. CASE w \in W
      BY Zenon, <1>3, <2>1, <2>3
    <2>4. CASE v \notin W /\ w \notin W
      BY Zenon, <1>3, <2>1, <2>4 DEF Leased
    <2> QED BY Zenon, <2>2, <2>3, <2>4
  <1> QED BY Zenon, <1>1, <1>2, <1>3 DEF Leased

\* The watcher and time touch only sagas nobody works on, unless a lease runs
\* out under its worker.
LEMMA LeaseTime ==
  ASSUME IInv, Leased, NEW i \in Intents,
         EnqueueSagaRun(i) \/ BackoffElapses(i) \/ (LeaseExpires(i) /\ ~Busy(i))
  PROVE  Leased'
  <1>1. saga \in [Intents -> SagaRow] /\ saga[i] \in SagaRow /\ \A v \in Workers : RunOK(v)
    BY Zenon DEF IInv, TypeOK, WorkerOK
  <1>2. SagaAgrees(i) /\ \A v \in Workers : HoldsLease(v)
    BY Zenon DEF Leased
  <1>3. UNCHANGED <<intent, outbox, worker>>
    BY Zenon DEF EnqueueSagaRun, BackoffElapses, LeaseExpires
  <1>4. ASSUME NEW j \in Intents \ {i} PROVE SameRows(j)
    BY Zenon, <1>1, <1>3 DEF EnqueueSagaRun, BackoffElapses, LeaseExpires, SameRows
  <1>5. SagaAgrees(i)'
    <2>1. CASE EnqueueSagaRun(i)
      <3>1. saga'[i] = [NoSaga EXCEPT !.state = "pending"] /\ saga[i].state = "none"
        BY Zenon, <1>1, <2>1 DEF EnqueueSagaRun
      <3>2. saga'[i].state = "pending" /\ saga'[i].step = "credit_deposit"
        BY <3>1 DEF NoSaga
      <3> QED BY ZenonT(40), <1>2, <1>3, <3>1, <3>2 DEF SagaAgrees
    <2>2. CASE BackoffElapses(i)
      <3>1. /\ saga'[i].state = saga[i].state /\ saga'[i].step = saga[i].step
            /\ saga'[i].lease = saga[i].lease /\ saga'[i].next_run = "due"
        BY <1>1, <2>2 DEF BackoffElapses, SagaRow
      <3> QED BY Zenon, <1>2, <1>3, <3>1 DEF SagaAgrees
    <2>3. CASE LeaseExpires(i)
      <3>1. /\ saga'[i].state = saga[i].state /\ saga'[i].step = saga[i].step
            /\ saga'[i].next_run = saga[i].next_run /\ saga[i].lease = "held"
        BY <1>1, <2>3 DEF LeaseExpires, SagaRow
      <3> QED BY Zenon, <1>2, <1>3, <3>1 DEF SagaAgrees
    <2> QED BY Zenon, <2>1, <2>2, <2>3
  <1>6. ASSUME NEW v \in Workers PROVE Still(v) /\ (pc[v] # "idle" => run[v].intent # i)
    <2>1. Still(v)
      BY Zenon, <1>3 DEF worker, Still
    <2>2. saga[i].state = "running" => saga[i].next_run = "due"
      BY Zenon, <1>2 DEF SagaAgrees
    <2>3. pc[v] # "idle" => run[v].intent # i
      BY Zenon, <1>2, <2>2 DEF EnqueueSagaRun, BackoffElapses, Busy, HoldsLease
    <2> QED BY Zenon, <2>1, <2>3
  <1> QED
    <2>1. \A v \in Workers \ {} : Still(v) /\ (pc[v] # "idle" => run[v].intent # i)
      BY Zenon, <1>6
    <2>2. {} \in SUBSET Workers /\ \A a, b \in {} : a = b
      BY Zenon
    <2>3. \A w \in {} : pc'[w] = "idle" \/ (run'[w].intent = i /\ HoldsLease(w)')
      BY Zenon
    <2> QED BY Zenon, <1>1, <1>4, <1>5, <2>1, <2>2, <2>3, LeaseChange

\* A claim finds no live lease, so nobody works on the saga.
LEMMA LeaseClaim ==
  ASSUME IInv, Leased, NEW w \in Workers, NEW i \in Intents, ClaimDueSagaRun(w, i)
  PROVE  Leased'
  <1>1. /\ saga \in [Intents -> SagaRow] /\ saga[i] \in SagaRow /\ \A v \in Workers : RunOK(v)
        /\ run \in [Workers -> Run] /\ pc \in [Workers -> PCs]
    BY Zenon DEF IInv, TypeOK, WorkerOK
  <1>2. SagaAgrees(i) /\ \A v \in Workers : HoldsLease(v)
    BY Zenon DEF Leased
  <1>3. Alone(w)
    BY Zenon, OneMoves DEF Advance, IInv
  <1>4. ASSUME NEW j \in Intents \ {i} PROVE SameRows(j)
    BY Zenon, <1>1 DEF ClaimDueSagaRun, SameRows
  <1>5. saga'[i] = [saga[i] EXCEPT !.state = "running", !.lease = "held"]
    BY Zenon, <1>1 DEF ClaimDueSagaRun
  <1>6. /\ saga'[i].state = "running" /\ saga'[i].lease = "held" /\ saga'[i].step = saga[i].step
        /\ saga'[i].next_run = saga[i].next_run
    BY Zenon, <1>1, <1>5 DEF SagaRow
  <1>7. SagaAgrees(i)'
    <2>1. saga[i].state \in {"pending", "running"} /\ saga[i].next_run = "due"
      BY Zenon DEF ClaimDueSagaRun, Claimable
    <2>2. intent'[i] = intent[i] /\ outbox'[i] = outbox[i]
      BY Zenon DEF ClaimDueSagaRun
    <2> QED BY Zenon, <1>2, <1>6, <2>1, <2>2 DEF SagaAgrees
  <1>8. ASSUME NEW v \in Workers, pc[v] # "idle" PROVE run[v].intent # i
    BY Zenon, <1>2, <1>8 DEF ClaimDueSagaRun, Claimable, HoldsLease
  <1>9. run'[w].intent = i /\ HoldsLease(w)'
    <2>1. run'[w] = [intent |-> i, step |-> saga[i].step, attempts |-> saga[i].attempts] /\ pc'[w] = "load"
      BY Zenon, <1>1 DEF ClaimDueSagaRun
    <2>2. run'[w].intent = i /\ run'[w].step = saga[i].step
      BY <2>1
    <2> QED BY Zenon, <1>6, <2>1, <2>2 DEF HoldsLease
  <1> QED
    <2>1. \A v \in Workers \ {w} : Still(v) /\ (pc[v] # "idle" => run[v].intent # i)
      BY Zenon, <1>3, <1>8 DEF Alone
    <2>2. {w} \in SUBSET Workers /\ \A a, b \in {w} : a = b
      BY Zenon
    <2>3. \A u \in {w} : pc'[u] = "idle" \/ (run'[u].intent = i /\ HoldsLease(u)')
      BY Zenon, <1>9
    <2> QED BY Zenon, <1>1, <1>4, <1>7, <2>1, <2>2, <2>3, LeaseChange

\* A step that commits nothing changes what w is at, and nothing else.
LEMMA LeaseLocal ==
  ASSUME Leased, NEW w \in Workers, pc[w] # "idle", Alone(w), UNCHANGED <<db, run>>,
         pc'[w] \in InTx \ {"load"} => seen'[w] = From(run[w].step),
         pc'[w] = "commit" => tx'[w].intent = To(run[w].step) /\ tx'[w].event \in {"none", "completed"}
  PROVE  Leased'
  <1>1. ASSUME NEW j \in Intents PROVE SameRows(j)
    BY Zenon DEF db, SameRows
  <1>2. ASSUME NEW j \in Intents PROVE SagaAgrees(j)'
    BY Zenon, <1>1, AgreesFrame DEF Leased
  <1>3. HoldsLease(w)'
    BY Zenon DEF Leased, HoldsLease, db
  <1>4. ASSUME NEW v \in Workers, v # w PROVE HoldsLease(v)'
    BY Zenon, <1>4 DEF Leased, HoldsLease, db, Alone, Still
  <1>5. ASSUME NEW u \in Workers, pc'[u] # "idle" PROVE pc[u] # "idle" /\ run'[u] = run[u]
    BY Zenon, <1>5 DEF Alone, Still
  <1> QED BY Zenon, <1>2, <1>3, <1>4, <1>5 DEF Leased

\* The reads and writes inside a step transaction, and its ways to break off.
LEMMA LeaseStep ==
  ASSUME IInv, Leased, NEW w \in Workers,
         \/ Load(w) \/ LookupEntry(w) \/ InsertEntry(w) \/ UpsertPayout(w)
         \/ (\E v \in Verdicts : SubmitPayout(w, v)) \/ RejectPayout(w) \/ UpdateIntent(w)
         \/ SubmitUnanswered(w) \/ StepError(w) \/ Crash(w)
  PROVE  Leased'
  <1>1. /\ pc \in [Workers -> PCs] /\ seen \in [Workers -> IntentStates] /\ tx \in [Workers -> Tx]
        /\ tx[w] \in Tx /\ run[w] \in Run /\ RunOK(w)
    BY Zenon DEF IInv, TypeOK, WorkerOK
  <1>2. HoldsLease(w)
    BY Zenon DEF Leased
  <1>3. Alone(w)
    BY Zenon, OneMoves DEF Advance, Fault, IInv
  <1>4. pc[w] # "idle"
    BY Zenon DEF Load, LookupEntry, InsertEntry, UpsertPayout, SubmitPayout, RejectPayout,
                 UpdateIntent, SubmitUnanswered, StepError, Crash, InTx
  <1>5. UNCHANGED <<db, run>>
    BY Zenon DEF Load, LookupEntry, InsertEntry, UpsertPayout, SubmitPayout, RejectPayout,
                 UpdateIntent, SubmitUnanswered, StepError, Crash
  <1>6. CASE Load(w)
    <2>1. seen'[w] = intent[run[w].intent]
      BY Zenon, <1>1, <1>6 DEF Load
    <2>2. SagaAgrees(run[w].intent)
      BY Zenon, <1>1, <1>4 DEF Leased, RunOK
    <2>3. seen'[w] = From(run[w].step)
      BY Zenon, <1>2, <1>4, <2>1, <2>2 DEF HoldsLease, SagaAgrees
    <2>4. pc'[w] \in {"upsert", "fail", "intent", "lookup"}
      BY Zenon, <1>1, <1>6 DEF Load
    <2>5. pc'[w] # "commit"
      BY Zenon, <2>4
    <2> QED BY Zenon, <1>3, <1>4, <1>5, <2>3, <2>5, LeaseLocal
  <1>7. CASE UpdateIntent(w)
    <2>1. seen[w] = From(run[w].step) /\ seen'[w] = seen[w]
      BY Zenon, <1>1, <1>2, <1>7 DEF UpdateIntent, HoldsLease, InTx
    <2>2. tx'[w] = [tx[w] EXCEPT !.intent = To(run[w].step), !.event = Event(w)]
      BY Zenon, <1>1, <1>7, <2>1 DEF UpdateIntent, Moves
    <2>3. tx'[w].intent = To(run[w].step) /\ tx'[w].event = Event(w)
      BY Zenon, <1>1, <2>2 DEF Tx
    <2>4. Event(w) \in {"none", "completed"}
      BY <2>1 DEF Event, Moves, To
    <2> QED BY Zenon, <1>3, <1>4, <1>5, <2>1, <2>3, <2>4, LeaseLocal
  <1>8. CASE ~Load(w) /\ ~UpdateIntent(w)
    <2>1. seen'[w] = seen[w] /\ pc'[w] # "commit"
      BY Zenon, <1>1, <1>8
         DEF LookupEntry, InsertEntry, Posted, UpsertPayout, SubmitPayout, RejectPayout,
             SubmitUnanswered, StepError, Crash, Rollback
    <2>2. pc[w] \in InTx \ {"load"} \/ pc'[w] \in {"idle", "retry"}
      BY Zenon, <1>1, <1>8
         DEF LookupEntry, InsertEntry, UpsertPayout, SubmitPayout, RejectPayout,
             SubmitUnanswered, StepError, Crash, Rollback, InTx
    <2>3. pc'[w] \in InTx \ {"load"} => seen'[w] = From(run[w].step)
      BY Zenon, <1>2, <2>1, <2>2 DEF HoldsLease, InTx
    <2> QED BY Zenon, <1>3, <1>4, <1>5, <2>1, <2>3, LeaseLocal
  <1> QED BY Zenon, <1>6, <1>7, <1>8

\* A commit or the record of a failure ends w's work on its saga.
LEMMA LeaseEnd ==
  ASSUME IInv, Leased, NEW w \in Workers, Commit(w) \/ RecordFailure(w),
         NEW i \in Intents, run[w].intent = i
  PROVE  Leased'
  <1>1. /\ saga \in [Intents -> SagaRow] /\ intent \in [Intents -> IntentStates]
        /\ outbox \in [Intents -> Seq(IntentStates)] /\ pc \in [Workers -> PCs]
        /\ run[w].step \in Steps /\ \A v \in Workers : RunOK(v)
    <2>1. TypeOK /\ \A v \in Workers : RunOK(v)
      BY Zenon DEF IInv, WorkerOK
    <2>2. run[w].step \in Steps
      BY Zenon, <2>1 DEF TypeOK, Run
    <2> QED BY Zenon, <2>1, <2>2 DEF TypeOK
  <1>2. pc[w] # "idle" /\ pc'[w] = "idle"
    BY Zenon, <1>1 DEF Commit, RecordFailure, Rollback, Failing
  <1>3. saga[i] \in SagaRow
    BY Zenon, <1>1
  <1>4. SagaAgrees(i) /\ HoldsLease(w)
    BY Zenon, <1>3 DEF Leased
  <1>5. saga[i].state = "running" /\ saga[i].step = run[w].step /\ saga[i].next_run = "due"
        /\ intent[i] = From(run[w].step) /\ \A n \in 1..Len(outbox[i]) : outbox[i][n] = "completed"
    BY Zenon, <1>2, <1>4 DEF SagaAgrees, HoldsLease
  <1>6. Alone(w)
    BY Zenon, OneMoves DEF Advance, IInv
  <1>7. ASSUME NEW j \in Intents \ {i} PROVE SameRows(j)
    BY Zenon, <1>1 DEF Commit, Apply, RecordFailure, FailSagaRun, ScheduleSagaRetry, SameRows
  <1>8. SagaAgrees(i)'
    <2>1. CASE Commit(w)
      <3>1. tx[w].intent = To(run[w].step) /\ tx[w].event \in {"none", "completed"}
        BY Zenon, <1>4, <2>1 DEF HoldsLease, Commit
      <3>2. To(run[w].step) # "none"
        BY Zenon, <1>1, MovesChain
      <3>3. intent'[i] = To(run[w].step)
        BY Zenon, <1>1, <1>3, <2>1, <3>1, <3>2 DEF Commit, Apply
      <3>4. \A n \in 1..Len(outbox'[i]) : outbox'[i][n] = "completed"
        <4>1. outbox'[i] = outbox[i] \/ outbox'[i] = Append(outbox[i], "completed")
          BY Zenon, <1>1, <1>3, <2>1, <3>1 DEF Commit, Apply
        <4>2. outbox[i] \in Seq(IntentStates)
          BY Zenon, <1>1, <1>3
        <4> QED BY <1>5, <4>1, <4>2
      <3>5. saga'[i] = SagaAfter(w)
        BY Zenon, <1>1, <1>3, <2>1 DEF Commit, Apply
      <3>6. CASE run[w].step = "emit_completed"
        <4>1. saga'[i] = [saga[i] EXCEPT !.state = "completed", !.lease = "none"]
          BY Zenon, <3>5, <3>6 DEF SagaAfter
        <4>2. saga'[i].state = "completed" /\ saga'[i].lease = "none" /\ saga'[i].next_run = "due"
          BY Zenon, <1>3, <1>5, <4>1 DEF SagaRow
        <4>3. intent'[i] = "completed"
          BY Zenon, <1>1, <3>3, <3>6, MovesChain
        <4> QED BY Zenon, <3>4, <4>2, <4>3 DEF SagaAgrees
      <3>7. CASE run[w].step # "emit_completed"
        <4>1. saga'[i] = [state |-> "pending", step |-> NextStep(run[w].step), attempts |-> 0,
                          lease |-> "none", next_run |-> "due"]
          BY Zenon, <3>5, <3>7 DEF SagaAfter
        <4>2. saga'[i].state = "pending" /\ saga'[i].step = NextStep(run[w].step)
          BY <4>1
        <4>3. intent'[i] = From(NextStep(run[w].step))
          BY Zenon, <1>1, <3>3, <3>7, MovesChain
        <4> QED BY Zenon, <3>4, <4>2, <4>3 DEF SagaAgrees
      <3> QED BY Zenon, <3>6, <3>7
    <2>2. CASE RecordFailure(w)
      <3>1. intent'[i] = intent[i] /\ outbox'[i] = outbox[i]
        BY Zenon, <2>2 DEF RecordFailure
      <3>2. \/ saga'[i] = [saga[i] EXCEPT !.state = "failed", !.lease = "none"]
            \/ saga'[i] = [saga[i] EXCEPT !.state = "pending", !.lease = "none",
                                          !.attempts = saga[i].attempts + 1, !.next_run = "later"]
        BY Zenon, <1>1, <1>3, <2>2 DEF RecordFailure, FailSagaRun, ScheduleSagaRetry
      <3>3. /\ saga'[i].step = saga[i].step
            /\ \/ saga'[i].state = "failed" /\ saga'[i].lease = "none" /\ saga'[i].next_run = "due"
               \/ saga'[i].state = "pending"
        BY ZenonT(40), <1>3, <1>5, <3>2 DEF SagaRow
      <3> QED BY Zenon, <1>5, <3>1, <3>3 DEF SagaAgrees
    <2> QED BY Zenon, <2>1, <2>2
  <1>9. \A v \in Workers \ {w} : Still(v) /\ (pc[v] # "idle" => run[v].intent # i)
    BY Zenon, <1>2, <1>6 DEF Leased, Alone
  <1>10. {w} \in SUBSET Workers /\ \A a, b \in {w} : a = b
    BY Zenon
  <1>11. \A u \in {w} : pc'[u] = "idle" \/ (run'[u].intent = i /\ HoldsLease(u)')
    BY Zenon, <1>2
  <1> QED BY Zenon, <1>1, <1>3, <1>7, <1>8, <1>9, <1>10, <1>11, LeaseChange

\* Disturbances are never forgotten.
LEMMA StaysDisturbed ==
  ASSUME TypeOK, [Next]_vars, Undisturbed' PROVE Undisturbed
  <1>1. stale \in Nat /\ unacked \in Nat
    BY DEF TypeOK
  <1> DEFINE Counts == stale' \in {stale, stale + 1} /\ unacked' \in {unacked, unacked + 1}
  <1>2. Counts
    <2>1. ASSUME NEW i \in Intents, EnqueueSagaRun(i) \/ BackoffElapses(i) \/ LeaseExpires(i)
          PROVE  Counts
      BY Zenon, <2>1 DEF EnqueueSagaRun, BackoffElapses, LeaseExpires, faults
    <2>2. ASSUME NEW w \in Workers, Advance(w) PROVE Counts
      BY Zenon, <2>2
         DEF Advance, ClaimDueSagaRun, Load, LookupEntry, InsertEntry, UpsertPayout, SubmitPayout,
             RejectPayout, UpdateIntent, Commit, RecordFailure, faults
    <2>3. ASSUME NEW w \in Workers, Fault(w) PROVE Counts
      BY Zenon, <2>3 DEF Fault, SubmitUnanswered, CommitUnacknowledged, StepError, Crash
    <2>4. CASE UNCHANGED vars
      BY Zenon, <2>4 DEF vars, faults
    <2> QED BY Zenon, <2>1, <2>2, <2>3, <2>4 DEF Next
  <1> QED BY <1>1, <1>2 DEF Undisturbed

\* A step that disturbs is visible in the counters.
LEMMA DisturbingSteps ==
  ASSUME TypeOK, Undisturbed'
  PROVE  /\ \A w \in Workers : ~CommitUnacknowledged(w)
         /\ \A i \in Intents : LeaseExpires(i) => ~Busy(i)
  <1>1. stale \in Nat /\ unacked \in Nat
    BY DEF TypeOK
  <1>2. unacked' # unacked + 1 /\ stale' # stale + 1
    BY <1>1 DEF Undisturbed
  <1> QED BY Zenon, <1>2 DEF CommitUnacknowledged, LeaseExpires

LEMMA LeaseNext == IInv /\ LeaseInv /\ [Next]_vars => LeaseInv'
  <1> SUFFICES ASSUME IInv, LeaseInv, [Next]_vars, Undisturbed' PROVE Leased'
    BY Zenon, LeaseInvIsLeased DEF LeaseInv, OneWorkerPerSaga, Leased
  <1>1. TypeOK
    BY Zenon DEF IInv
  <1>2. Leased
    BY Zenon, <1>1, StaysDisturbed, LeaseInvIsLeased
  <1>3. ASSUME NEW i \in Intents, EnqueueSagaRun(i) \/ BackoffElapses(i) \/ LeaseExpires(i)
        PROVE  Leased'
    BY Zenon, <1>1, <1>2, <1>3, LeaseTime, DisturbingSteps
  <1>4. ASSUME NEW w \in Workers, Advance(w) \/ Fault(w) PROVE Leased'
    <2>1. CASE Commit(w) \/ RecordFailure(w)
      <3>1. run[w].intent \in Intents
        BY Zenon, <2>1 DEF IInv, WorkerOK, RunOK, Commit, RecordFailure, Failing
      <3> QED BY Zenon, <1>2, <2>1, <3>1, LeaseEnd
    <2>2. CASE \E i \in Intents : ClaimDueSagaRun(w, i)
      BY Zenon, <1>2, <2>2, LeaseClaim
    <2>3. ~CommitUnacknowledged(w)
      BY Zenon, <1>1, DisturbingSteps
    <2> QED BY Zenon, <1>2, <1>4, <2>1, <2>2, <2>3, LeaseStep DEF Advance, Fault
  <1>5. CASE UNCHANGED vars
    <2>1. \A i \in Intents : SagaAgrees(i)'
      BY Zenon, <1>2, <1>5, AgreesFrame DEF Leased, SameRows, vars, db
    <2>2. \A w \in Workers : HoldsLease(w)'
      BY Zenon, <1>2, <1>5 DEF Leased, HoldsLease, vars, db, worker
    <2> QED BY Zenon, <1>2, <1>5, <2>1, <2>2 DEF Leased, vars, worker
  <1> QED BY Zenon, <1>3, <1>4, <1>5 DEF Next

LEMMA LeaseInit == Init => LeaseInv
  <1> SUFFICES ASSUME Init PROVE Leased
    BY Zenon, LeaseInvIsLeased
  <1>1. ASSUME NEW i \in Intents PROVE SagaAgrees(i)
    <2>1. saga[i] = NoSaga /\ intent[i] = "pending" /\ outbox[i] = <<>>
      BY Zenon DEF Init
    <2>2. saga[i].state = "none" /\ saga[i].step = "credit_deposit"
      BY <2>1 DEF NoSaga
    <2>3. From("credit_deposit") = "pending"
      BY DEF From
    <2>4. \A n \in 1..Len(outbox[i]) : outbox[i][n] = "completed"
      BY <2>1
    <2> QED BY Zenon, <2>1, <2>2, <2>3, <2>4 DEF SagaAgrees
  <1>2. ASSUME NEW w \in Workers PROVE HoldsLease(w) /\ pc[w] = "idle"
    BY Zenon DEF Init, HoldsLease, InTx
  <1> QED BY Zenon, <1>1, <1>2 DEF Leased

\* Leases and intents agree in every reachable state that nothing disturbed.
THEOREM LeaseInvariance == Spec => []LeaseInv
  <1>1. Init => LeaseInv
    BY Zenon, LeaseInit
  <1>2. IInv /\ LeaseInv /\ [Next]_vars => LeaseInv'
    BY Zenon, LeaseNext
  <1> QED BY <1>1, <1>2, Invariance, PTL DEF Spec

\* Until a lease runs out under its worker or a commit is in doubt, the lease
\* ClaimDueSagaRun takes keeps every other worker away from the saga, across
\* crashes, errors, lost replies and retries.
THEOREM OneWorkerPerSagaHolds == Spec => []OneWorkerPerSaga
  <1>1. LeaseInv => OneWorkerPerSaga
    BY Zenon DEF LeaseInv
  <1> QED BY <1>1, LeaseInvariance, PTL

\* A saga row that came to rest is in nobody's hands, neither a worker's nor
\* time's.
LEMMA RestingSaga ==
  ASSUME IInv, Leased, [Next]_vars, Undisturbed', NEW i \in Intents,
         saga[i].state \in {"completed", "failed"}
  PROVE  saga'[i] = saga[i]
  <1>1. saga \in [Intents -> SagaRow] /\ TypeOK
    BY Zenon DEF IInv, TypeOK
  <1>2. saga[i].lease = "none" /\ saga[i].next_run = "due"
    BY Zenon DEF Leased, SagaAgrees
  <1>3. ASSUME NEW w \in Workers, pc[w] # "idle"
        PROVE  run[w].intent # i
    BY Zenon, <1>3 DEF Leased, HoldsLease
  <1>4. ASSUME NEW j \in Intents, EnqueueSagaRun(j) \/ BackoffElapses(j) \/ LeaseExpires(j)
        PROVE  saga'[i] = saga[i]
    BY Zenon, <1>1, <1>2, <1>4 DEF EnqueueSagaRun, BackoffElapses, LeaseExpires
  <1>5. ASSUME NEW w \in Workers, NEW j \in Intents, ClaimDueSagaRun(w, j)
        PROVE  saga'[i] = saga[i]
    BY Zenon, <1>1, <1>5 DEF ClaimDueSagaRun, Claimable
  <1>6. ASSUME NEW w \in Workers, Commit(w) \/ RecordFailure(w) PROVE saga'[i] = saga[i]
    <2>1. run[w].intent # i
      BY Zenon, <1>3, <1>6 DEF Commit, RecordFailure, Failing
    <2> QED BY Zenon, <1>1, <1>6, <2>1
            DEF Commit, Apply, RecordFailure, FailSagaRun, ScheduleSagaRetry
  <1>7. ASSUME NEW w \in Workers, Advance(w) \/ Fault(w) PROVE saga'[i] = saga[i]
    <2>1. ~CommitUnacknowledged(w)
      BY Zenon, <1>1, DisturbingSteps
    <2>2. ASSUME UNCHANGED db PROVE saga'[i] = saga[i]
      BY Zenon, <2>2 DEF db
    <2> QED BY Zenon, <1>5, <1>6, <1>7, <2>1, <2>2
            DEF Advance, Fault, Load, LookupEntry, InsertEntry, UpsertPayout, SubmitPayout,
                RejectPayout, UpdateIntent, SubmitUnanswered, StepError, Crash
  <1>8. CASE UNCHANGED vars
    BY Zenon, <1>8 DEF vars, db
  <1> QED BY Zenon, <1>4, <1>7, <1>8 DEF Next

\* Only a commit moves an intent, from the state its step moves from to the
\* next.
LEMMA IntentWalks ==
  ASSUME IInv, Leased, [Next]_vars, Undisturbed', NEW i \in Intents
  PROVE  WalksStateMachine(i)
  <1>1. TypeOK /\ intent \in [Intents -> IntentStates]
    BY Zenon DEF IInv, TypeOK
  <1>2. ASSUME UNCHANGED intent PROVE WalksStateMachine(i)
    BY Zenon, <1>2 DEF WalksStateMachine
  <1>3. ASSUME NEW j \in Intents, EnqueueSagaRun(j) \/ BackoffElapses(j) \/ LeaseExpires(j)
        PROVE  WalksStateMachine(i)
    BY Zenon, <1>2, <1>3 DEF EnqueueSagaRun, BackoffElapses, LeaseExpires
  <1>4. ASSUME NEW w \in Workers, Commit(w) PROVE WalksStateMachine(i)
    <2>1. run[w].intent \in Intents /\ run[w].step \in Steps
      BY Zenon, <1>1, <1>4 DEF IInv, WorkerOK, RunOK, Commit, TypeOK, Run
    <2>2. SagaAgrees(run[w].intent) /\ HoldsLease(w)
      BY Zenon, <2>1 DEF Leased
    <2>3. intent[run[w].intent] = From(run[w].step) /\ tx[w].intent = To(run[w].step)
      BY Zenon, <1>4, <2>2 DEF SagaAgrees, HoldsLease, Commit
    <2>4. intent' = [intent EXCEPT ![run[w].intent] = To(run[w].step)]
      BY Zenon, <1>4, <2>1, <2>3, MovesChain DEF Commit, Apply
    <2>5. CASE i = run[w].intent
      <3>1. intent[i] = From(run[w].step) /\ intent'[i] = To(run[w].step)
        BY Zenon, <1>1, <2>3, <2>4, <2>5
      <3>2. \E n \in 1..4 : From(run[w].step) = IntentOrder[n] /\ To(run[w].step) = IntentOrder[n + 1]
        BY Zenon, <2>1, MovesChain
      <3> QED BY Zenon, <3>1, <3>2 DEF WalksStateMachine
    <2>6. CASE i # run[w].intent
      BY Zenon, <1>1, <2>4, <2>6 DEF WalksStateMachine
    <2> QED BY Zenon, <2>5, <2>6
  <1>5. ASSUME NEW w \in Workers, Advance(w) \/ Fault(w) PROVE WalksStateMachine(i)
    <2>1. ~CommitUnacknowledged(w)
      BY Zenon, <1>1, DisturbingSteps
    <2>2. ASSUME UNCHANGED db PROVE UNCHANGED intent
      BY Zenon, <2>2 DEF db
    <2> QED BY Zenon, <1>2, <1>4, <1>5, <2>1, <2>2
            DEF Advance, Fault, ClaimDueSagaRun, Load, LookupEntry, InsertEntry, UpsertPayout,
                SubmitPayout, RejectPayout, UpdateIntent, RecordFailure, SubmitUnanswered,
                StepError, Crash
  <1>6. CASE UNCHANGED vars
    BY Zenon, <1>2, <1>6 DEF vars, db
  <1> QED BY Zenon, <1>3, <1>5, <1>6 DEF Next

\* As long as no lease ran out under its worker and every commit was
\* acknowledged, intents walk their state machine one state at a time,
\* completed and failed sagas stay as they are, and every event says the
\* intent is completed, although the statements that advance, retry or fail
\* a saga look at neither its owner nor its state.
THEOREM StateMachineIfUndisturbedHolds == Spec => StateMachineIfUndisturbed
  <1> DEFINE Walk == \A i \in Intents :
               /\ WalksStateMachine(i)
               /\ saga[i].state \in {"completed", "failed"} => saga'[i] = saga[i]
               /\ \A n \in 1..Len(outbox'[i]) : outbox'[i][n] = "completed"
  <1>1. ASSUME IInv, LeaseInv, LeaseInv', [Next]_vars, Undisturbed' PROVE Walk
    <2>1. Leased
      BY Zenon, <1>1, StaysDisturbed, LeaseInvIsLeased DEF IInv
    <2>2. ASSUME NEW i \in Intents PROVE SagaAgrees(i)'
      BY Zenon, <1>1 DEF LeaseInv
    <2> QED BY Zenon, <1>1, <2>1, <2>2, RestingSaga, IntentWalks DEF SagaAgrees
  <1>2. IInv /\ LeaseInv /\ LeaseInv' /\ [Next]_vars => [Undisturbed' => Walk]_<<intent, saga, outbox>>
    BY Zenon, <1>1
  <1> QED BY <1>2, Invariance, LeaseInvariance, PTL DEF Spec, StateMachineIfUndisturbed

\* All the invariants of settlement together hold in every reachable state.
THEOREM InductiveHolds == Spec => []Inductive
  <1>1. Init => OnceInv /\ LockInv
    <2>1. Init => OnceInv
      BY DEF Init, OnceInv, EmptyTx, NoPayout
    <2>2. Init => LockInv
      BY Zenon, EmptyTxHoldsNothing DEF Init, LockInv, LockOK
    <2> QED BY Zenon, <2>1, <2>2
  <1>2. IInv /\ OnceInv /\ LockInv /\ [Next]_vars => OnceInv' /\ LockInv'
    BY Zenon, OnceNext, LockNext
  <1>3. IInv /\ OnceInv /\ LockInv /\ LeaseInv => Inductive
    BY Zenon DEF Inductive
  <1> QED BY <1>1, <1>2, <1>3, Invariance, LeaseInvariance, PTL DEF Spec

=============================================================================
