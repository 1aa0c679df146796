--------------------------- MODULE SettlementInv ---------------------------
(***************************************************************************)
(* The inductive invariant behind the safety properties of Settlement.     *)
(* The properties speak of committed rows; to carry them through a step    *)
(* one has to say what each open transaction holds and what its worker may *)
(* rely on at every program counter.                                       *)
(***************************************************************************)
EXTENDS Settlement

Paid(i) == [intent |-> i, verdict |-> "paid"]

Legs == {"fx_swap_usdc", "payout_disbursed"}

\* The entries the worker's intent will have once w commits.
Entries(w) == journal[run[w].intent] \cup tx[w].entries

\* The committed rows of one intent: its saga stands where its effects allow,
\* both payout legs are booked or neither, a payouts row is a success the
\* bank knows under that id, and an event or a completed saga comes last.
IntentOK(i) ==
  /\ Prerequisites(saga[i].step, i)
  /\ Legs \cap journal[i] # {} => Legs \subseteq journal[i] /\ payout[i].state = "succeeded"
  /\ \/ payout[i] = NoPayout
     \/ payout[i].state = "succeeded" /\ payout[i].id \in Keys /\ bank[payout[i].id] = Paid(i)
  /\ outbox[i] # <<>> => Legs \subseteq journal[i]
  /\ saga[i].state = "completed" => outbox[i] # <<>>

\* A working worker has claimed a saga and its step's prerequisites hold;
\* outside a step and before its first write its transaction is empty.
RunOK(w) ==
  /\ pc[w] # "idle" => run[w].intent \in Intents /\ Prerequisites(run[w].step, run[w].intent)
  /\ pc[w] \in {"idle", "load", "retry", "fail"} => tx[w] = EmptyTx

\* The journal part of a transaction, by step and program counter.
EntriesOK(w) ==
  /\ tx[w].entries # {} => run[w].step \in {"credit_deposit", "apply_payout_result"}
  /\ run[w].step = "credit_deposit" => tx[w].entries \subseteq {"credit_deposit"}
  /\ pc[w] \in {"lookup", "insert"} =>
       \/ run[w].step = "credit_deposit" /\ tx[w].post = "credit_deposit"
       \/ run[w].step = "apply_payout_result" /\ tx[w].post = "fx_swap_usdc"
       \/ /\ run[w].step = "apply_payout_result" /\ tx[w].post = "payout_disbursed"
          /\ "fx_swap_usdc" \in Entries(w)
  /\ pc[w] \in {"intent", "commit"} =>
       /\ run[w].step = "credit_deposit" => "credit_deposit" \in Entries(w)
       /\ run[w].step = "apply_payout_result" => Legs \subseteq Entries(w)

\* The payout part: only trigger_payout touches it; up to the rail call the
\* row is new and its id unknown to the bank; what is about to be committed
\* has been paid.
TxPayoutOK(w) ==
  /\ tx[w].payout.state = "none" <=> tx[w].payout.id = None
  /\ pc[w] \in {"upsert", "submit", "reject"} => run[w].step = "trigger_payout"
  /\ tx[w].payout.state # "none" => run[w].step = "trigger_payout"
  /\ pc[w] = "upsert" => tx[w].payout.state = "none"
  /\ pc[w] = "submit" => tx[w].payout.state = "pending" /\ bank[tx[w].payout.id].verdict = "none"
  /\ pc[w] \in {"intent", "commit"} /\ run[w].step = "trigger_payout" =>
       tx[w].payout.state = "succeeded" /\ bank[tx[w].payout.id] = Paid(run[w].intent)

\* Only emit_completed publishes, and it has published before it commits.
TxEventOK(w) ==
  /\ tx[w].event # "none" => run[w].step = "emit_completed"
  /\ pc[w] = "commit" /\ run[w].step = "emit_completed" => tx[w].event # "none"

WorkerOK(w) == RunOK(w) /\ EntriesOK(w) /\ TxPayoutOK(w) /\ TxEventOK(w)

\* An id belongs to one open transaction or one intent.
KeysDistinct ==
  /\ \A v, w \in Workers :
       v # w /\ tx[v].payout.id # None => tx[v].payout.id # tx[w].payout.id
  /\ \A w \in Workers, i \in Intents :
       payout[i].id # None /\ tx[w].payout.id = payout[i].id => run[w].intent = i

\* The bank has paid only intents whose deposit is credited.
BankOK ==
  \A k \in Keys : bank[k].verdict = "paid" =>
    bank[k].intent \in Intents /\ "credit_deposit" \in journal[bank[k].intent]

\* The inductive invariant: Init implies it, every step of Next keeps it, and
\* it implies StepsFollowEffects, DisbursedOnlyIfCredited, BooksMatchBank,
\* AnnouncedOnlyIfBooked and OnlySucceededPayoutsCommit.
IInv ==
  /\ TypeOK
  /\ \A i \in Intents : IntentOK(i)
  /\ \A w \in Workers : WorkerOK(w)
  /\ SerializedSubmission
  /\ KeysDistinct
  /\ BankOK

\* Every payment is recorded or about to be: its id is that of the committed
\* payouts row, or of a transaction that is past its rail call.
PastCall == {"intent", "commit"}

Tracked(k) ==
  \/ payout[bank[k].intent].id = k
  \/ \E w \in Workers :
       run[w].intent = bank[k].intent /\ tx[w].payout.id = k /\ pc[w] \in PastCall

\* Behind PaidOnceIfAnswered: as long as every call is answered and no step
\* breaks off, no payment is forgotten; and an open transaction holds the
\* committed payouts row whenever there is one.
OnceInv ==
  /\ lost = 0 /\ crashes = 0 => \A k \in Keys : bank[k].verdict = "paid" => Tracked(k)
  /\ \A w \in Workers :
       tx[w].payout.id # None /\ payout[run[w].intent].id # None
       => tx[w].payout.id = payout[run[w].intent].id

\* Behind NoLockCycle: which rows a transaction may hold at each program
\* counter.  The intent row is written last, and while an entry is being
\* posted the only one already held is the USDC leg, under the IDR leg.
LockOK(w) ==
  /\ tx[w].intent # "none" => pc[w] = "commit"
  /\ tx[w].payout.state # "none" => pc[w] \in {"submit", "reject", "intent", "commit"}
  /\ tx[w].entries # {} => pc[w] \in {"lookup", "insert", "intent", "commit"}
  /\ pc[w] \in {"lookup", "insert"} =>
       tx[w].entries \subseteq IF tx[w].post = "payout_disbursed" THEN {"fx_swap_usdc"} ELSE {}

LockInv == \A w \in Workers : LockOK(w)

\* The saga row and the intent row agree; a saga at rest is not due later and
\* has no lease; every event says completed.
SagaAgrees(i) ==
  /\ intent[i] = IF saga[i].state = "completed" THEN "completed" ELSE From(saga[i].step)
  /\ saga[i].state = "none" => saga[i].step = "credit_deposit"
  /\ saga[i].state \in {"running", "completed", "failed"} => saga[i].next_run = "due"
  /\ saga[i].state \in {"completed", "failed"} => saga[i].lease = "none"
  /\ \A n \in 1..Len(outbox[i]) : outbox[i][n] = "completed"

\* A worker at work holds the lease of a running saga at the step it claimed,
\* the state it loaded is the one its step moves from, and what it is about
\* to commit is the move.
HoldsLease(w) ==
  /\ pc[w] # "idle" => /\ saga[run[w].intent].state = "running"
                       /\ saga[run[w].intent].lease = "held"
                       /\ saga[run[w].intent].step = run[w].step
  /\ pc[w] \in InTx \ {"load"} => seen[w] = From(run[w].step)
  /\ pc[w] = "commit" => tx[w].intent = To(run[w].step) /\ tx[w].event \in {"none", "completed"}

\* Behind OneWorkerPerSaga and StateMachineIfUndisturbed.
LeaseInv ==
  /\ OneWorkerPerSaga
  /\ Undisturbed => (\A i \in Intents : SagaAgrees(i)) /\ (\A w \in Workers : HoldsLease(w))

\* All of them, for model checking: the steps of two workers on two intents
\* keep committed rows, open transactions, locks, leases and payments in
\* agreement.
Inductive == IInv /\ OnceInv /\ LockInv /\ LeaseInv

=============================================================================
