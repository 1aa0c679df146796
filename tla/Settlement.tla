----------------------------- MODULE Settlement -----------------------------
(***************************************************************************)
(* The settlement saga of selatpay: the runner (internal/saga), its four   *)
(* steps (internal/saga/steps), the payouts and saga_runs tables, the      *)
(* journal as far as the steps use it, and the bank rail.                  *)
(*                                                                         *)
(* Every worker interleaves at the granularity of SQL statements.  A step  *)
(* transaction runs at READ COMMITTED: a statement sees what is committed  *)
(* plus the transaction's own writes (tx), and a write of a row or of a    *)
(* unique key waits for the transaction that already wrote it.  The saga   *)
(* row is always the last row a step writes, so that statement and the     *)
(* commit are one action.  Claim, retry and fail are statements of their   *)
(* own, outside the step transaction, as in the code.                      *)
(*                                                                         *)
(* One saga exists per intent, so a saga is named by its intent.           *)
(***************************************************************************)
EXTENDS Integers, Sequences

CONSTANTS
  Intents,       \* payment intents
  Workers,       \* saga runners (orchestrator replicas)
  Keys,          \* payout ids; the id is the bank's idempotency key
  None,          \* absent payout id, absent intent
  BankDetails,   \* intents whose merchant has complete bank details
  NonNegSpread,  \* intents whose quote leaves mid IDR >= paid IDR
  MaxAttempts,   \* Config.MaxAttempts
  MaxCrashes,    \* bound: crashes and SQL errors
  MaxUnacked,    \* bound: commits whose acknowledgement is lost
  MaxLost,       \* bound: rail calls whose reply never arrives
  MaxStale       \* bound: leases that run out under a live worker

ASSUME SettlementAssumption ==
  /\ BankDetails \subseteq Intents
  /\ NonNegSpread \subseteq Intents
  /\ None \notin Keys
  /\ None \notin Intents
  /\ MaxAttempts \in Nat \ {0}
  /\ MaxCrashes \in Nat
  /\ MaxUnacked \in Nat
  /\ MaxLost \in Nat
  /\ MaxStale \in Nat

VARIABLES
  saga,      \* saga_runs, by intent
  intent,    \* payment_intents.state
  payout,    \* payouts, by intent
  journal,   \* kinds of journal entries committed for the intent
  outbox,    \* intent.completed rows: the State each event carries
  bank,      \* what the bank did under each idempotency key
  pc,        \* where each worker is
  run,       \* the Run each worker claimed
  seen,      \* intent.State as loaded at the start of the step
  tx,        \* uncommitted writes of each worker's step transaction
  crashes, unacked, lost, stale   \* faults spent so far

db == <<saga, intent, payout, journal, outbox>>
worker == <<pc, run, seen, tx>>
faults == <<crashes, unacked, lost, stale>>
vars == <<db, bank, worker, faults>>

-----------------------------------------------------------------------------

Steps == {"credit_deposit", "trigger_payout", "apply_payout_result", "emit_completed"}
EntryKinds == {"credit_deposit", "fx_swap_usdc", "payout_disbursed"}
IntentStates == {"pending", "funded", "settling", "paid_out", "completed", "failed"}
PayoutStates == {"none", "pending", "submitting", "succeeded", "failed"}
Verdicts == {"none", "paid", "rejected", "unavailable"}

\* Mutant: trigger_payout hands over to emit_completed.
NextStepSkips(step) ==
  CASE step = "credit_deposit"      -> "trigger_payout"
    [] step = "trigger_payout"      -> "emit_completed"
    [] step = "apply_payout_result" -> "emit_completed"

NextStep(step) ==
  CASE step = "credit_deposit"      -> "trigger_payout"
    [] step = "trigger_payout"      -> "apply_payout_result"
    [] step = "apply_payout_result" -> "emit_completed"

\* The intent state a step moves from and to; a step that loaded another
\* state leaves the row alone.
From(step) ==
  CASE step = "credit_deposit"      -> "pending"
    [] step = "trigger_payout"      -> "funded"
    [] step = "apply_payout_result" -> "settling"
    [] step = "emit_completed"      -> "paid_out"

\* Mutant: trigger_payout already reports the intent paid out.
ToPaidOutEarly(step) ==
  CASE step = "credit_deposit"      -> "funded"
    [] step = "trigger_payout"      -> "paid_out"
    [] step = "apply_payout_result" -> "paid_out"
    [] step = "emit_completed"      -> "completed"

To(step) ==
  CASE step = "credit_deposit"      -> "funded"
    [] step = "trigger_payout"      -> "settling"
    [] step = "apply_payout_result" -> "paid_out"
    [] step = "emit_completed"      -> "completed"

\* The journal entries a step posts, in order.
FirstEntry(step) ==
  CASE step = "credit_deposit"      -> "credit_deposit"
    [] step = "apply_payout_result" -> "fx_swap_usdc"
    [] OTHER                        -> "none"

\* Mutant: the IDR leg is forgotten.
EntryAfterNothing(kind) == "none"

EntryAfter(kind) == IF kind = "fx_swap_usdc" THEN "payout_disbursed" ELSE "none"

NoPayout == [id |-> None, state |-> "none"]

\* post: the entry to post next.  entries, payout, intent, event: the rows
\* the transaction has written ("none": it has not written that row).
EmptyTx == [post |-> "none", entries |-> {}, payout |-> NoPayout,
            intent |-> "none", event |-> "none"]

NoRun == [intent |-> None, step |-> "credit_deposit", attempts |-> 0]

\* Mutant: the saga is enqueued at the payout.
NoSagaAtPayout == [state |-> "none", step |-> "trigger_payout", attempts |-> 0,
                   lease |-> "none", next_run |-> "due"]

\* saga_runs.next_run_at is reduced to past or future, lease_until to whether it
\* is unset, in the future ("held") or in the past ("expired").
NoSaga == [state |-> "none", step |-> "credit_deposit", attempts |-> 0,
           lease |-> "none", next_run |-> "due"]

InTx == {"load", "upsert", "submit", "reject", "lookup", "insert", "intent", "commit"}
Failing == {"retry", "fail"}
PCs == {"idle"} \cup InTx \cup Failing

Busy(i) == \E w \in Workers : pc[w] # "idle" /\ run[w].intent = i

Init ==
  /\ saga = [i \in Intents |-> NoSaga]
  /\ intent = [i \in Intents |-> "pending"]
  /\ payout = [i \in Intents |-> NoPayout]
  /\ journal = [i \in Intents |-> {}]
  /\ outbox = [i \in Intents |-> <<>>]
  /\ bank = [k \in Keys |-> [intent |-> None, verdict |-> "none"]]
  /\ pc = [w \in Workers |-> "idle"]
  /\ run = [w \in Workers |-> NoRun]
  /\ seen = [w \in Workers |-> "pending"]
  /\ tx = [w \in Workers |-> EmptyTx]
  /\ crashes = 0 /\ unacked = 0 /\ lost = 0 /\ stale = 0

-----------------------------------------------------------------------------
(* The watcher and time.                                                   *)

\* The watcher's transaction that finalizes the deposit also inserts the
\* saga row; a second deposit finds the row and leaves it as it is.
EnqueueSagaRun(i) ==
  /\ saga[i].state = "none"
  /\ saga' = [saga EXCEPT ![i] = [NoSaga EXCEPT !.state = "pending"]]
  /\ UNCHANGED <<intent, payout, journal, outbox, bank, worker, faults>>

BackoffElapses(i) ==
  /\ saga[i].next_run = "later"
  /\ saga' = [saga EXCEPT ![i].next_run = "due"]
  /\ UNCHANGED <<intent, payout, journal, outbox, bank, worker, faults>>

\* lease_until passes.  Under a live worker this is a stall longer than the
\* lease; nothing tells the worker.
LeaseExpires(i) ==
  /\ saga[i].lease = "held"
  /\ saga' = [saga EXCEPT ![i].lease = "expired"]
  /\ IF Busy(i) THEN stale < MaxStale /\ stale' = stale + 1 ELSE stale' = stale
  /\ UNCHANGED <<intent, payout, journal, outbox, bank, worker, crashes, unacked, lost>>

-----------------------------------------------------------------------------
(* The runner.                                                             *)

\* Mutant: a live lease does not keep others out.
ClaimableLeased(i) ==
  /\ saga[i].state \in {"pending", "running"}
  /\ saga[i].next_run = "due"

\* Mutant: an expired lease still keeps others out.
ClaimableUnleased(i) ==
  /\ saga[i].state \in {"pending", "running"}
  /\ saga[i].next_run = "due"
  /\ saga[i].lease = "none"

Claimable(i) ==
  /\ saga[i].state \in {"pending", "running"}
  /\ saga[i].next_run = "due"
  /\ saga[i].lease # "held"

ClaimDueSagaRun(w, i) ==
  /\ pc[w] = "idle"
  /\ Claimable(i)
  /\ saga' = [saga EXCEPT ![i] = [@ EXCEPT !.state = "running", !.lease = "held"]]
  /\ run' = [run EXCEPT ![w] =
               [intent |-> i, step |-> saga[i].step, attempts |-> saga[i].attempts]]
  /\ pc' = [pc EXCEPT ![w] = "load"]
  /\ UNCHANGED <<intent, payout, journal, outbox, bank, seen, tx, faults>>

\* tx.Rollback: every write of the step is dropped.
Rollback(w, next) ==
  /\ tx' = [tx EXCEPT ![w] = EmptyTx]
  /\ pc' = [pc EXCEPT ![w] = next]

\* Mutant: the last step is advanced past instead of completed.
SagaAfterLast(w) ==
  [state |-> "pending",
   step |-> IF run[w].step = "emit_completed" THEN "" ELSE NextStep(run[w].step),
   attempts |-> 0, lease |-> "none", next_run |-> "due"]

\* The step's last statement, AdvanceSagaStep or CompleteSagaRun.  It names
\* the row by id only: neither the owner nor the state is looked at.
SagaAfter(w) ==
  LET row == saga[run[w].intent]
  IN  IF run[w].step = "emit_completed"
      THEN [row EXCEPT !.state = "completed", !.lease = "none"]
      ELSE [state |-> "pending", step |-> NextStep(run[w].step), attempts |-> 0,
            lease |-> "none", next_run |-> "due"]

\* Everything the transaction wrote becomes visible at once.  Its entries are
\* new ones (EntriesPostedOnce), so the union is as many inserts.
Apply(w) ==
  LET i == run[w].intent
  IN  /\ saga' = [saga EXCEPT ![i] = SagaAfter(w)]
      /\ intent' = IF tx[w].intent = "none" THEN intent
                   ELSE [intent EXCEPT ![i] = tx[w].intent]
      /\ payout' = IF tx[w].payout.state = "none" THEN payout
                   ELSE [payout EXCEPT ![i] = tx[w].payout]
      /\ journal' = [journal EXCEPT ![i] = @ \cup tx[w].entries]
      /\ outbox' = IF tx[w].event = "none" THEN outbox
                   ELSE [outbox EXCEPT ![i] = Append(@, tx[w].event)]

Commit(w) ==
  /\ pc[w] = "commit"
  /\ Apply(w)
  /\ Rollback(w, "idle")
  /\ UNCHANGED <<bank, run, seen, faults>>

\* The server commits and the acknowledgement is lost: Commit returns an
\* error, and the runner treats the step as failed.
CommitUnacknowledged(w) ==
  /\ pc[w] = "commit"
  /\ unacked < MaxUnacked
  /\ unacked' = unacked + 1
  /\ Apply(w)
  /\ Rollback(w, "retry")
  /\ UNCHANGED <<bank, run, seen, crashes, lost, stale>>

\* Any statement of the step may fail for a transient reason.
StepError(w) ==
  /\ pc[w] \in InTx
  /\ crashes < MaxCrashes
  /\ crashes' = crashes + 1
  /\ Rollback(w, "retry")
  /\ UNCHANGED <<db, bank, run, seen, unacked, lost, stale>>

\* The process dies and restarts; its transaction is rolled back and its
\* lease stays behind.  In a failing pc this is also the retry or fail
\* statement that errors and is only logged.
Crash(w) ==
  /\ pc[w] # "idle"
  /\ crashes < MaxCrashes
  /\ crashes' = crashes + 1
  /\ Rollback(w, "idle")
  /\ UNCHANGED <<db, bank, run, seen, unacked, lost, stale>>

FailSagaRun(i) ==
  saga' = [saga EXCEPT ![i] = [@ EXCEPT !.state = "failed", !.lease = "none"]]

ScheduleSagaRetry(i) ==
  saga' = [saga EXCEPT ![i] = [@ EXCEPT !.state = "pending", !.lease = "none",
                                           !.attempts = saga[i].attempts + 1, !.next_run = "later"]]

\* After the rollback, Tick records the failure in a statement of its own:
\* FailSagaRun for a terminal error or a spent attempt budget (counted from
\* the claimed row), ScheduleSagaRetry otherwise.
RecordFailure(w) ==
  /\ pc[w] \in Failing
  /\ IF pc[w] = "fail" \/ run[w].attempts + 1 >= MaxAttempts
     THEN FailSagaRun(run[w].intent)
     ELSE ScheduleSagaRetry(run[w].intent)
  /\ pc' = [pc EXCEPT ![w] = "idle"]
  /\ UNCHANGED <<intent, payout, journal, outbox, bank, run, seen, tx, faults>>

-----------------------------------------------------------------------------
(* Statements shared by the steps.                                         *)

\* Mutant: a transaction that is about to insert already holds off others.
EntryHeldAtInsert(v, w, kind) ==
  v # w /\ run[v].intent = run[w].intent /\ (kind \in tx[v].entries \/ pc[v] = "insert")

\* Mutant: external_ref has no unique key.
EntryNotHeld(v, w, kind) == FALSE

\* v's open transaction has written the row or the unique key that w is about
\* to write.
EntryHeld(v, w, kind) ==
  v # w /\ run[v].intent = run[w].intent /\ kind \in tx[v].entries

IntentHeld(v, w) ==
  v # w /\ run[v].intent = run[w].intent /\ tx[v].intent # "none"

\* Mutant: payouts has no unique key on intent_id.
PayoutNotHeld(v, w) == FALSE

PayoutHeld(v, w) ==
  v # w /\ run[v].intent = run[w].intent /\ tx[v].payout.state # "none"

\* The reads a step begins with.  Merchant, quote and deposit rows do not
\* change any more, the intent's state does.
Load(w) ==
  LET i == run[w].intent
      s == run[w].step
      next == CASE s = "trigger_payout" -> IF i \in BankDetails THEN "upsert" ELSE "fail"
                [] s = "emit_completed" -> "intent"
                [] s = "apply_payout_result" ->
                     IF payout[i].state = "succeeded" /\ i \in NonNegSpread
                     THEN "lookup" ELSE "fail"
                [] OTHER -> "lookup"
  IN  /\ pc[w] = "load"
      /\ pc' = [pc EXCEPT ![w] = next]
      /\ seen' = [seen EXCEPT ![w] = intent[i]]
      /\ tx' = IF next = "fail" THEN tx ELSE [tx EXCEPT ![w].post = FirstEntry(s)]
      /\ UNCHANGED <<db, bank, run, faults>>

\* The entry is on the books or in the transaction: go to the next one.
Posted(w) ==
  pc' = [pc EXCEPT ![w] = IF EntryAfter(tx[w].post) = "none" THEN "intent" ELSE "lookup"]

\* PostTx, first statement: an entry that exists is returned as it is.
LookupEntry(w) ==
  /\ pc[w] = "lookup"
  /\ IF tx[w].post \in journal[run[w].intent]
     THEN /\ tx' = [tx EXCEPT ![w].post = EntryAfter(tx[w].post)]
          /\ Posted(w)
     ELSE /\ pc' = [pc EXCEPT ![w] = "insert"]
          /\ UNCHANGED tx
  /\ UNCHANGED <<db, bank, run, seen, faults>>

\* PostTx, insert: waits for a transaction that inserted the same
\* external_ref, and fails with a unique violation once that one committed.
InsertEntry(w) ==
  /\ pc[w] = "insert"
  /\ \A v \in Workers : ~EntryHeld(v, w, tx[w].post)
  /\ IF tx[w].post \in journal[run[w].intent]
     THEN Rollback(w, "retry")
     ELSE /\ tx' = [tx EXCEPT ![w] = [@ EXCEPT !.entries = tx[w].entries \cup {tx[w].post},
                                                  !.post = EntryAfter(tx[w].post)]]
          /\ Posted(w)
  /\ UNCHANGED <<db, bank, run, seen, faults>>

\* UpdatePaymentIntentState, guarded only by the state loaded at the start of
\* the step.
Moves(w) == seen[w] = From(run[w].step)

\* Mutant: the event is not published.
EventForgotten(w) == "none"

\* The event emit_completed publishes carries the updated row's state.
Event(w) ==
  IF run[w].step # "emit_completed" THEN "none"
  ELSE IF Moves(w) THEN To(run[w].step) ELSE seen[w]

UpdateIntent(w) ==
  /\ pc[w] = "intent"
  /\ Moves(w) => \A v \in Workers : ~IntentHeld(v, w)
  /\ tx' = [tx EXCEPT ![w] = [@ EXCEPT !.intent = IF Moves(w) THEN To(run[w].step) ELSE "none",
                                          !.event = Event(w)]]
  /\ pc' = [pc EXCEPT ![w] = "commit"]
  /\ UNCHANGED <<db, bank, run, seen, faults>>

-----------------------------------------------------------------------------
(* trigger_payout.                                                         *)

\* gen_random_uuid never repeats an id; ids are interchangeable, so which
\* unused one is taken does not matter.  Keys bounds how many there are.
Fresh(k) ==
  /\ bank[k].verdict = "none"
  /\ \A i \in Intents : payout[i].id # k
  /\ \A w \in Workers : tx[w].payout.id # k

NewPayoutId == CHOOSE k \in Keys : Fresh(k)

\* Mutant: every attempt inserts a row of its own.
UpsertPayoutAnew(w) ==
  /\ pc[w] = "upsert"
  /\ \A v \in Workers : ~PayoutHeld(v, w)
  /\ \E k \in Keys : Fresh(k)
  /\ tx' = [tx EXCEPT ![w].payout = [id |-> NewPayoutId, state |-> "pending"]]
  /\ pc' = [pc EXCEPT ![w] = "submit"]
  /\ UNCHANGED <<db, bank, run, seen, faults>>

\* INSERT ... ON CONFLICT (intent_id) DO UPDATE: waits for a transaction that
\* holds the intent's payout row, then locks the committed row or inserts one.
UpsertPayout(w) ==
  LET i == run[w].intent
      row == IF payout[i].state = "none" THEN [id |-> NewPayoutId, state |-> "pending"]
             ELSE payout[i]
      next == IF payout[i].state = "succeeded" THEN "intent" ELSE "submit"
  IN  /\ pc[w] = "upsert"
      /\ \A v \in Workers : ~PayoutHeld(v, w)
      /\ payout[i].state = "none" => \E k \in Keys : Fresh(k)
      /\ IF payout[i].state = "failed" THEN Rollback(w, "fail")
         ELSE /\ tx' = [tx EXCEPT ![w].payout = row]
              /\ pc' = [pc EXCEPT ![w] = next]
      /\ UNCHANGED <<db, bank, run, seen, faults>>

\* The bank answers a key it knows with the answer it gave before, and
\* decides once for a key it does not know.
Decides(k, v) ==
  v \in IF bank[k].verdict = "none" THEN Verdicts \ {"none"} ELSE {bank[k].verdict}

BankHandles(w, v) ==
  LET k == tx[w].payout.id
  IN  /\ Decides(k, v)
      /\ bank' = [bank EXCEPT ![k] = IF @.verdict # "none" THEN @
                                     ELSE [intent |-> run[w].intent, verdict |-> v]]

\* Mutant: a 5xx answer counts as accepted.
OutcomeOptimistic(v) == IF v = "rejected" THEN "permanent" ELSE "success"

\* Submit maps the bank's status code to an outcome: 2xx, 4xx, 5xx.
Outcome(v) ==
  CASE v = "paid"        -> "success"
    [] v = "rejected"    -> "permanent"
    [] v = "unavailable" -> "retry"

\* MarkPayoutSubmitting, rail.Submit, and what follows by outcome: success is
\* marked, a rejection is marked and the intent is next, a transient answer
\* resets the row and returns an error.
SubmitPayout(w, v) ==
  /\ pc[w] = "submit"
  /\ BankHandles(w, v)
  /\ \/ /\ Outcome(v) = "success"
        /\ tx' = [tx EXCEPT ![w].payout = [@ EXCEPT !.state = "succeeded"]]
        /\ pc' = [pc EXCEPT ![w] = "intent"]
     \/ /\ Outcome(v) = "permanent"
        /\ tx' = [tx EXCEPT ![w].payout = [@ EXCEPT !.state = "failed"]]
        /\ pc' = [pc EXCEPT ![w] = "reject"]
     \/ /\ Outcome(v) = "retry"
        /\ Rollback(w, "retry")
  /\ UNCHANGED <<db, run, seen, faults>>

\* The request lands or not, and no reply arrives: OutcomeRetry.
SubmitUnanswered(w) ==
  /\ pc[w] = "submit"
  /\ lost < MaxLost
  /\ lost' = lost + 1
  /\ \/ \E v \in Verdicts : BankHandles(w, v)
     \/ UNCHANGED bank
  /\ Rollback(w, "retry")
  /\ UNCHANGED <<db, run, seen, crashes, unacked, stale>>

\* After MarkPayoutFailed: the intent is set to failed, and the step returns
\* a Terminal error, which rolls the transaction back.
RejectPayout(w) ==
  /\ pc[w] = "reject"
  /\ \A v \in Workers : ~IntentHeld(v, w)
  /\ Rollback(w, "fail")
  /\ UNCHANGED <<db, bank, run, seen, faults>>

-----------------------------------------------------------------------------

Advance(w) ==
  \/ \E i \in Intents : ClaimDueSagaRun(w, i)
  \/ Load(w)
  \/ LookupEntry(w)
  \/ InsertEntry(w)
  \/ UpsertPayout(w)
  \/ \E v \in Verdicts : SubmitPayout(w, v)
  \/ RejectPayout(w)
  \/ UpdateIntent(w)
  \/ Commit(w)
  \/ RecordFailure(w)

Fault(w) ==
  \/ SubmitUnanswered(w)
  \/ CommitUnacknowledged(w)
  \/ StepError(w)
  \/ Crash(w)

Next ==
  \/ \E i \in Intents : EnqueueSagaRun(i) \/ BackoffElapses(i) \/ LeaseExpires(i)
  \/ \E w \in Workers : Advance(w) \/ Fault(w)

Spec == Init /\ [][Next]_vars

\* Workers poll, Postgres and the bank answer, and time passes.  Neither
\* deposits nor faults are promised.
Fairness ==
  /\ \A w \in Workers : WF_vars(Advance(w))
  /\ \A i \in Intents : WF_vars(BackoffElapses(i)) /\ WF_vars(~Busy(i) /\ LeaseExpires(i))

FairSpec == Spec /\ Fairness

-----------------------------------------------------------------------------
(* Properties.                                                             *)

SagaRow == [state: {"none", "pending", "running", "completed", "failed"},
            step: Steps, attempts: Nat, lease: {"none", "held", "expired"},
            next_run: {"due", "later"}]
PayoutRow == [id: Keys \cup {None}, state: PayoutStates]
BankRow == [intent: Intents \cup {None}, verdict: Verdicts]
Run == [intent: Intents \cup {None}, step: Steps, attempts: Nat]
Tx == [post: EntryKinds \cup {"none"}, entries: SUBSET EntryKinds, payout: PayoutRow,
       intent: IntentStates \cup {"none"}, event: IntentStates \cup {"none"}]

\* Every table row and every worker's local state has the shape the schema
\* and the Go types give it, and no fault budget is overdrawn.
TypeOK ==
  /\ saga \in [Intents -> SagaRow]
  /\ intent \in [Intents -> IntentStates]
  /\ payout \in [Intents -> PayoutRow]
  /\ journal \in [Intents -> SUBSET EntryKinds]
  /\ outbox \in [Intents -> Seq(IntentStates)]
  /\ bank \in [Keys -> BankRow]
  /\ pc \in [Workers -> PCs]
  /\ run \in [Workers -> Run]
  /\ seen \in [Workers -> IntentStates]
  /\ tx \in [Workers -> Tx]
  /\ crashes \in 0..MaxCrashes /\ unacked \in 0..MaxUnacked
  /\ lost \in 0..MaxLost /\ stale \in 0..MaxStale

\* What must have been committed before a step may run.
Prerequisites(step, i) ==
  /\ step # "credit_deposit" => "credit_deposit" \in journal[i]
  /\ step \in {"apply_payout_result", "emit_completed"} => payout[i].state = "succeeded"
  /\ step = "emit_completed" => {"fx_swap_usdc", "payout_disbursed"} \subseteq journal[i]

\* executeStep commits a step's effects and the saga's advance together, and
\* no effect is ever undone: whatever step a saga row or a worker (even one
\* whose lease ran out) stands at, everything the steps before it promise is
\* in the tables.
StepsFollowEffects ==
  /\ \A i \in Intents : Prerequisites(saga[i].step, i)
  /\ \A w \in Workers : pc[w] # "idle" => Prerequisites(run[w].step, run[w].intent)

\* The bank never pays a merchant whose deposit credit is not on the books,
\* whatever crashes, lost replies and stale workers do to trigger_payout.
DisbursedOnlyIfCredited ==
  \A k \in Keys : bank[k].verdict = "paid" => "credit_deposit" \in journal[bank[k].intent]

\* apply_payout_result books both legs or neither, and only for a payout the
\* bank has executed under the very id the payouts row holds.
BooksMatchBank ==
  \A i \in Intents :
    /\ "payout_disbursed" \in journal[i] <=> "fx_swap_usdc" \in journal[i]
    /\ payout[i].state = "succeeded" => bank[payout[i].id] = [intent |-> i, verdict |-> "paid"]
    /\ "payout_disbursed" \in journal[i] => payout[i].state = "succeeded"

\* The merchant is told of a settlement only when both legs are booked, and a
\* saga that says completed has left its event in the outbox.
AnnouncedOnlyIfBooked ==
  \A i \in Intents :
    /\ outbox[i] # <<>> => {"fx_swap_usdc", "payout_disbursed"} \subseteq journal[i]
    /\ saga[i].state = "completed" => outbox[i] # <<>>

\* The unique key on payouts.intent_id serializes rail calls: two workers never
\* hold a payout row of one intent, not even after a lease ran out.
SerializedSubmission ==
  \A v, w \in Workers :
    /\ v # w /\ run[v].intent = run[w].intent
    => tx[v].payout.state = "none" \/ tx[w].payout.state = "none"

\* journal_entries.external_ref is unique: whatever stale workers do, no kind of
\* entry is inserted for an intent twice.  The set `journal` could not show a
\* second insert, so it is looked for where it would be made: an open
\* transaction holds no entry that is committed or that another one holds.
EntriesPostedOnce ==
  \A w \in Workers : pc[w] # "idle" =>
    /\ tx[w].entries \cap journal[run[w].intent] = {}
    /\ \A v \in Workers : v # w /\ run[v].intent = run[w].intent =>
         tx[v].entries \cap tx[w].entries = {}

\* No committed payouts row is ever pending, submitting or failed.
OnlySucceededPayoutsCommit ==
  \A i \in Intents : payout[i].state \in {"none", "succeeded"}

\* w's next statement waits for v's transaction to end.
WaitsFor(w, v) ==
  \/ pc[w] = "insert" /\ EntryHeld(v, w, tx[w].post)
  \/ pc[w] = "upsert" /\ PayoutHeld(v, w)
  \/ (pc[w] = "reject" \/ (pc[w] = "intent" /\ Moves(w))) /\ IntentHeld(v, w)

\* Row locks never close a cycle, although the steps lock journal keys, the
\* payouts row and the intent in different orders: among any workers, one
\* waits for none of the others.
NoLockCycle ==
  \A S \in SUBSET Workers : S # {} => \E w \in S : \A v \in S : ~WaitsFor(w, v)

\* The promise, read off the tables and the bank.
Credited == {i \in Intents : "credit_deposit" \in journal[i]}
Disbursed == {i \in Intents : \E k \in Keys : bank[k] = [intent |-> i, verdict |-> "paid"]}
Confirmed == {i \in Intents : payout[i].state = "succeeded"}
Booked == {i \in Intents : {"fx_swap_usdc", "payout_disbursed"} \subseteq journal[i]}
Announced == {i \in Intents : outbox[i] # <<>>}

P == INSTANCE SettlementPromise WITH
       credited <- Credited, disbursed <- Disbursed, confirmed <- Confirmed,
       booked <- Booked, announced <- Announced

\* Every step of the runner, the saga steps and the bank is a step of the
\* promise or invisible to it: credit, disbursement, confirmation, booking
\* and announcement come in that order, one per step, and none is undone.
KeepsPromise == P!Spec

\* One intent is disbursed once.
AtMostOneDisbursement ==
  \A k, l \in Keys :
    bank[k].verdict = "paid" /\ bank[l].verdict = "paid" /\ bank[k].intent = bank[l].intent
    => k = l

\* Unless a rail call went unanswered or a step broke off after it, one
\* intent is disbursed once, even when a lease runs out and two workers run
\* trigger_payout: the second waits for the first one's payouts row.
PaidOnceIfAnswered ==
  lost = 0 /\ crashes = 0 => AtMostOneDisbursement

\* Every lease has outlasted its steps and every commit was acknowledged.
Undisturbed == stale = 0 /\ unacked = 0

\* The lease alone keeps a second worker away from a saga, across crashes,
\* errors and lost replies, until it runs out or a commit is in doubt.
OneWorkerPerSaga ==
  Undisturbed =>
    \A v, w \in Workers :
      v # w /\ pc[v] # "idle" /\ pc[w] # "idle" => run[v].intent # run[w].intent

IntentOrder == <<"pending", "funded", "settling", "paid_out", "completed">>

WalksStateMachine(i) ==
  intent'[i] # intent[i] =>
    \E n \in 1..4 : intent[i] = IntentOrder[n] /\ intent'[i] = IntentOrder[n + 1]

\* An intent moves along pending, funded, settling, paid_out, completed, one
\* state at a time and never back.
IntentFollowsStateMachine == [][\A i \in Intents : WalksStateMachine(i)]_intent

\* As long as nobody else ran the saga meanwhile, the guard on the state a
\* step loaded keeps intents on their state machine, a saga row that says
\* completed or failed does not change any more, although the statements that
\* advance, retry or fail a saga do not look at its state, and every event
\* says the intent is completed, those of a step that ran again included.
StateMachineIfUndisturbed ==
  [][Undisturbed' => \A i \in Intents :
       /\ WalksStateMachine(i)
       /\ saga[i].state \in {"completed", "failed"} => saga'[i] = saga[i]
       /\ \A n \in 1..Len(outbox'[i]) : outbox'[i][n] = "completed"]_<<intent, saga, outbox>>

\* A payout the bank rejected leaves its intent failed when the saga stops.
RejectionFailsIntent ==
  \A i \in Intents :
    /\ saga[i].state = "failed"
    /\ \E k \in Keys : bank[k] = [intent |-> i, verdict |-> "rejected"]
    /\ ~\E k \in Keys : bank[k] = [intent |-> i, verdict |-> "paid"]
    => intent[i] = "failed"

\* A saga that the watcher enqueued ends, completed or failed.
SagaEnds ==
  \A i \in Intents :
    saga[i].state = "pending" ~> saga[i].state \in {"completed", "failed"}

=============================================================================
