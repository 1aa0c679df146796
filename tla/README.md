# selatpay in TLA+

selatpay takes a USDC deposit on Solana for a payment intent and settles it as
an IDR bank payout to a merchant.  This directory holds TLA+ models of the
parts of it that keep state and run concurrently, the TLC configurations that
check them and the TLAPS proofs of the properties that matter most.  Every
definition is a translation of code under `src/`; `PROJECT.json` names the lines.

To repeat everything:

    tlc -config Settlement_faults.cfg MCSettlement     # likewise the other cfg files
    tlapm SettlementProofs.tla                         # likewise the other proof modules

## The system

| Part | Source | Model |
|---|---|---|
| chain watcher: observes deposits, finalizes them, enqueues the saga | `internal/chain` | `Watcher` |
| saga runner: claims due sagas under a lease, runs one step per transaction | `internal/saga` | `Settlement` |
| the four steps credit_deposit, trigger_payout, apply_payout_result, emit_completed | `internal/saga/steps` | `Settlement` |
| payout rail and (mock) bank, deduplicating by idempotency key | `internal/payout`, `cmd/mockidrbank` | `Settlement` |
| double-entry ledger, one entry per external_ref | `internal/ledger` | `Settlement` (lookup and insert), `Books` (lines, balance, accounts) |
| outbox dispatcher and webhook sender | `internal/outbox`, `internal/webhook` | `Dispatcher` |
| payment-intent API behind authentication and the idempotency middleware | `internal/api`, `internal/auth`, `internal/idempotency` | `PaymentIntents` |
| quoter, mid rate and spread, Solana Pay amounts, paying script | `internal/quoter`, `steps/apply_payout_result.go`, `internal/solanapay`, `scripts/pay` | `Pricing` (arithmetic), `Books` |
| reconciliation walker and dashboard | `internal/recon`, `internal/dashboard` | `Books` |
| signatures, key generation, wallet, wiring, request routing | | not modelled, see the end |

The parts talk through Postgres. The watcher inserts a `saga_runs` row in the
transaction that makes a linked deposit final; orchestrator replicas claim such
rows and run the steps; the last step inserts an `outbox` row in its own
transaction; a dispatcher claims outbox rows and posts them to the merchant. An
API call makes the intent all of them work on. `Watcher`, `Settlement` and
`Dispatcher` each model one of these stages in full concurrency. Each has the
insert of the next one's row as an effect (`saga` in `Watcher`, `outbox` in
`Settlement`) and the arrival of the previous one's row as an action
(`EnqueueSagaRun`, `Publish`). `Books` composes all stages, one committed
transaction per action and with real amounts, and adds the two processes that
only read: its question is whether the numbers and the rows agree across stages,
not how one stage's statements interleave.

## Modules

| Module | Content |
|---|---|
| `Settlement` | runner, steps, tables and bank; properties |
| `SettlementPromise` | what settlement promises, without workers, leases or transactions |
| `SettlementInv` | inductive invariants `IInv`, `OnceInv`, `LockInv` and `LeaseInv` |
| `SettlementSteps`, `SettlementProofs`, `SettlementLeases` | proofs: types and each statement; safety and refinement; locks, unique keys and leases |
| `Watcher`, `WatcherInv`, `WatcherProofs` | the chain watcher, its invariant `WInv`, its theorems |
| `Dispatcher`, `DispatcherInv`, `DispatcherProofs` | the outbox dispatcher, its invariants `DInv` and `DupInv`, its theorems |
| `PaymentIntents` | API, middleware and its stores; properties |
| `PaymentIntentsPromise` | what a merchant is promised, without requests, keys or caches |
| `PaymentIntentsInv`, `PaymentIntentsProofs` | its invariant `PInv`, its theorems |
| `Pricing` | quote, mid value and URL amounts as operators |
| `Books`, `BooksInv` | an intent in numbers; its invariants `BInv` and `CInv` |
| `BooksProofs`, `BooksCustody` | theorems about `Pricing` and `Books`; those about the ledger, custody and reconciliation |
| `MCSettlement`, `MCWatcher`, `MCDispatcher`, `MCPaymentIntents`, `MCBooks` | instances for TLC |

Definitions whose comment begins with "Mutant" are wrong on purpose: each is a
plausible slip in the definition below it, and `PROJECT.json` says which
property notices when it takes that definition's place.  Nothing else uses them.

### Settlement

State: the tables `saga` (saga_runs), `intent` (payment_intents.state),
`payout`, `journal` (which entries exist), `outbox`; the `bank`'s memory per
idempotency key; and per worker its program counter `pc`, the claimed `run`, the
intent state it loaded (`seen`) and the writes of its open transaction (`tx`).

Workers interleave at SQL statements, at READ COMMITTED: a read sees committed
rows and the transaction's own writes, and a write of a row or unique key waits
for the open transaction that wrote it (`EntryHeld`, `IntentHeld`,
`PayoutHeld`).  That matters because the lookup and the insert of `PostTx`, or
the read and the update of the intent, are separate statements.

| Action | Code |
|---|---|
| `EnqueueSagaRun` | the watcher's insert |
| `ClaimDueSagaRun` | `claim`: sets running and the lease |
| `Load` | the reads at the start of each step, with their early terminal errors |
| `LookupEntry`, `InsertEntry` | `ledger.PostTx` |
| `UpsertPayout`, `SubmitPayout`, `SubmitUnanswered`, `RejectPayout` | trigger_payout |
| `UpdateIntent` | UpdatePaymentIntentState, and Publish in emit_completed |
| `Commit`, `CommitUnacknowledged` | AdvanceSagaStep or CompleteSagaRun, then the commit |
| `RecordFailure` | `failRun`, `scheduleRetry` |
| `StepError`, `Crash`, `LeaseExpires`, `BackoffElapses` | faults and time |

Abstractions.  Amounts are left out; a quote's spread is negative or not
(`NonNegSpread`).  Timestamps are past or future.  The reads of `Load` are one
action, because only the intent's state can still change under a step.  A rail
call without a reply has landed or not when the step gives up; a bank that
handles the request even later has the same effects.  The mock bank keeps its
answers in memory and would forget them on a restart; the model's bank never
forgets, so no double payment it shows is due to that.  A missing intent,
account or rail and an unknown step name are deployment errors and left out.  The
journal is the set of kinds an intent has; a second insert of one, which a set
would hide, is looked for in the open transactions (`EntriesPostedOnce`).

### Watcher

State: the cluster's view of each transaction (`chain`, `landed`), which intents
are open (`active`), the tables `rows` (onchain_payments), `made` (created_at as a
rank) and `saga`, and the watcher's memory: `refs`, what a refresh has read
(`listed`), the references the poller still has to ask for, the signatures each
loop still has to process, and one `job` per loop.

The three loops run ProcessSignature concurrently, split where another loop can
get between: `Fetch`, `Match`, `Resolve` (matchReference reads the map twice),
`Write`.  `Write` is one action because the transaction locks the row it upserts
first and reads nothing else.  Faults: `Error`, `Crash`, `Disconnect`, messages
the subscription misses (`Land`), and `Drop`, a confirmed transaction on a fork the
cluster abandons.

Abstractions.  One watcher process.  A transaction mentions at most one
reference, so matchReference's choice among several is left out, and a miss in the
map is a miss of that one.  The checks of spl_parser are the set `Transfers`; what
fails them still shows up in a reference's list of signatures, where `landed` is its
rank.  Batches are sets.  The reference column of onchain_payments is not modelled.

### Dispatcher

State: the `row`s of one topic, the Postgres `session` each dispatcher holds,
`orphans` (sessions of dead clients that Postgres has not noticed), and per
dispatcher `pc`, the claimed `batch`, the `marks` of its open transaction and the
`answer` of the last send; `sends` counts what the merchants really answered.

The advisory lock, the transaction and its row locks all live in the session and
end with it, and the dispatcher learns of it only at its next statement.  So a
dispatcher can go on sending while its successor claims the same rows: that is
the interleaving this model is about.

Abstractions.  A row's place in next_attempt_at order is chosen freely when it
becomes due, because publishers' transaction times, the dispatcher's clock and
the jitter all contribute to it.  Backoff is "later", a hundred years is "parked".
Rows that toMessage cannot decode, whose error ends the batch, are left out; Publish
never writes one.  The unlock statement fails only together with its session.
`DuplicatesNeedFaults` counts 2xx answers: a receiver that acts on an event and then
answers with an error is sent it again, as any at-least-once sender would.

### PaymentIntents

State: per request its stage `pc`, content `call`, the `answer` handed to its
response writer, the record `held` for its next Redis SET; the tables `intents`,
`quotes`, `stored` (idempotency_keys) and Redis as `cache`.  `seen` is history: what was
stored under the request's key when it arrived.  A client's retry is another
request with the same content.

| Action | Code |
|---|---|
| `Arrive`, `Authenticate` | the router; `auth.Middleware`, refusing inactive API keys |
| `CacheGet`, `StoreGet`, `Warm` | `CachedStore.Get` and `PGStore.Get`; `Judge` replays, or answers 409 for a different body |
| `LookupRef`, `IssueQuote`, `InsertIntent` | `CreatePaymentIntent`, one action per statement |
| `ReadIntent` | `GetPaymentIntent` |
| `Put` | `PGStore.Put`: INSERT ON CONFLICT, then the winner's row |
| `Crash`, `Expire` | the process dies at any stage; Redis drops an entry |

Every statement may fail, and one that takes effect may lose its
acknowledgement.  Redis may fail at any call, which the code ignores.

Abstractions.  A body is what HashRequest tells apart; an intent, its quote and
its reference bear the name of the request that made them.  The check of the HMAC itself
and of the clock is left out: a request that gets past it carries a known key.  So is
the 400 that both middlewares answer when a body cannot be read
(`hmac.go:74`, `middleware.go:52`); such a request ends there and changes nothing.
Rows of idempotency_keys do not expire, because nothing calls
DeleteExpiredIdempotencyKeys.

### Pricing and Books

`Pricing` has QuoteAmount, computeMidIDR, FormatAmount, ParseAmount and the paying
script's decimalToRaw, with int64 and uint64 limits as `MaxInt` and `MaxUint`, a USDC of
`USDCUnit` minor units and `Bps` basis points.  A decimal string is its
whole part, its fraction and the power of ten the fraction is over (`Units`), so
that padding and trimming of zeros are visible.

`Books`: an intent is quoted (`CreatePaymentIntent`), paid with what its URL says
give or take a slip (`Pay`), possibly twice and possibly with one more transfer in front,
the transaction's transfers are parsed and stored (`ProcessSignature`), and workers run
the four steps, which post their entries line by line (`CreditDeposit` ...
`EmitCompleted`).  A worker claims the run and ends its step in time (`Tick`), or its lease
runs out (`LeaseRunsOut`) and it ends its step whenever it likes (`LateTick`), on a run that
others have taken further: the statements that advance, complete, retry and fail a
run name it by id only, so a late credit_deposit takes a run that has paid back to
trigger_payout.  `FailedAttempt` is every error that leaves nothing but a retry or a
failed run.  Meanwhile the reconciliation walker reads the chain (`FetchOnChainBalance`) and,
later, the ledger (`Walk`), and the dashboard reads the six parts of a page one by one
(`HandleIntent`, `LoadIntentView`).  Those two take no snapshot, so what they read may
never have been true at one time.

A balance, of the chain or of an account, is the number of minor units that went in
less those that went out, and is written that way (`OnChain`, `HotWallet`).

Abstractions.  A step is one action here; `Settlement` has its statements.  A bank's
rejection leaves the run failed.  A transaction has one or two transfers, the last one
to the hot wallet; the paying script sends one of exactly the URL's amount, the rest is
what another wallet may send.  A deposit recorded without its intent stays so: how a
later call links it is the subject of `Watcher`.  An event is counted when it is
published; its delivery is the subject of `Dispatcher`.  Nothing in the repository
moves tokens out of the hot wallet, so the second cause of a negative difference that
`recon/walker.go:36` names, a transfer nobody recorded, does not occur.

## Runs

State counts are distinct states.  Every bound is a guard on a counter of faults or
the size of a constant set.  One run has a state constraint as well: in books only
one of the two readers is at work at a time (`OneReader`).  They read and never
write, and no property looks at both, so what either can see it can see while the
other is idle.  Permuting the deposits (books) or the intents and workers (settlement_two) is a symmetry of
model and properties, and neither run checks a temporal property.

| Run | Instance | What it shows | States |
|---|---|---|---|
| settlement_faults | 1 intent, 2 workers; 1 crash or SQL error, 1 unacknowledged commit, 1 expired lease | committed tables, bank and saga position stay consistent; no entry is inserted twice; no lock cycle; `KeepsPromise`; while no fault of the kind they rest on has happened, one disbursement, one worker per saga, the documented state machine, terminal sagas that stay; `SagaEnds` | 814 k |
| settlement_two | 2 intents, both with a negative spread; 1 lost reply, 1 expired lease | `Inductive`: `IInv`, `OnceInv`, `LockInv` and `LeaseInv`, across intents | 1.9 M |
| watcher_all | a deposit for an intent, one without a reference and a transaction that only mentions the reference; polls and batches of one; 1 error, 1 restart, 1 drop | rows, links and sagas agree with the chain; rows only rise; `WInv`; `SagaUnlessStarved` | 598 k |
| dispatcher_all | 3 events (one receiver fails at will, one is reliable, one merchant has no webhook), 2 dispatchers, batches of 2, 2 attempts; 2 faults | delivered means accepted; parked means failed often enough; duplicates need faults; finished rows stay; `DInv`; `PublishedEnds` | 368 k |
| intents_safety | 3 requests drawn from six POST bodies and the reads of what they made; 2 merchants, one with two API keys, and an inactive API key; any number of faults | replays are originals; Redis agrees with Postgres; a recorded key runs nothing again; `KeepsPromise` | 772 k |
| books | 1 intent, 2 deposits, wallets that pay as told, too much, behind another transfer and in two transfers; 1 lease that runs out; amounts for which the spread covers the rounding, leaves nothing, does not cover it, and overflows | no covered quote fails after the bank has paid; the ledger takes every entry; the URL names the quote; an undisturbed pass of recon diverges exactly over what the ledger lacks; pages are causal; user_funds keeps what deposit and quote differ by | 1.1 M |

Deadlock checking is off for Settlement, Dispatcher and PaymentIntents, which stop
when every saga has ended, every event is delivered or parked, or every request
is answered.  It is on for Watcher and Books, whose tickers never stop.

Why the bounds are enough.  Two workers (or dispatchers) are the smallest number
that races; the lock and lease rules relate pairs.  Two attempts make both the
retry and the exhausted branch happen.  A batch of two out of three events makes
both a full batch and a remainder happen, and a promote batch of one out of two
rows makes the LIMIT bite.  `Keys` is large enough that trigger_payout never runs
out of ids.  Three requests are a writer, a rival under the same key and a later
retry, which is what it takes for a replay to carry the wrong answer; the properties of
PaymentIntents relate two requests and one row.  In Books the arithmetic is scaled
down (100 minor units to a USDC, 10 basis points to the whole, an int64 that ends at 1000) so that
every rounding and overflow branch is taken; the theorems about it hold for
the real sizes.  Where a proof exists it covers the larger instances; where none
does, the counts above are all that is claimed.

### Disagreements with the documentation

Six runs expect a violation.  Each checks one sentence of a comment, a
document or a test, and `PROJECT.json` quotes it under "findings".

| Run | The code | The sentence |
|---|---|---|
| settlement_double_payout | the payouts row, and with it the idempotency key, is rolled back when a rail call ends in OutcomeRetry; the retry pays under a new key | "Idempotency keys guarantee the next attempt is a no-op" (`payout/types.go:25`) |
| settlement_rejection | the writes that mark payout and intent failed are rolled back by the Terminal error after them | "The saga marks the intent failed and stops" (`payout/types.go:31`) |
| settlement_regress | a worker whose lease ran out writes an intent state computed from an old read | the state machine of `docs/architecture.md:120` |
| watcher_starved | rows of dropped transactions stay in the oldest batch for ever and can fill it | "re-examines every onchain_payments row" (`watcher.go:274`) |
| watcher_crowded | a poll lists the newest signatures of a reference, without a cursor, so newer transactions that mention it hide a deposit the subscription missed | "the poller will still catch the signature on its next tick" (`watcher.go:298`) |
| intents_race | the key is looked up before the handler and inserted after it, so two requests in flight with one key and different bodies both succeed | "A different request body under the same key must return an error" (`docs/adr/0005-idempotency-postgres-redis.md:15`) |

It is a theorem (`OnlySucceededPayoutsCommitHolds`) that no payouts row is ever committed
before the bank has paid, which is why the first two happen: whatever a step writes
about a payout that did not succeed is gone when its transaction ends.
What is left of the promises is stated with its condition and checked under all
faults, all but `SagaUnlessStarved` also by proof: `PaidOnceIfAnswered` (no lost reply and no step that broke off),
`OneWorkerPerSaga` and `StateMachineIfUndisturbed` (`Undisturbed`: no lease ran out
under a worker and every commit was acknowledged), `SagaUnlessStarved` (dropped
rows do not fill a promote batch and newer transactions do not fill a poll), `RepliesAgree` (one external_ref, one intent,
whatever the keys do).  Without its condition `StateMachineIfUndisturbed` fails in its second part
too: when the acknowledgement of emit_completed's commit is lost, ScheduleSagaRetry
makes the completed saga pending again and the event is published twice, although
`0006_saga_outbox.sql:33` says "Completed and failed sagas are terminal".

### Also observed

These follow from reading the code for the models; no run is about them.

- The comment on drainOnce (`outbox/dispatcher.go:206`) says that each message is
  dispatched "inside its own short transaction"; the code, and `Dispatcher`, use one
  transaction for the batch.
- Rows are claimed by next_attempt_at, so a retried event is delivered after later
  ones of its topic; `0006_saga_outbox.sql:41` says rows are drained in order and
  `docs/adr/0004` that delivery is ordered per topic.  A consumer has to order by
  content.
- An intent that exists for an external_ref is returned without a look at the amount
  asked this time, and two requests in flight can issue a quote each, of which one is
  never used.
- Nothing compares the amount of a deposit with the quote, and only the oldest
  deposit of an intent is credited.  What is over or missing stays on user_funds; a second
  deposit stays in custody uncredited and shows up in every later
  reconciliation.  `UserFundsKeepSlip` and `ReportIsTrue` say what holds.
- Of two transfers to the hot wallet in one transaction the first is credited; the
  rest shows up in reconciliation only.
- A different body under a recorded key is answered 409, as the test and the OpenAPI file
  have it; `docs/adr/0005-idempotency-postgres-redis.md:28` says 422.
- A quote's expiry and signature are never looked at again; the comment at
  `quoter/types.go:23` says the signature is re-verified.
- QuoteAmount multiplies the rate by 10^scale where `quoter/types.go:15` makes it a
  divisor; computeMidIDR divides.  The built-in provider only uses scale 0, and
  `Covered` is about those rates.
- The header comment of `apply_payout_result.go:22` has the swap credit the hot wallet; the
  code, and the comment at line 99, credit fx_settlement.

## Fairness

- Settlement: weak fairness of each worker's own steps (the runner polls; Postgres
  and the bank answer or time out), of passing backoffs, and of leases running
  out when nobody works on the saga.  No fairness of deposits or faults.
- Watcher: weak fairness of the refresher, of the poller's and the promoter's tickers and
  of the calls those two make, and the cluster eventually finalizes or drops a deposit it
  has confirmed.  The subscription promises nothing.
- Dispatcher: weak fairness of running dispatchers, of passing backoffs, and
  Postgres eventually notices a dead client.  `Restart` is not fair: a dispatcher
  that went down, also because Run returned on a lock error, may stay down, and
  the standby has to take over.  `PublishedEnds` is therefore about runs in which some
  dispatcher is up.
- PaymentIntents and Books have no liveness properties and no fairness: a request may be
  cut off at any stage and nothing obliges a payer to pay.

## Proofs

The constants are arbitrary, within the named ASSUMEs: in `Settlement`, None is
neither a key nor an intent and the bounds are natural numbers; in `Watcher`, the
set of transactions is finite and Ref maps into the intents or None; in
`Dispatcher`, the set of dispatchers is finite and only events with a receiver can
fail at its hands; in `PaymentIntents`, None is no request, content, record or answer;
in `Pricing`, the powers of ten divide a USDC and have a least member in each
nonempty subset (TLC evaluates this for the instance; for natural numbers it is
the well-ordering principle); in `Books`, the sets of intents and deposits are finite, amounts asked fit an int64 and rates are
rates.  Fault budgets are arbitrary, so the theorems hold for any number of faults.

**Settlement.**  The properties speak of committed rows, and Commit makes them from
what an open transaction holds, so none is inductive alone.  `IInv` adds what each
worker may rely on at each program counter: `RunOK` (its step's prerequisites
are committed, and no transaction survives a rollback), `EntriesOK` (which legs it
has posted so far), `TxPayoutOK` (a row about to be submitted has an id the bank does
not know; a row about to be committed has been paid), `TxEventOK`; and globally
`KeysDistinct`, `BankOK` and `SerializedSubmission`.  No lease appears in it: the
theorems hold although a lease can run out under a worker, because everything
rests on row locks and on effects never being undone.  `Refinement` maps the
tables and the bank to `SettlementPromise` and shows that each step is one of its
steps or a stutter.

`PaidOnceIfAnsweredHolds` needs a second invariant, `OnceInv`: while no reply was lost
and no step broke off, every payment the bank made is either the committed payouts
row or held by a transaction past its rail call; and a transaction that holds a
payouts row holds the committed one if there is one.  With `SerializedSubmission`
that leaves one id per intent.  The theorem allows any number of expired leases and
unacknowledged commits, so those two alone never cause a second payment.

`NoLockCycle` says of every set of workers that one of them waits for none of the
others (`WaitsFor`: the next statement needs a row or key that the other's open
transaction wrote).  `LockInv` says which locks a transaction can hold at each
program counter, and from it every wait is for a transaction that is further on: the
first row of a step, then the IDR leg, which is only posted under the USDC leg, then the
intent row, then nothing.  A worker furthest on waits for nobody in the set.

`EntriesPostedOnce` is inductive with `IInv` alone: the insert waits while another open
transaction holds the key (`EntryHeld`) and fails if the entry has been committed since
the lookup, and a commit hands over only what no other transaction holds.

`LeaseInv` is about undisturbed runs only: a working worker holds the lease of a
running saga that stands at the step it claimed, the state it loaded is the one its
step moves from, what it is about to commit is that move, and saga, intent and outbox
agree.  `OneWorkerPerSaga` is part of it, and `StateMachineIfUndisturbed` follows for each
step.  It is the counterpart of `IInv`: what the code gets from leases,
beyond what it gets from row locks.

**Watcher.**  `WInv` adds what a ProcessSignature call may rely on when it writes,
however long ago it fetched and matched: a promoter's transaction is final, and a
hit is the transaction's own reference.  Finality is stable, and that is what makes the
late write harmless.  `RowsOnlyRiseHolds` is an action property.

**Dispatcher.**  `DInv` says of each dispatcher with a live session that the rows in its
batch are still due and that each mark is backed by an answer that was received;
`OneHolds` says that at most one session is live and owns the lock.  A dispatcher
without a session can do nothing but send, so nothing needs to be said of it.
`FinishedStaysHolds` follows: a commit changes only rows that are due.

`DuplicatesNeedFaults` compares two counters that grow in different steps, the answer
being counted long after the fault that allowed it.  `DupInv` closes the account for
each event: the 2xx answers so far, plus the dispatchers that lost their session and may
still send it (`Stray`), plus one if nobody has its answer yet (`Unanswered`), are at most one
more than the faults.  A send by the owner of the lock pays with the last term, a send by
a stray dispatcher with its own, and whatever brings a term back is a fault.

**PaymentIntents.**  `CacheIsStored` is inductive only with `HeldIsStored`: what a request
is about to write to Redis is the committed row, because Put reads back the winner.
`ReplaysAreOriginals` needs `StoredHasOrigin`, that every committed record is the answer of
a request with that key and body, and that answers stay once given (`StageOK`).
`SeenKeyIsHonoured` needs `SeenIsBarred`: a request whose key was there when it arrived is
only ever at stages before the handler, since neither lookup can miss a row
that is never deleted.  `Refinement` shows that each step makes at most one row
under a free external_ref (`RowsUnique`) or tells of a row there is (`NamesRow`).  All of it
holds for any number of requests, failing statements, crashes and evictions.

**Pricing and Books.**  `CoveredIsWorthAsk` is the arithmetic fact: for a whole rate N, a
spread s of B basis points and a USDC of U minor units, N(B - s) <= idr s U
suffices for the quoted USDC, rounded down twice, to be worth the rupiah asked.  With the real sizes
(U = 10^6, B = 10^4, N about 16000) a spread of one basis point covers every amount from
160 rupiah.  `URLRoundTrip` says that FormatAmount followed by decimalToRaw or ParseAmount is
the identity on int64; the model's strings carry the padding and the trimmed
zeros.

`BInv` ties each table to the ones it follows from.  Its core is `Ready`: what a step
relies on has been written.  That holds for the step a run stands at and, because no
effect is ever undone, for the step of every worker that was late (`Latecomers`),
however far others have taken the run since.  So a late worker repeats what is there
already, and only the run's step goes back.  A page's parts are read effects first, and
what the parts read so far showed still stands (`Shown`) and implies what
the next part must show: `PagesAreCausal` follows although no two parts are read at one
time.  (`PageIsCausal` breaks when the intent is read later than its entries.)  Where a
run may lag behind its payout, the property says so: only if a lease ran out.

`CInv` is about custody: a row holds no more than its transaction moved to the hot wallet
(ParseSPLTransferChecked looks at the first transfer only), no transaction has two rows, and
the only entries that touch the hot wallet are credits of the amount on an intent's oldest
row.  The ledger then takes every entry (`LedgerTakesEverything`): deposits and quotes are
positive, the payout's lines balance by construction, and the revenue line is left out when
it would be zero.  `BalancesMatch` maps each minor unit that a credit entry posted to the
same unit of the deposit it credits.  That map never sends two units to one, and it
reaches all of them exactly when every final deposit is credited in full; on finite sets
that is when the two numbers are equal, and no sum has to be unfolded.  For `ReportsAreTrue` the
walker's first read has to be carried to the moment of its report (`Walking`): if no deposit came
in since, the chain still has what was read.  A pass that a deposit interrupts may report
either way.  `SlipIsKept` takes the credit's amount from `CInv` and the swap's from `BInv`.

Model-checked only: the liveness properties `SagaEnds`, `SagaUnlessStarved` and
`PublishedEnds`, since liveness under fairness is beyond the prover.  Every invariant and
action property that a passing run checks is also a theorem.

Leaves that are plain logic name Zenon; the others go to the SMT solver.

## Not modelled

- HMAC of requests, quotes and webhooks, key and nonce generation: cryptography over bytes
  without state.  `PaymentIntents` has who a key belongs to and whether it is active.
- The part of a Solana Pay URL that is not its amount: formatting.
- The wallet: the settlement path does not call it.
- The dashboard's list page (one query) and templates.
- Request routing and the query interface that are generated; the generated query functions
  are mapped where they are called.
- Configuration, start-up, logging, tracing and developer tools other than the paying script.
- Deployment errors: a missing account or rail, an unknown step name.

`PROJECT.json` lists every component with its status, and the hazards with the
properties that cover them.
