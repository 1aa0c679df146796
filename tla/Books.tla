-------------------------------- MODULE Books --------------------------------
(***************************************************************************)
(* The money of an intent, end to end and in numbers: what it is priced    *)
(* at, what the payer's wallet is told and sends, what the watcher makes   *)
(* of the transaction, what each settlement step posts to the double-entry *)
(* ledger, and the two readers that watch it all while it moves: the       *)
(* reconciliation walker and the dashboard.                                *)
(*                                                                         *)
(* A settlement step is one action here: its transaction, committed or     *)
(* rolled back.  A worker whose lease ran out may take its step at any     *)
(* later time, on a run others have moved.  How the statements of a step   *)
(* interleave is the subject of Settlement, how deposits are noticed that  *)
(* of Watcher, and how events are delivered that of Dispatcher.            *)
(***************************************************************************)
EXTENDS Pricing, Sequences, FiniteSets

CONSTANTS
    Intents, Deposits,
    Asks,       \* rupiah amounts merchants ask for
    Rates,      \* rates the provider may answer with
    SpreadBps,  \* the configured spread
    Wallets,    \* what wallets do: by how much the transfer differs from the URL's
                \* amount, and where one more goes before it
    MaxLapses,  \* how many leases may run out
    None

ASSUME BooksAssumption ==
    /\ IsFiniteSet(Intents) /\ IsFiniteSet(Deposits)
    /\ Asks \subseteq 1..MaxInt
    /\ Rates \subseteq Rate
    /\ SpreadBps \in 0..Bps
    /\ Wallets \subseteq [slip : Int, extra : {"none", "hot_wallet", "other"}]
    /\ MaxLapses \in Nat
    /\ None \notin Intents

VARIABLES
    intent,   \* payment_intents with their quotes
    tx,       \* finalized transactions
    rows,     \* onchain_payments, oldest first
    saga,     \* the settlement run's state and current step
    reason,   \* why it failed
    late,     \* workers whose lease ran out during a step
    lapses,   \* how many leases ran out
    journal,  \* journal entries by kind and intent (external_ref)
    paid,     \* the succeeded payout's amount, 0 for none
    outbox,   \* how many intent.completed events were published
    walk,     \* the reconciliation walker's locals
    report,   \* its last report
    page      \* what the dashboard has read of the page it is rendering

workers == <<late, lapses>>
readers == <<walk, report, page>>
money   == <<intent, tx, rows, saga, reason, journal, paid, outbox>>
vars    == <<money, workers, readers>>

NoIntent == [state |-> "none", ask |-> 0, usdc |-> 0, rate |-> None]
NoTx     == [ref |-> None, transfers |-> <<>>]
NoRun    == [state |-> "none", step |-> "credit_deposit"]
NoWalk   == [reading |-> FALSE, onChain |-> 0, final |-> {}]
NoReport == [status |-> "ok", steady |-> TRUE, missing |-> FALSE]

PartNames == {"intent", "onchain", "entries", "payout", "saga", "outbox"}

\* The intent, the number of parts read and what they showed.
NoPage == [of |-> None, at |-> 0, read |-> [p \in PartNames |-> None]]

Kinds == {"credit_deposit", "fx_swap_usdc", "payout_disbursed"}
USDC  == {"hot_wallet", "user_funds", "fx_settlement"}
IDR   == {"expense_fx_swap", "cash_out", "revenue_fx_spread"}

Init ==
    /\ intent = [i \in Intents |-> NoIntent]
    /\ tx = [d \in Deposits |-> NoTx]
    /\ rows = <<>>
    /\ saga = [i \in Intents |-> NoRun]
    /\ reason = [i \in Intents |-> "none"]
    /\ journal = [e \in Kinds \X Intents |-> None]
    /\ paid = [i \in Intents |-> 0]
    /\ late = {}
    /\ lapses = 0
    /\ outbox = [i \in Intents |-> 0]
    /\ walk = NoWalk
    /\ report = NoReport
    /\ page = NoPage

-----------------------------------------------------------------------------
(* The ledger. An entry is a function from the accounts it touches.        *)

Line(amount, dir) == [amount |-> amount, dir |-> dir]

ASSUME LinesAssumption ==
    \A A \in SUBSET (USDC \cup IDR) : None \notin [A -> [amount : Int, dir : {"debit", "credit"}]]

\* An entry's effect on an account, debits positive.
Net(lines, a) ==
    IF a \notin DOMAIN lines THEN 0
    ELSE IF lines[a].dir = "debit" THEN lines[a].amount ELSE -lines[a].amount

\* The sum per currency.
Sums(lines) ==
    {Net(lines, "hot_wallet") + Net(lines, "user_funds") + Net(lines, "fx_settlement"),
     Net(lines, "expense_fx_swap") + Net(lines, "cash_out") + Net(lines, "revenue_fx_spread")}

\* ledger.Validate: sums in int64, which wraps.
Validate(lines) ==
    /\ DOMAIN lines # {}
    /\ \A a \in DOMAIN lines : lines[a].amount > 0
    /\ \A sum \in Sums(lines) : sum % (2 * (MaxInt + 1)) = 0

\* PostTx, and the deferred trigger's exact sum when the step commits.
Accepted(lines) ==
    /\ Validate(lines)
    /\ \A sum \in Sums(lines) : sum = 0

\* postWith: an external_ref already there is left as it is.
Posted(j, kind, i, lines) ==
    [j EXCEPT ![<<kind, i>>] = IF @ = None THEN lines ELSE @]

\* The minor units posted to one side of the hot wallet.
HotWallet(dir) ==
    LET posted == {e \in Kinds \X Intents :
                      /\ journal[e] # None
                      /\ "hot_wallet" \in DOMAIN journal[e]
                      /\ journal[e]["hot_wallet"].dir = dir}
    IN  UNION {{e} \X (1..journal[e]["hot_wallet"].amount) : e \in posted}

\* An asset: debits less credits.
AccountBalanceByCode == Cardinality(HotWallet("debit")) - Cardinality(HotWallet("credit"))

CreditLines(amount) ==
    [a \in {"hot_wallet", "user_funds"} |->
        Line(amount, IF a = "hot_wallet" THEN "debit" ELSE "credit")]

\* Mutant of SwapLines: the two sides are exchanged.
SwapLinesReversed(usdc) ==
    [a \in {"user_funds", "fx_settlement"} |->
        Line(usdc, IF a = "user_funds" THEN "credit" ELSE "debit")]

\* Mutant of SwapLines: the swap takes the USDC out of the hot wallet.
SwapLinesFromCustody(usdc) ==
    [a \in {"user_funds", "hot_wallet"} |->
        Line(usdc, IF a = "user_funds" THEN "debit" ELSE "credit")]

SwapLines(usdc) ==
    [a \in {"user_funds", "fx_settlement"} |->
        Line(usdc, IF a = "user_funds" THEN "debit" ELSE "credit")]

\* Mutant of PayoutLines: the revenue line is there for a spread of zero too.
PayoutLinesAlways(mid, amount) ==
    [a \in IDR |-> CASE a = "expense_fx_swap"   -> Line(mid, "debit")
                     [] a = "cash_out"          -> Line(amount, "credit")
                     [] a = "revenue_fx_spread" -> Line(mid - amount, "credit")]

PayoutLines(mid, amount) ==
    [a \in IF mid > amount THEN IDR ELSE IDR \ {"revenue_fx_spread"} |->
        CASE a = "expense_fx_swap"   -> Line(mid, "debit")
          [] a = "cash_out"          -> Line(amount, "credit")
          [] a = "revenue_fx_spread" -> Line(mid - amount, "credit")]

-----------------------------------------------------------------------------
(* An intent is priced and paid.                                           *)

Quoted(ask, rate) == QuoteAmount(ask, rate, SpreadBps)

CreatePaymentIntent(i) ==
    /\ intent[i] = NoIntent
    /\ \E ask \in Asks, rate \in Rates :
          /\ Quoted(ask, rate) > 0
          /\ intent' = [intent EXCEPT ![i] = [state |-> "pending", ask |-> ask,
                                              usdc |-> Quoted(ask, rate), rate |-> rate]]
    /\ UNCHANGED <<tx, rows, saga, reason, journal, paid, outbox, workers, readers>>

\* The amount in the Solana Pay URL, as a wallet reads it.
URLAmount(i) == DecimalToRaw(FormatAmount(intent[i].usdc))

\* A transaction with the intent's reference becomes final.  The paying script
\* sends one transfer of the URL's amount; another wallet may send another amount
\* and put one more transfer before it.
Pay(d) ==
    /\ tx[d] = NoTx
    /\ \E i \in Intents, wallet \in Wallets :
          /\ intent[i] # NoIntent
          /\ URLAmount(i) + wallet.slip >= 0
          /\ LET asked == [dest |-> "hot_wallet", amount |-> URLAmount(i) + wallet.slip]
                 other == [dest |-> wallet.extra, amount |-> 1]
             IN  tx' = [tx EXCEPT ![d] =
                          [ref |-> i,
                           transfers |-> IF wallet.extra = "none" THEN <<asked>>
                                         ELSE <<other, asked>>]]
    /\ UNCHANGED <<intent, rows, saga, reason, journal, paid, outbox, workers, readers>>

\* ParseSPLTransferChecked: the first transfer only.
Transfer(t) == Head(t.transfers)

\* ProcessSignature at finalized commitment: a transfer to another account is
\* skipped, an amount that is no positive int64 refused; the row is written,
\* and the run enqueued with it.  The reference set in memory may not know the
\* intent (see Watcher).
ProcessSignature(d) ==
    /\ tx[d] # NoTx
    /\ \A k \in DOMAIN rows : rows[k].sig # d
    /\ Transfer(tx[d]).dest = "hot_wallet"
    /\ Transfer(tx[d]).amount \in 1..MaxInt
    /\ \E i \in {tx[d].ref, None} :
          /\ rows' = Append(rows, [sig |-> d, amount |-> Transfer(tx[d]).amount, intent |-> i])
          /\ saga' = IF i # None /\ saga[i].state = "none"
                     THEN [saga EXCEPT ![i] = [state |-> "pending", step |-> "credit_deposit"]]
                     ELSE saga
    /\ UNCHANGED <<intent, tx, reason, journal, paid, outbox, workers, readers>>

-----------------------------------------------------------------------------
(* The settlement steps.                                                   *)

\* GetFinalizedDepositForIntent: the oldest row.
DepositFor(i) ==
    rows[CHOOSE k \in DOMAIN rows :
            /\ rows[k].intent = i
            /\ \A j \in 1..(k - 1) : rows[j].intent # i]

\* The intent's state goes to "to" if the worker saw it at "from".
Moved(i, seen, from, to) ==
    IF seen = from THEN [intent EXCEPT ![i].state = to] ELSE intent

\* AdvanceSagaStep, CompleteSagaRun ("" for the next step) or FailSagaRun: each
\* by the run's id, whatever the row says.  An entry the ledger refuses is
\* refused on every attempt, so the retries end in a failure too.
EndStep(i, why, next) ==
    /\ reason' = [reason EXCEPT ![i] = why]
    /\ saga' = [saga EXCEPT ![i] =
                  IF why # "none" THEN [state |-> "failed", step |-> saga[i].step]
                  ELSE IF next = "" THEN [state |-> "completed", step |-> saga[i].step]
                  ELSE [state |-> "pending", step |-> next]]

CreditDeposit(i, seen) ==
    /\ LET lines == CreditLines(DepositFor(i).amount)
           why   == IF Accepted(lines) THEN "none" ELSE "ledger"
       IN  /\ journal' = IF why = "none" THEN Posted(journal, "credit_deposit", i, lines)
                         ELSE journal
           /\ intent' = IF why = "none" THEN Moved(i, seen, "pending", "funded") ELSE intent
           /\ EndStep(i, why, "trigger_payout")
    /\ UNCHANGED <<tx, rows, paid, outbox>>

\* A succeeded payout is not submitted again.  A rejected one rolls the step's
\* transaction back (see Settlement).
TriggerPayout(i, seen) ==
    /\ \/ /\ paid' = [paid EXCEPT ![i] = intent[i].ask]
          /\ intent' = Moved(i, seen, "funded", "settling")
          /\ EndStep(i, "none", "apply_payout_result")
       \/ /\ paid[i] = 0
          /\ EndStep(i, "rejected", "")
          /\ UNCHANGED <<paid, intent>>
    /\ UNCHANGED <<tx, rows, journal, outbox>>

ApplyPayoutResult(i, seen) ==
    /\ LET mid    == ComputeMidIDR(intent[i].usdc, intent[i].rate)
           swap   == SwapLines(intent[i].usdc)
           payout == PayoutLines(mid, paid[i])
           why    == IF mid < paid[i] THEN "negative spread"
                     ELSE IF Accepted(swap) /\ Accepted(payout) THEN "none" ELSE "ledger"
       IN  /\ journal' = IF why # "none" THEN journal
                         ELSE Posted(Posted(journal, "fx_swap_usdc", i, swap),
                                     "payout_disbursed", i, payout)
           /\ intent' = IF why = "none" THEN Moved(i, seen, "settling", "paid_out") ELSE intent
           /\ EndStep(i, why, "emit_completed")
    /\ UNCHANGED <<tx, rows, paid, outbox>>

\* Every run of the step publishes an event.
EmitCompleted(i, seen) ==
    /\ intent' = Moved(i, seen, "paid_out", "completed")
    /\ outbox' = [outbox EXCEPT ![i] = @ + 1]
    /\ EndStep(i, "none", "")
    /\ UNCHANGED <<tx, rows, journal, paid>>

\* Any other error rolls the step back: ScheduleSagaRetry, or FailSagaRun once
\* the attempts are spent, each by the run's id.
FailedAttempt(i) ==
    /\ \E why \in {"none", "transient"} :
          /\ reason' = [reason EXCEPT ![i] = why]
          /\ saga' = [saga EXCEPT ![i] = [state |-> IF why = "none" THEN "pending" ELSE "failed",
                                         step  |-> saga[i].step]]
    /\ UNCHANGED <<intent, tx, rows, journal, paid, outbox>>

\* The step of a worker that claimed the run at "step" and loaded the intent in
\* state "seen".
Execute(i, step, seen) ==
    \/ step = "credit_deposit" /\ CreditDeposit(i, seen)
    \/ step = "trigger_payout" /\ TriggerPayout(i, seen)
    \/ step = "apply_payout_result" /\ ApplyPayoutResult(i, seen)
    \/ step = "emit_completed" /\ EmitCompleted(i, seen)
    \/ FailedAttempt(i)

\* A worker claims the run and finishes within its lease.
Tick(i) ==
    /\ saga[i].state = "pending"
    /\ Execute(i, saga[i].step, intent[i].state)
    /\ UNCHANGED <<workers, readers>>

\* A worker claims the run and its lease runs out: the run can be claimed again.
\* One that commits and is not told so is a worker within its lease, and a late
\* one with a failed attempt.
LeaseRunsOut(i) ==
    /\ saga[i].state = "pending"
    /\ lapses < MaxLapses
    /\ late' = late \cup {[of |-> i, step |-> saga[i].step, seen |-> intent[i].state]}
    /\ lapses' = lapses + 1
    /\ UNCHANGED <<money, readers>>

\* The late worker ends its step.  It loaded the intent before the lease ran out
\* or loads it now.
LateTick(w) ==
    /\ \E seen \in {w.seen, intent[w.of].state} : Execute(w.of, w.step, seen)
    /\ late' = late \ {w}
    /\ UNCHANGED <<lapses, readers>>

-----------------------------------------------------------------------------
(* Reconciliation: two reads of two systems, one after the other.          *)

Final == {d \in Deposits : tx[d] # NoTx}

\* What a transaction moves to the hot wallet.
Received(d) ==
    LET t == tx[d].transfers
    IN  t[Len(t)].amount
          + IF Len(t) = 2 /\ Head(t).dest = "hot_wallet" THEN Head(t).amount ELSE 0

\* The hot wallet's token balance at finalized commitment: the minor units it
\* received.
OnChain == Cardinality(UNION {{d} \X (1..Received(d)) : d \in Final})

\* Final deposits that moved something no credit_deposit entry holds.
Uncredited ==
    {d \in Final :
        /\ Received(d) > 0
        /\ ~ \E i \in Intents :
               /\ journal[<<"credit_deposit", i>>] # None
               /\ DepositFor(i).sig = d
               /\ DepositFor(i).amount = Received(d)}

\* An error of the RPC, or a balance that is no int64, ends the pass.
FetchOnChainBalance ==
    /\ ~walk.reading
    /\ OnChain <= MaxInt
    /\ walk' = [reading |-> TRUE, onChain |-> OnChain, final |-> Final]
    /\ UNCHANGED <<money, workers, report, page>>

\* A failed query ends the pass without a report.  Beside the report: whether no
\* deposit became final during the pass, and whether one was not credited.
Walk ==
    /\ walk.reading
    /\ LET difference == walk.onChain - AccountBalanceByCode
       IN  \/ UNCHANGED report
           \/ report' = [status  |-> IF difference = 0 THEN "ok" ELSE "diverged",
                         steady  |-> Final = walk.final,
                         missing |-> Uncredited # {}]
    /\ walk' = NoWalk
    /\ UNCHANGED <<money, workers, page>>

-----------------------------------------------------------------------------
(* The dashboard reads an intent's page part by part, without a snapshot.  *)

\* Mutant of Parts: the intent is read after its entries.
PartsIntentLater == <<"onchain", "entries", "intent", "payout", "saga", "outbox">>

Parts == <<"intent", "onchain", "entries", "payout", "saga", "outbox">>

ListOnchainPaymentsByIntent(i) ==
    {rows[k].sig : k \in {j \in DOMAIN rows : rows[j].intent = i}}

ListJournalEntriesByIntent(i) == {k \in Kinds : journal[<<k, i>>] # None}

GetPayoutByIntent(i) == paid[i] > 0

GetSagaRunByIntent(i) == saga[i]

ListOutboxByAggregate(i) == outbox[i]

Current(part, i) ==
    CASE part = "intent"  -> intent[i].state
      [] part = "onchain" -> ListOnchainPaymentsByIntent(i)
      [] part = "entries" -> ListJournalEntriesByIntent(i)
      [] part = "payout"  -> GetPayoutByIntent(i)
      [] part = "saga"    -> GetSagaRunByIntent(i)
      [] part = "outbox"  -> ListOutboxByAggregate(i)

\* The page after its next part is read.
NextPart(of, at, read) ==
    [of   |-> of,
     at   |-> at + 1,
     read |-> [read EXCEPT ![Parts[at + 1]] = Current(Parts[at + 1], of)]]

HandleIntent(i) ==
    /\ page.of = None \/ page.at = Len(Parts)
    /\ intent[i] # NoIntent
    /\ page' = NextPart(i, 0, NoPage.read)
    /\ UNCHANGED <<money, workers, walk, report>>

\* A failed query ends the page with an error.
LoadIntentView ==
    /\ page.of # None
    /\ page.at < Len(Parts)
    /\ page' \in {NextPart(page.of, page.at, page.read), NoPage}
    /\ UNCHANGED <<money, workers, walk, report>>

-----------------------------------------------------------------------------
Next ==
    \/ \E i \in Intents :
          CreatePaymentIntent(i) \/ Tick(i) \/ LeaseRunsOut(i) \/ HandleIntent(i)
    \/ \E d \in Deposits : Pay(d) \/ ProcessSignature(d)
    \/ \E w \in late : LateTick(w)
    \/ FetchOnChainBalance \/ Walk \/ LoadIntentView

Spec == Init /\ [][Next]_vars

-----------------------------------------------------------------------------
\* The rows' columns keep their types and a succeeded payout is for the amount
\* asked, as CreatePaymentIntent, TriggerPayout and the other steps write them.
TypeOK ==
    /\ \A i \in Intents :
          /\ intent[i] = NoIntent \/ intent[i] \in
                [state : {"pending", "funded", "settling", "paid_out", "completed"},
                 ask : Asks, usdc : 1..MaxInt, rate : Rates]
          /\ saga[i] \in [state : {"none", "pending", "completed", "failed"},
                          step : {"credit_deposit", "trigger_payout", "apply_payout_result",
                                  "emit_completed"}]
          /\ reason[i] \in {"none", "rejected", "negative spread", "ledger", "transient"}
          /\ paid[i] \in {0, intent[i].ask}
          /\ outbox[i] \in Nat
          /\ \A k \in Kinds : journal[<<k, i>>] = None \/ DOMAIN journal[<<k, i>>] \subseteq USDC \cup IDR
    /\ \A d \in Deposits :
          tx[d] # NoTx => tx[d].ref \in Intents /\ Len(tx[d].transfers) \in 1..2
    /\ \A k \in DOMAIN rows : rows[k] \in [sig : Deposits, amount : Nat, intent : Intents \cup {None}]
    /\ \A w \in late : w.of \in Intents /\ saga[w.of].state # "none"
    /\ lapses \in 0..MaxLapses
    /\ walk.reading \in BOOLEAN /\ report.status \in {"ok", "diverged"}
    /\ page.of \in Intents \cup {None} /\ page.at \in 0..Len(Parts)

\* A quote whose spread covers the rounding never ends in the negative-spread
\* failure of ApplyPayoutResult, which comes after the bank has paid.
CoveredQuotesSettle ==
    \A i \in Intents :
        reason[i] = "negative spread" => ~Covered(intent[i].ask, intent[i].rate, SpreadBps)

\* The ledger takes every entry the steps build: no amount of zero, no
\* currency out of balance, whatever was quoted, paid and rounded.
LedgerTakesSteps == \A i \in Intents : reason[i] # "ledger"

\* The URL's decimal string means the quoted amount to the paying script's
\* decimalToRaw and to ParseAmount: FormatAmount loses and adds nothing.
URLNamesQuote ==
    \A i \in Intents :
        intent[i] # NoIntent =>
            /\ URLAmount(i) = intent[i].usdc
            /\ ParseAmount(FormatAmount(intent[i].usdc)) = intent[i].usdc

\* A pass of Walk during which no deposit became final reports "diverged" exactly
\* when the ledger lacks something the hot wallet received: a deposit waiting for
\* its step, one the watcher skipped, left unlinked or read in part, the second
\* of an intent.  No swap, payout or late worker hides one or makes one up.
ReportIsTrue == report.steady => (report.status = "diverged" <=> report.missing)

\* A page of loadIntentView shows no effect without its cause, although its
\* parts are read one after the other while the saga runs.  The run it shows may
\* lag behind the payout, as a late credit_deposit sends the run back to
\* trigger_payout, but only if a lease ran out.
PageIsCausal ==
    page.of # None /\ page.at = Len(Parts) =>
        LET shows == page.read
        IN  /\ shows["intent"] # "pending" =>
                  shows["onchain"] # {} /\ "credit_deposit" \in shows["entries"]
            /\ shows["intent"] \in {"paid_out", "completed"} => shows["entries"] = Kinds
            /\ "payout_disbursed" \in shows["entries"] => shows["payout"]
            /\ shows["payout"] =>
                  /\ shows["saga"].state # "none" /\ shows["saga"].step # "credit_deposit"
                  /\ lapses = 0 => shows["saga"].step # "trigger_payout"
            /\ shows["saga"].state = "completed" => shows["outbox"] > 0

\* Once the swap is posted, what is left on user_funds for an intent is what its
\* credited deposit differs from the quote by, and stays so: nothing for a payer
\* who sent what the URL says.  credit_deposit opens the obligation from the
\* deposit, the swap settles it from the quote, and nothing compares the two.
UserFundsKeepSlip ==
    \A i \in Intents :
        journal[<<"fx_swap_usdc", i>>] # None =>
            Net(journal[<<"credit_deposit", i>>], "user_funds")
              + Net(journal[<<"fx_swap_usdc", i>>], "user_funds")
                = intent[i].usdc - DepositFor(i).amount
=============================================================================
