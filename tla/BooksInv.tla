------------------------------ MODULE BooksInv ------------------------------
(***************************************************************************)
(* The inductive invariant behind the theorems about Books.                *)
(***************************************************************************)
EXTENDS Books

States == {"pending", "funded", "settling", "paid_out", "completed"}

IntentRow == [state : States, ask : Asks, usdc : 1..MaxInt, rate : Rates]

Steps == {"credit_deposit", "trigger_payout", "apply_payout_result", "emit_completed"}

Runs == [state : {"none", "pending", "completed", "failed"}, step : Steps]

\* The steps that are reached through a payout.
PaidOut == {"apply_payout_result", "emit_completed"}

Has(i, kind) == journal[<<kind, i>>] # None

\* What the tables hold.
Tables ==
    /\ intent \in [Intents -> IntentRow \cup {NoIntent}]
    /\ DOMAIN tx = Deposits
    /\ rows \in Seq([sig : Deposits, amount : Int, intent : Intents \cup {None}])
    /\ saga \in [Intents -> Runs]
    /\ reason \in [Intents -> {"none", "rejected", "negative spread", "ledger", "transient"}]
    /\ late \subseteq [of : Intents, step : Steps, seen : States]
    /\ lapses \in 0..MaxLapses
    /\ paid \in [Intents -> Nat]
    /\ outbox \in [Intents -> Nat]
    /\ DOMAIN journal = Kinds \X Intents

\* An intent keeps the quote it was made with.
QuoteStands(i) ==
    /\ intent[i] # NoIntent => intent[i].usdc = Quoted(intent[i].ask, intent[i].rate)
    /\ paid[i] \in {0, intent[i].ask}
    /\ reason[i] = "negative spread" =>
          /\ intent[i] # NoIntent
          /\ ComputeMidIDR(intent[i].usdc, intent[i].rate) < intent[i].ask

\* The oldest row that is linked to the intent exists.
HasDeposit(i) ==
    \E k \in DOMAIN rows : rows[k].intent = i /\ \A j \in 1..(k - 1) : rows[j].intent # i

\* Nothing refers to an intent that was not made, and a run has a deposit.
References ==
    /\ \A d \in Deposits : tx[d] # NoTx => tx[d].ref \in Intents /\ intent[tx[d].ref] # NoIntent
    /\ \A i \in Intents :
          /\ saga[i].state = "none" => \A k \in DOMAIN rows : rows[k].intent # i
          /\ saga[i].state # "none" => HasDeposit(i) /\ intent[i] # NoIntent

\* What stands when a worker takes the step, in time or late: no effect of a
\* step is ever undone.
Ready(i, step) ==
    /\ step # "credit_deposit" => Has(i, "credit_deposit")
    /\ step \in PaidOut => paid[i] > 0
    /\ step = "emit_completed" => \A kind \in Kinds : Has(i, kind)

\* What each table says of the others.
Caused(i) ==
    /\ Ready(i, saga[i].step)
    /\ Has(i, "credit_deposit") => saga[i].state # "none" /\ saga[i].step # "credit_deposit"
    /\ paid[i] > 0 => Has(i, "credit_deposit")
    /\ saga[i].state = "completed" => outbox[i] > 0
    /\ intent[i].state \notin {"none", "pending"} => Has(i, "credit_deposit")
    /\ intent[i].state \in {"paid_out", "completed"} => \A kind \in Kinds : Has(i, kind)
    /\ Has(i, "payout_disbursed") => paid[i] > 0
    /\ lapses = 0 /\ paid[i] > 0 => saga[i].step \in PaidOut

\* A late worker claimed a run, and what stood then still does.
Latecomers ==
    /\ \A w \in late : saga[w.of].state # "none" /\ Ready(w.of, w.step)
    /\ lapses = 0 => late = {}

\* The USDC entries hold what was received and what was quoted.
Booked(i) ==
    /\ Has(i, "credit_deposit") =>
          \E k \in DOMAIN rows :
             rows[k].intent = i /\ journal[<<"credit_deposit", i>>] = CreditLines(rows[k].amount)
    /\ Has(i, "fx_swap_usdc") =>
          /\ Has(i, "credit_deposit")
          /\ intent[i] # NoIntent
          /\ journal[<<"fx_swap_usdc", i>>] = SwapLines(intent[i].usdc)

\* What the first parts of an intent's page showed still holds of the intent, and
\* bounds what the next ones may show.
Shown(i, at, r) ==
    /\ at >= 1
    /\ intent[i] # NoIntent
    /\ r["intent"] # "pending" => Has(i, "credit_deposit")
    /\ r["intent"] \in {"paid_out", "completed"} => \A kind \in Kinds : Has(i, kind)
    /\ at >= 2 => (r["intent"] # "pending" => r["onchain"] # {})
    /\ at >= 3 =>
          /\ r["intent"] # "pending" => "credit_deposit" \in r["entries"]
          /\ r["intent"] \in {"paid_out", "completed"} => r["entries"] = Kinds
          /\ "payout_disbursed" \in r["entries"] => paid[i] > 0
    /\ at >= 4 =>
          /\ "payout_disbursed" \in r["entries"] => r["payout"]
          /\ r["payout"] => paid[i] > 0
    /\ at >= 5 =>
          /\ r["payout"] =>
                /\ r["saga"].state # "none" /\ r["saga"].step # "credit_deposit"
                /\ lapses = 0 => r["saga"].step # "trigger_payout"
          /\ r["saga"].state = "completed" => outbox[i] > 0
    /\ at >= 6 => (r["saga"].state = "completed" => r["outbox"] > 0)

\* What the dashboard has read of the page it renders.
PageSoFar ==
    /\ page.of \in Intents \cup {None}
    /\ page.at \in 0..6
    /\ DOMAIN page.read = PartNames
    /\ page.of # None => Shown(page.of, page.at, page.read)

BInv ==
    /\ Tables
    /\ \A i \in Intents : QuoteStands(i) /\ Caused(i) /\ Booked(i)
    /\ References
    /\ Latecomers
    /\ PageSoFar

-----------------------------------------------------------------------------
(* Custody: what came in, what the ledger says came in, and what the       *)
(* walker has read of both.                                                *)

\* A transaction holds one transfer or two.
Transfers(d) ==
    tx[d] # NoTx =>
        /\ tx[d].transfers \in Seq([dest : {"hot_wallet", "other"}, amount : Nat])
        /\ Len(tx[d].transfers) \in 1..2
        /\ tx[d].transfers[Len(tx[d].transfers)].dest = "hot_wallet"

\* A row holds no more than its transaction moved, and a transaction has one row.
Recorded(k) ==
    /\ tx[rows[k].sig] # NoTx
    /\ rows[k].amount <= Received(rows[k].sig)
    /\ rows[k].amount \in 1..MaxInt
    /\ \A l \in DOMAIN rows : rows[l].sig = rows[k].sig => l = k

\* Only the credit of a deposit touches the hot wallet, and it posts the
\* oldest row's amount.
InCustody(i) ==
    /\ Has(i, "credit_deposit") =>
          HasDeposit(i) /\ journal[<<"credit_deposit", i>>] = CreditLines(DepositFor(i).amount)
    /\ Has(i, "payout_disbursed") => DOMAIN journal[<<"payout_disbursed", i>>] \subseteq IDR

\* What the walker read is what there still is, unless a deposit came in since.
Walking ==
    /\ walk.reading \in BOOLEAN
    /\ walk.reading =>
          /\ walk.final \subseteq Final
          /\ walk.final = Final => walk.onChain = OnChain

\* With BInv inductive, and behind LedgerTakesSteps and ReportIsTrue.
CInv ==
    /\ LedgerTakesSteps
    /\ \A d \in Deposits : Transfers(d)
    /\ \A k \in DOMAIN rows : Recorded(k)
    /\ \A i \in Intents : InCustody(i)
    /\ Walking
    /\ ReportIsTrue /\ report.status \in {"ok", "diverged"}

\* AccountBalanceByCode answers for the hot wallet what the cluster does exactly
\* when every final deposit is credited in full, whatever was swapped, paid out
\* and run again.
BalancesTell == OnChain = AccountBalanceByCode <=> Uncredited = {}
=============================================================================
