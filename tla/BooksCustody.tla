---------------------------- MODULE BooksCustody ----------------------------
(***************************************************************************)
(* Theorems about what the reconciliation walker compares: the ledger's    *)
(* hot wallet and the chain's.  A balance is a number of minor units, so   *)
(* two balances are equal when their units correspond one to one, and the  *)
(* ledger's always correspond to some of the chain's.                      *)
(***************************************************************************)
EXTENDS BooksProofs, FiniteSetTheorems

\* Pairs with a given first part.
LEMMA Pairs ==
  ASSUME NEW a, NEW S, NEW u
  PROVE  /\ u \in {a} \X S <=> \E n \in S : u = <<a, n>>
         /\ u \in {a} \X S => u[1] = a /\ u[2] \in S /\ u = <<u[1], u[2]>>
  OBVIOUS

\* The oldest deposit of a credited intent: what its row says.
LEMMA CreditedDeposit ==
  ASSUME BInv, CInv, NEW i \in Intents, Has(i, "credit_deposit")
  PROVE  /\ DepositFor(i).sig \in Final
         /\ DepositFor(i).amount <= Received(DepositFor(i).sig)
         /\ DepositFor(i).amount \in 1..MaxInt
         /\ journal[<<"credit_deposit", i>>] = CreditLines(DepositFor(i).amount)
         /\ \A j \in Intents : Has(j, "credit_deposit") /\ DepositFor(j).sig = DepositFor(i).sig => j = i
  <1>1. /\ HasDeposit(i)
        /\ journal[<<"credit_deposit", i>>] = CreditLines(DepositFor(i).amount)
    BY Zenon DEF CInv, InCustody
  <1>2. PICK k \in DOMAIN rows : rows[k].intent = i /\ DepositFor(i) = rows[k]
    BY Zenon, <1>1, DepositForRow
  <1>3. Recorded(k)
    BY Zenon, <1>2 DEF CInv
  <1>4. rows[k].sig \in Deposits
    BY Zenon, SigIsDeposit
  <1>5. ASSUME NEW j \in Intents, Has(j, "credit_deposit"), DepositFor(j).sig = DepositFor(i).sig
        PROVE  j = i
    <2>1. HasDeposit(j)
      BY Zenon, <1>5 DEF CInv, InCustody
    <2>2. PICK l \in DOMAIN rows : rows[l].intent = j /\ DepositFor(j) = rows[l]
      BY Zenon, <2>1, DepositForRow
    <2>3. l = k
      BY Zenon, <1>2, <1>3, <1>5, <2>2 DEF Recorded
    <2> QED BY Zenon, <1>2, <2>2, <2>3
  <1> QED BY Zenon, <1>1, <1>2, <1>3, <1>4, <1>5 DEF Recorded, Final

\* The entries that touch the hot wallet are the credits, on the debit side.
LEMMA CustodyEntries ==
  ASSUME BInv, CInv, NEW e \in Kinds \X Intents,
         journal[e] # None, "hot_wallet" \in DOMAIN journal[e]
  PROVE  \E i \in Intents :
           /\ Has(i, "credit_deposit") /\ e = <<"credit_deposit", i>>
           /\ journal[e]["hot_wallet"].dir = "debit"
           /\ journal[e]["hot_wallet"].amount = DepositFor(i).amount
  <1>1. PICK kind \in Kinds, i \in Intents : e = <<kind, i>>
    OBVIOUS
  <1>2. Has(i, kind)
    BY Zenon, <1>1 DEF Has
  <1>3. kind # "fx_swap_usdc"
    <2>1. SUFFICES ASSUME kind = "fx_swap_usdc" PROVE FALSE
      BY Zenon
    <2>2. journal[e] = SwapLines(intent[i].usdc)
      BY Zenon, <1>1, <1>2, <2>1 DEF BInv, Booked
    <2>3. DOMAIN SwapLines(intent[i].usdc) = {"user_funds", "fx_settlement"}
      BY Zenon DEF SwapLines
    <2> QED BY <2>2, <2>3
  <1>4. kind # "payout_disbursed"
    <2>1. SUFFICES ASSUME kind = "payout_disbursed" PROVE FALSE
      BY Zenon
    <2>2. DOMAIN journal[e] \subseteq IDR
      BY Zenon, <1>1, <1>2, <2>1 DEF CInv, InCustody
    <2> QED BY <2>2 DEF IDR
  <1>5. kind = "credit_deposit"
    BY Zenon, <1>3, <1>4 DEF Kinds
  <1>6. journal[e] = CreditLines(DepositFor(i).amount)
    BY Zenon, <1>1, <1>2, <1>5, CreditedDeposit
  <1>7. CreditLines(DepositFor(i).amount)["hot_wallet"] = Line(DepositFor(i).amount, "debit")
    BY DEF CreditLines
  <1>8. \A n : Line(n, "debit").dir = "debit" /\ Line(n, "debit").amount = n
    BY DEF Line
  <1>9. journal[e]["hot_wallet"] = Line(DepositFor(i).amount, "debit")
    BY Zenon, <1>6, <1>7
  <1>10. journal[e]["hot_wallet"].dir = "debit" /\ journal[e]["hot_wallet"].amount = DepositFor(i).amount
    BY Zenon, <1>8, <1>9
  <1>11. Has(i, "credit_deposit") /\ e = <<"credit_deposit", i>>
    BY Zenon, <1>1, <1>2, <1>5
  <1> QED BY Zenon, <1>10, <1>11

\* What a transaction moves to the hot wallet is a number.
LEMMA ReceivedType ==
  ASSUME CInv, NEW d \in Final
  PROVE  Received(d) \in Nat
  <1> DEFINE t == tx[d].transfers
  <1>1. /\ t \in Seq([dest : {"hot_wallet", "other"}, amount : Nat])
        /\ Len(t) \in 1..2
    BY Zenon DEF CInv, Transfers, Final
  <1>2. Received(d) = t[Len(t)].amount + IF Len(t) = 2 /\ Head(t).dest = "hot_wallet" THEN Head(t).amount ELSE 0
    BY Zenon DEF Received
  <1> HIDE DEF t
  <1>3. PICK T : t \in Seq(T) /\ \A x \in T : x.amount \in Nat
    <2> DEFINE T == [dest : {"hot_wallet", "other"}, amount : Nat]
    <2>1. \A x \in T : x.amount \in Nat
      BY Zenon
    <2> QED BY Zenon, <1>1, <2>1
  <1>4. t[Len(t)] \in T /\ Head(t) \in T
    BY <1>1, <1>3
  <1>5. t[Len(t)].amount \in Nat /\ Head(t).amount \in Nat
    BY Zenon, <1>3, <1>4
  <1> QED BY <1>2, <1>5

\* The hot wallet's balance in the ledger is its balance on the chain exactly
\* when every final deposit is credited in full: minor unit for minor unit, what
\* was credited is among what was received.
LEMMA BalancesAgree ==
  ASSUME BInv, CInv
  PROVE  /\ OnChain = AccountBalanceByCode <=> Uncredited = {}
         /\ AccountBalanceByCode \in Int /\ OnChain \in Int
  <1> DEFINE Sig(i) == DepositFor(i).sig
             Amt(i) == DepositFor(i).amount
             C == {i \in Intents : Has(i, "credit_deposit")}
             D == HotWallet("debit")
             U == UNION {{d} \X (1..Received(d)) : d \in Final}
             f == [u \in D |-> <<Sig(u[1][2]), u[2]>>]
  <1>1. \A i \in C : Sig(i) \in Final /\ Amt(i) <= Received(Sig(i)) /\ Amt(i) \in 1..MaxInt
    BY Zenon, CreditedDeposit
  <1>2. \A i, j \in C : Sig(i) = Sig(j) => i = j
    BY Zenon, CreditedDeposit
  <1>3. \A d \in Final : d \in Uncredited <=> Received(d) > 0 /\ ~ \E i \in C : Sig(i) = d /\ Amt(i) = Received(d)
    BY Zenon DEF Uncredited, Has
  <1>4. Cardinality(HotWallet("credit")) = 0
    <2>1. HotWallet("credit") = {}
      BY Zenon, CustodyEntries DEF HotWallet
    <2> QED BY Zenon, <2>1, FS_EmptySet
  <1>5. \A u \in D : \E i \in C : u[1] = <<"credit_deposit", i>> /\ u[2] \in 1..Amt(i) /\ u = <<u[1], u[2]>>
    <2>1. SUFFICES ASSUME NEW u \in D
                   PROVE  \E i \in C : u[1] = <<"credit_deposit", i>> /\ u[2] \in 1..Amt(i) /\ u = <<u[1], u[2]>>
      BY Zenon
    <2>2. PICK e \in Kinds \X Intents :
            /\ journal[e] # None /\ "hot_wallet" \in DOMAIN journal[e]
            /\ u \in {e} \X (1..journal[e]["hot_wallet"].amount)
      BY Zenon DEF HotWallet
    <2>3. u[1] = e /\ u[2] \in 1..journal[e]["hot_wallet"].amount /\ u = <<u[1], u[2]>>
      BY <2>2, Pairs
    <2> QED BY Zenon, <2>2, <2>3, CustodyEntries
  <1>6. \A i \in C : \A n \in 1..Amt(i) : <<<<"credit_deposit", i>>, n>> \in D
    <2>1. SUFFICES ASSUME NEW i \in C, NEW n \in 1..Amt(i) PROVE <<<<"credit_deposit", i>>, n>> \in D
      BY Zenon
    <2> DEFINE e == <<"credit_deposit", i>>
    <2>2. e \in Kinds \X Intents /\ journal[e] # None
      BY Zenon, AllKinds DEF Has
    <2>3. journal[e] = CreditLines(Amt(i))
      BY Zenon, CreditedDeposit
    <2>4. "hot_wallet" \in DOMAIN CreditLines(Amt(i)) /\ CreditLines(Amt(i))["hot_wallet"] = Line(Amt(i), "debit")
      BY DEF CreditLines
    <2>5. Line(Amt(i), "debit").dir = "debit" /\ Line(Amt(i), "debit").amount = Amt(i)
      BY DEF Line
    <2>6. /\ "hot_wallet" \in DOMAIN journal[e] /\ journal[e]["hot_wallet"].dir = "debit"
          /\ journal[e]["hot_wallet"].amount = Amt(i)
      BY Zenon, <2>3, <2>4, <2>5
    <2>7. <<e, n>> \in {e} \X (1..journal[e]["hot_wallet"].amount)
      BY Zenon, <2>6
    <2> QED BY Zenon, <2>2, <2>6, <2>7 DEF HotWallet
  <1>7. \A u : u \in U <=> \E d \in Final : \E n \in 1..Received(d) : u = <<d, n>>
    <2>1. \A d, u : u \in {d} \X (1..Received(d)) <=> \E n \in 1..Received(d) : u = <<d, n>>
      BY Pairs
    <2> DEFINE G(d) == {d} \X (1..Received(d))
    <2>2. \A u : u \in U <=> \E d \in Final : u \in G(d)
      <3> HIDE DEF G
      <3> QED BY Zenon DEF G
    <2> QED BY <2>1, <2>2
  <1>8. IsFiniteSet(U)
    <2> DEFINE G(d) == {d} \X (1..Received(d))
               S == {G(d) : d \in Final}
               g == [d \in Final |-> G(d)]
    <2>1. IsFiniteSet(Final)
      <3>1. Final \in SUBSET Deposits
        BY Zenon DEF Final
      <3> QED BY Zenon, <3>1, FS_Subset, BooksAssumption
    <2>2. g \in Surjection(Final, S)
      <3> HIDE DEF G
      <3> QED BY Zenon DEF Surjection
    <2>3. IsFiniteSet(S)
      BY Zenon, <2>1, <2>2, FS_Surjection
    <2>4. \A d \in Final : IsFiniteSet(G(d))
      <3>1. SUFFICES ASSUME NEW d \in Final PROVE IsFiniteSet(G(d))
        BY Zenon
      <3>2. Received(d) \in Int /\ 1 \in Int
        BY Zenon, ReceivedType, NatInt
      <3>3. IsFiniteSet(1..Received(d)) /\ IsFiniteSet({d})
        BY Zenon, <3>2, FS_Interval, FS_Singleton
      <3> QED BY Zenon, <3>3, FS_Product
    <2>5. \A x \in S : IsFiniteSet(x)
      <3> HIDE DEF G
      <3> QED BY Zenon, <2>4
    <2> QED BY Zenon, <2>3, <2>5, FS_UNION
  <1>9. \A u \in D : \A i \in C : u[1] = <<"credit_deposit", i>> => f[u] = <<Sig(i), u[2]>>
    <2> HIDE DEF Sig, Amt, C, D
    <2> QED OBVIOUS
  <1>10. f \in Injection(D, U)
    <2> HIDE DEF Sig, Amt, C, D, U
    <2>1. ASSUME NEW u \in D PROVE f[u] \in U
      <3>1. PICK i \in C : u[1] = <<"credit_deposit", i>> /\ u[2] \in 1..Amt(i)
        BY Zenon, <1>5
      <3>2. f[u] = <<Sig(i), u[2]>>
        BY Zenon, <1>9, <3>1
      <3>3. u[2] \in 1..Received(Sig(i))
        <4>1. Received(Sig(i)) \in Nat /\ Amt(i) \in 1..MaxInt /\ Amt(i) <= Received(Sig(i))
          BY Zenon, <1>1, ReceivedType
        <4> QED BY <3>1, <4>1, PricingAssumption
      <3> QED BY Zenon, <1>1, <1>7, <3>2, <3>3
    <2>2. ASSUME NEW u \in D, NEW v \in D, f[u] = f[v] PROVE u = v
      <3>1. PICK i \in C : u[1] = <<"credit_deposit", i>> /\ u[2] \in 1..Amt(i) /\ u = <<u[1], u[2]>>
        BY Zenon, <1>5
      <3>2. PICK j \in C : v[1] = <<"credit_deposit", j>> /\ v[2] \in 1..Amt(j) /\ v = <<v[1], v[2]>>
        BY Zenon, <1>5
      <3>3. f[u] = <<Sig(i), u[2]>> /\ f[v] = <<Sig(j), v[2]>>
        BY Zenon, <1>9, <3>1, <3>2
      <3>4. Sig(i) = Sig(j) /\ u[2] = v[2]
        BY <2>2, <3>3
      <3> QED BY Zenon, <1>2, <3>1, <3>2, <3>4
    <2>3. f \in [D -> U]
      BY Zenon, <2>1
    <2> HIDE DEF f
    <2> QED BY Zenon, <2>2, <2>3 DEF Injection, IsInjective
  <1>11. /\ Cardinality(D) = Cardinality(U) <=> f \in Surjection(D, U)
         /\ IsFiniteSet(D)
    <2> HIDE DEF f, D, U
    <2> QED BY Zenon, <1>8, <1>10, FS_Injection
  <1>12. ASSUME f \in Surjection(D, U), NEW d \in Final, Received(d) > 0
         PROVE  \E i \in C : Sig(i) = d /\ Amt(i) = Received(d)
    <2> HIDE DEF Sig, Amt, C, D, U
    <2>1. Received(d) \in Nat
      BY Zenon, ReceivedType
    <2>2. Received(d) \in 1..Received(d)
      BY <1>12, <2>1
    <2>3. <<d, Received(d)>> \in U
      BY Zenon, <1>7, <2>2
    <2>4. PICK u \in D : f[u] = <<d, Received(d)>>
      <3> HIDE DEF f
      <3> QED BY Zenon, <1>12, <2>3 DEF Surjection
    <2>5. PICK i \in C : u[1] = <<"credit_deposit", i>> /\ u[2] \in 1..Amt(i)
      BY Zenon, <1>5
    <2>6. f[u] = <<Sig(i), u[2]>>
      BY Zenon, <1>9, <2>5
    <2> HIDE DEF f
    <2>7. Sig(i) = d /\ u[2] = Received(d)
      BY <2>4, <2>6
    <2>8. Amt(i) \in 1..MaxInt /\ Amt(i) <= Received(d)
      BY Zenon, <1>1, <2>7
    <2>9. Amt(i) = Received(d)
      BY <2>1, <2>5, <2>7, <2>8, PricingAssumption
    <2> QED BY Zenon, <2>7, <2>9
  <1>13. ASSUME Uncredited = {} PROVE f \in Surjection(D, U)
    <2> HIDE DEF Sig, Amt, C, D, U
    <2>1. ASSUME NEW t \in U PROVE \E u \in D : f[u] = t
      <3>1. PICK d \in Final : \E n \in 1..Received(d) : t = <<d, n>>
        BY Zenon, <1>7, <2>1
      <3>2. PICK n \in 1..Received(d) : t = <<d, n>>
        BY Zenon, <3>1
      <3>3. Received(d) > 0
        <4>1. Received(d) \in Nat
          BY Zenon, ReceivedType
        <4> QED BY <3>2, <4>1
      <3>4. PICK i \in C : Sig(i) = d /\ Amt(i) = Received(d)
        BY Zenon, <1>3, <1>13, <3>3
      <3> DEFINE u == <<<<"credit_deposit", i>>, n>>
      <3>5. u \in D
        BY Zenon, <1>6, <3>4
      <3>6. u[1] = <<"credit_deposit", i>> /\ u[2] = n
        OBVIOUS
      <3> HIDE DEF u, f
      <3>7. f[u] = <<Sig(i), n>>
        BY Zenon, <1>9, <3>5, <3>6
      <3> QED BY Zenon, <3>2, <3>4, <3>5, <3>7
    <2>2. f \in [D -> U]
      <3> HIDE DEF f
      <3> QED BY Zenon, <1>10 DEF Injection
    <2> HIDE DEF f
    <2> QED BY Zenon, <2>1, <2>2 DEF Surjection
  <1>14. Cardinality(D) = Cardinality(U) <=> Uncredited = {}
    <2> HIDE DEF Sig, Amt, C, D, U, f
    <2>1. \A d \in Uncredited : d \in Final
      BY Zenon DEF Uncredited
    <2>2. f \in Surjection(D, U) => Uncredited = {}
      BY Zenon, <1>3, <1>12, <2>1
    <2> QED BY Zenon, <1>11, <1>13, <2>2
  <1>15. Cardinality(D) \in Nat /\ Cardinality(U) \in Nat
    <2> HIDE DEF D, U
    <2> QED BY Zenon, <1>8, <1>11, FS_CardinalityType
  <1>16. AccountBalanceByCode = Cardinality(D)
    <2> HIDE DEF D
    <2>1. AccountBalanceByCode = Cardinality(D) - 0
      BY Zenon, <1>4 DEF AccountBalanceByCode, D
    <2> QED BY <1>15, <2>1
  <1> QED BY Zenon, <1>14, <1>15, <1>16, NatInt DEF OnChain

\* What the walker reports: if no deposit came in between, both reads are of the
\* same money.
LEMMA WalkInCustody ==
  ASSUME BInv, CInv, Walk
  PROVE  CInv'
  <1> DEFINE diff == walk.onChain - AccountBalanceByCode
             new == [status  |-> IF diff = 0 THEN "ok" ELSE "diverged",
                     steady  |-> Final = walk.final,
                     missing |-> Uncredited # {}]
  <1>1. /\ walk.reading /\ walk' = NoWalk /\ (report' = report \/ report' = new)
        /\ UNCHANGED <<intent, tx, rows, saga, reason, journal, paid, outbox, page>>
    BY Zenon DEF Walk, money
  <1>2. ReportIsTrue' /\ report'.status \in {"ok", "diverged"}
    <2>1. CASE report' = report
      BY Zenon, <2>1 DEF CInv, ReportIsTrue
    <2>2. CASE report' = new
      <3>1. /\ report'.status = IF diff = 0 THEN "ok" ELSE "diverged"
            /\ report'.steady = (Final = walk.final)
            /\ report'.missing = (Uncredited # {})
        BY Zenon, <2>2
      <3>2. ASSUME Final = walk.final PROVE diff = 0 <=> Uncredited = {}
        <4>1. walk.onChain = OnChain
          BY Zenon, <1>1, <3>2 DEF CInv, Walking
        <4>2. /\ OnChain = AccountBalanceByCode <=> Uncredited = {}
              /\ AccountBalanceByCode \in Int /\ OnChain \in Int
          BY Zenon, BalancesAgree
        <4>3. diff = 0 <=> OnChain = AccountBalanceByCode
          BY <4>1, <4>2
        <4> HIDE DEF diff
        <4> QED BY Zenon, <4>2, <4>3
      <3> HIDE DEF diff
      <3> QED BY Zenon, <3>1, <3>2 DEF ReportIsTrue
    <2> QED BY Zenon, <1>1, <2>1, <2>2
  <1>3. Walking'
    <2>1. NoWalk.reading = FALSE
      BY DEF NoWalk
    <2> QED BY Zenon, <1>1, <2>1 DEF Walking
  <1>4. \A i \in Intents : InCustody(i)'
    BY Zenon, <1>1, InCustodyStays DEF CInv
  <1>5. \A k \in DOMAIN rows' : Recorded(k)'
    BY Zenon, <1>1 DEF CInv, Recorded, Received
  <1>6. LedgerTakesSteps' /\ \A e \in Deposits : Transfers(e)'
    BY Zenon, <1>1 DEF CInv, LedgerTakesSteps, Transfers
  <1> QED BY Zenon, <1>2, <1>3, <1>4, <1>5, <1>6 DEF CInv

\* Every step keeps custody in order.
LEMMA CustodyInvariance == BInv /\ CInv /\ [Next]_vars => CInv'
  <1> SUFFICES ASSUME BInv, CInv, [Next]_vars PROVE CInv'
    OBVIOUS
  <1>1. ASSUME UNCHANGED <<tx, rows, reason, journal, walk, report>> PROVE CInv'
    <2>1. LedgerTakesSteps'
      BY Zenon, <1>1 DEF CInv, LedgerTakesSteps
    <2> QED BY Zenon, <1>1, <2>1, JournalStays
  <1>2. ASSUME NEW i \in Intents, CreatePaymentIntent(i) PROVE CInv'
    BY Zenon, <1>1, <1>2 DEF CreatePaymentIntent, readers
  <1>3. ASSUME NEW i \in Intents, Tick(i) PROVE CInv'
    <2>1. saga[i].state # "none" /\ Ready(i, saga[i].step) /\ UNCHANGED <<walk, report>>
      BY Zenon, <1>3 DEF Tick, readers, BInv, Caused
    <2> QED BY Zenon, <1>3, <2>1, ExecuteInCustody DEF Tick
  <1>4. ASSUME NEW i \in Intents, LeaseRunsOut(i) PROVE CInv'
    BY Zenon, <1>1, <1>4 DEF LeaseRunsOut, money, readers
  <1>5. ASSUME NEW w \in late, LateTick(w) PROVE CInv'
    <2>1. w.of \in Intents /\ saga[w.of].state # "none" /\ Ready(w.of, w.step)
      BY Zenon DEF BInv, Tables, Latecomers
    <2>2. UNCHANGED <<walk, report>>
      BY Zenon, <1>5 DEF LateTick, readers
    <2>3. PICK seen : Execute(w.of, w.step, seen)
      BY Zenon, <1>5 DEF LateTick
    <2> QED BY Zenon, <2>1, <2>2, <2>3, ExecuteInCustody
  <1>6. ASSUME NEW i \in Intents, HandleIntent(i) PROVE CInv'
    BY Zenon, <1>1, <1>6 DEF HandleIntent, money
  <1>7. ASSUME NEW d \in Deposits, Pay(d) PROVE CInv'
    BY Zenon, <1>7, PayInCustody
  <1>8. ASSUME NEW d \in Deposits, ProcessSignature(d) PROVE CInv'
    BY Zenon, <1>8, ProcessInCustody
  <1>9. CASE FetchOnChainBalance
    BY Zenon, <1>9, FetchInCustody
  <1>10. CASE Walk
    BY Zenon, <1>10, WalkInCustody
  <1>11. CASE LoadIntentView
    BY Zenon, <1>1, <1>11 DEF LoadIntentView, money
  <1>12. CASE UNCHANGED vars
    BY Zenon, <1>1, <1>12 DEF vars, money, readers
  <1> QED
    BY Zenon, <1>2, <1>3, <1>4, <1>5, <1>6, <1>7, <1>8, <1>9, <1>10, <1>11, <1>12
    DEF Next

\* Deposits, rows, credits and the walker's reads agree in every state the
\* program reaches.
THEOREM CustodyInductive == Spec => []CInv
  BY BInvInit, Invariance, CInvInit, CustodyInvariance, PTL DEF Spec

\* ledger.Validate and the deferred balance trigger take every entry that
\* CreditDeposit and ApplyPayoutResult build: no run fails for a line of zero
\* or a currency out of balance, for every rate, spread, ask and deposit.
THEOREM LedgerTakesEverything == Spec => []LedgerTakesSteps
  <1>1. CInv => LedgerTakesSteps
    BY Zenon DEF CInv
  <1> QED BY <1>1, CustodyInductive, PTL

\* The ledger's hot wallet and the chain's hold the same amount exactly when
\* every final deposit is credited in full: the swap and the payout of
\* ApplyPayoutResult move nothing in custody, and CreditDeposit credits each
\* deposit once, however late and however often it runs.
THEOREM BalancesMatch == Spec => []BalancesTell
  <1>1. BInv /\ CInv => BalancesTell
    BY Zenon, BalancesAgree DEF BalancesTell
  <1> QED BY <1>1, Inductive, CustodyInductive, PTL

\* A report of the reconciliation walker, if no deposit became final during its
\* pass, says "diverged" exactly when the ledger lacks something the hot wallet
\* received, however its two reads interleave with settlement steps: for any
\* number of intents, deposits and late workers.
THEOREM ReportsAreTrue == Spec => []ReportIsTrue
  <1>1. CInv => ReportIsTrue
    BY Zenon DEF CInv
  <1> QED BY <1>1, CustodyInductive, PTL

\* What stays on user_funds after the swap.
LEMMA UserFundsLines ==
  ASSUME NEW a \in Int, NEW b \in Int
  PROVE  Net(CreditLines(a), "user_funds") + Net(SwapLines(b), "user_funds") = b - a
  <1> DEFINE c == CreditLines(a)
             w == SwapLines(b)
  <1>1. /\ "user_funds" \in DOMAIN c /\ "user_funds" \in DOMAIN w
        /\ c["user_funds"] = Line(a, "credit") /\ w["user_funds"] = Line(b, "debit")
    BY DEF CreditLines, SwapLines
  <1> HIDE DEF c, w
  <1>2. Net(c, "user_funds") = -a /\ Net(w, "user_funds") = b
    BY Zenon, <1>1, NetIs
  <1>3. Net(c, "user_funds") + Net(w, "user_funds") = b - a
    BY <1>2
  <1> QED BY <1>3 DEF c, w

\* Once CreditDeposit and ApplyPayoutResult have posted an intent's entries, user_funds
\* keeps exactly what the payer sent beside the quote, for any number of deposits
\* of one intent and of late workers.
THEOREM SlipIsKept == Spec => []UserFundsKeepSlip
  <1>1. BInv /\ CInv => UserFundsKeepSlip
    <2> SUFFICES ASSUME BInv, CInv, NEW i \in Intents, Has(i, "fx_swap_usdc")
                 PROVE  Net(journal[<<"credit_deposit", i>>], "user_funds")
                          + Net(journal[<<"fx_swap_usdc", i>>], "user_funds")
                            = intent[i].usdc - DepositFor(i).amount
      BY Zenon DEF UserFundsKeepSlip, Has
    <2>1. /\ intent[i] # NoIntent /\ Has(i, "credit_deposit")
          /\ journal[<<"fx_swap_usdc", i>>] = SwapLines(intent[i].usdc)
      BY Zenon DEF BInv, Booked
    <2>2. /\ journal[<<"credit_deposit", i>>] = CreditLines(DepositFor(i).amount)
          /\ DepositFor(i).amount \in 1..MaxInt
      BY Zenon, <2>1, CreditedDeposit
    <2>3. intent[i] \in IntentRow
      BY Zenon, <2>1 DEF BInv, Tables
    <2>4. intent[i].usdc \in Nat
      BY Zenon, <2>3, RowColumns
    <2>5. \A n \in 1..MaxInt : n \in Int
      BY PricingAssumption
    <2> QED BY Zenon, <2>1, <2>2, <2>4, <2>5, NatInt, UserFundsLines
  <1> QED BY <1>1, Inductive, CustodyInductive, PTL

\* The rows' columns keep their types.
THEOREM TypeCorrect == Spec => []TypeOK
  <1>1. ASSUME BInv, CInv PROVE TypeOK
    <2>1. ASSUME NEW i \in Intents
          PROVE  /\ intent[i] = NoIntent \/ intent[i] \in
                      [state : {"pending", "funded", "settling", "paid_out", "completed"},
                       ask : Asks, usdc : 1..MaxInt, rate : Rates]
                 /\ saga[i] \in [state : {"none", "pending", "completed", "failed"},
                                 step : {"credit_deposit", "trigger_payout", "apply_payout_result",
                                         "emit_completed"}]
                 /\ reason[i] \in {"none", "rejected", "negative spread", "ledger", "transient"}
                 /\ paid[i] \in {0, intent[i].ask}
                 /\ outbox[i] \in Nat
      <3>1. intent[i] \in IntentRow \cup {NoIntent} /\ saga[i] \in Runs
        BY Zenon, <1>1 DEF BInv, Tables
      <3>2. /\ reason[i] \in {"none", "rejected", "negative spread", "ledger", "transient"}
            /\ paid[i] \in {0, intent[i].ask}
            /\ outbox[i] \in Nat
        BY Zenon, <1>1 DEF BInv, Tables, QuoteStands
      <3> QED BY Zenon, <3>1, <3>2 DEF IntentRow, States, Runs, Steps
    <2>2. ASSUME NEW i \in Intents, NEW k \in Kinds
          PROVE  journal[<<k, i>>] = None \/ DOMAIN journal[<<k, i>>] \subseteq USDC \cup IDR
      <3>1. \A n : DOMAIN CreditLines(n) \subseteq USDC /\ DOMAIN SwapLines(n) \subseteq USDC
        BY DEF CreditLines, SwapLines, USDC
      <3>2. CASE k = "credit_deposit"
        BY Zenon, <1>1, <3>1, <3>2 DEF CInv, InCustody, Has
      <3>3. CASE k = "fx_swap_usdc"
        BY Zenon, <1>1, <3>1, <3>3 DEF BInv, Booked, Has
      <3>4. CASE k = "payout_disbursed"
        BY Zenon, <1>1, <3>4 DEF CInv, InCustody, Has
      <3> QED BY Zenon, <3>2, <3>3, <3>4 DEF Kinds
    <2>3. ASSUME NEW d \in Deposits, tx[d] # NoTx
          PROVE  tx[d].ref \in Intents /\ Len(tx[d].transfers) \in 1..2
      BY Zenon, <1>1, <2>3 DEF BInv, References, CInv, Transfers
    <2>4. ASSUME NEW k \in DOMAIN rows
          PROVE  rows[k] \in [sig : Deposits, amount : Nat, intent : Intents \cup {None}]
      <3>1. rows \in Seq([sig : Deposits, amount : Int, intent : Intents \cup {None}])
        BY Zenon, <1>1 DEF BInv, Tables
      <3>2. \A S : rows \in Seq(S) => rows[k] \in S
        OBVIOUS
      <3>3. rows[k] \in [sig : Deposits, amount : Int, intent : Intents \cup {None}]
        BY Zenon, <3>1, <3>2
      <3>4. rows[k].amount \in 1..MaxInt
        BY Zenon, <1>1 DEF CInv, Recorded
      <3>5. rows[k].amount \in Nat
        BY <3>4, PricingAssumption
      <3> QED BY <3>3, <3>5
    <2>5. /\ walk.reading \in BOOLEAN /\ report.status \in {"ok", "diverged"}
          /\ page.of \in Intents \cup {None}
      BY Zenon, <1>1 DEF BInv, PageSoFar, CInv, Walking
    <2>6. page.at \in 0..Len(Parts)
      BY Zenon, <1>1, PartsAre DEF BInv, PageSoFar
    <2>7. /\ \A w \in late : w.of \in Intents /\ saga[w.of].state # "none"
          /\ lapses \in 0..MaxLapses
      BY Zenon, <1>1 DEF BInv, Tables, Latecomers
    <2> QED BY Zenon, <2>1, <2>2, <2>3, <2>4, <2>5, <2>6, <2>7 DEF TypeOK
  <1> QED BY <1>1, Inductive, CustodyInductive, PTL

=============================================================================
