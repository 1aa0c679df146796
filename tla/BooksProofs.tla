----------------------------- MODULE BooksProofs -----------------------------
(***************************************************************************)
(* Theorems about Pricing and Books for every unit, spread, rate, amount   *)
(* and set of intents and deposits.                                        *)
(***************************************************************************)
EXTENDS BooksInv, TLAPS

-----------------------------------------------------------------------------
(* Division.                                                               *)

\* What rounding down gives away is less than one divisor.
LEMMA DivBounds ==
  ASSUME NEW a \in Nat, NEW b \in Nat \ {0}
  PROVE  /\ a \div b \in Nat
         /\ (a \div b) * b <= a
         /\ a < (a \div b) * b + b
  OBVIOUS

\* A quotient is at least any factor that fits.
LEMMA DivAtLeast ==
  ASSUME NEW a \in Nat, NEW b \in Nat \ {0}, NEW k \in Nat, k * b <= a
  PROVE  a \div b >= k
  OBVIOUS

\* A multiple divides without a rest.
LEMMA DivExact ==
  ASSUME NEW b \in Nat \ {0}, NEW k \in Nat
  PROVE  (k * b) \div b = k /\ (k * b) % b = 0
  OBVIOUS

\* Without a rest, the quotient times the divisor is the number.
LEMMA ModZero ==
  ASSUME NEW a \in Nat, NEW b \in Nat \ {0}, a % b = 0
  PROVE  (a \div b) * b = a
  OBVIOUS

\* Products of naturals are naturals, and keep an order.
LEMMA Products ==
  ASSUME NEW a \in Nat, NEW b \in Nat, NEW c \in Nat
  PROVE  /\ a * b \in Nat
         /\ a <= b => a * c <= b * c
         /\ c > 0 /\ a * c < b * c => a < b
  OBVIOUS

-----------------------------------------------------------------------------
(* A quote.                                                                *)

\* QuoteAmount answers 0, or the quotient when it fits.
LEMMA QuoteAmountCases ==
  ASSUME NEW idr, NEW rate, NEW spread, QuoteAmount(idr, rate, spread) # 0
  PROVE  LET eff == rate.num * (Bps - spread) * rate.unit
             out == (idr * USDCUnit * Bps) \div eff
         IN  eff # 0 /\ ~(out > MaxInt) /\ QuoteAmount(idr, rate, spread) = out
  BY Zenon DEF QuoteAmount

\* QuoteAmount answers 0 or an int64.
LEMMA QuoteAmountType ==
  ASSUME NEW idr \in Nat, NEW rate \in Rate, NEW spread \in 0..Bps
  PROVE  QuoteAmount(idr, rate, spread) \in 0..MaxInt
  <1> DEFINE num == idr * USDCUnit * Bps
             eff == rate.num * (Bps - spread) * rate.unit
  <1>1. num \in Nat /\ eff \in Nat
    <2>1. Bps - spread \in Nat /\ rate.num \in Nat /\ rate.unit \in Nat
      BY PricingAssumption DEF Rate
    <2> QED BY <2>1, Products, PricingAssumption
  <1>2. QuoteAmount(idr, rate, spread) # 0 =>
          eff # 0 /\ ~(num \div eff > MaxInt) /\ QuoteAmount(idr, rate, spread) = num \div eff
    BY Zenon, QuoteAmountCases
  <1> HIDE DEF num, eff
  <1>3. eff # 0 => num \div eff \in Nat
    BY <1>1, DivBounds
  <1> QED BY <1>2, <1>3, PricingAssumption

\* computeMidIDR answers the quotient when it fits.
LEMMA ComputeMidIDRFits ==
  ASSUME NEW usdc, NEW rate,
         ~((usdc * rate.num) \div (USDCUnit * rate.unit) > MaxInt)
  PROVE  ComputeMidIDR(usdc, rate) = (usdc * rate.num) \div (USDCUnit * rate.unit)
  BY Zenon DEF ComputeMidIDR

\* A covered quote is worth what the merchant asked, at the mid rate: the
\* subtraction in ApplyPayoutResult.Execute is never negative for it, however
\* QuoteAmount and computeMidIDR round.
THEOREM CoveredIsWorthAsk ==
  ASSUME NEW idr \in Nat \ {0}, NEW rate \in Rate, NEW spread \in 0..Bps,
         Covered(idr, rate, spread), QuoteAmount(idr, rate, spread) > 0
  PROVE  ComputeMidIDR(QuoteAmount(idr, rate, spread), rate) >= idr
  <1> DEFINE N == rate.num
             S == Bps - spread
             U == USDCUnit
             q == QuoteAmount(idr, rate, spread)
  <1>1. /\ N \in Nat /\ S \in Nat /\ U \in Nat \ {0} /\ rate.unit = 1
        /\ N <= U /\ idr * spread * U >= N * S
    BY PricingAssumption DEF Rate, Covered
  <1>2. q = (idr * U * Bps) \div (N * S * 1) /\ N * S * 1 # 0 /\ q <= MaxInt
    <2>1. q # 0 /\ q \in 0..MaxInt
      BY QuoteAmountType, PricingAssumption
    <2>2. q = (idr * U * Bps) \div (N * S * rate.unit) /\ N * S * rate.unit # 0
      BY Zenon, <2>1, QuoteAmountCases
    <2> QED BY <1>1, <2>1, <2>2, PricingAssumption
  <1>3. N * S \in Nat \ {0} /\ idr * U * Bps \in Nat /\ q \in Nat
    <2>1. N * S \in Nat /\ N * S * 1 = N * S
      BY <1>1, Products
    <2>2. idr * U \in Nat /\ idr * U * Bps \in Nat
      BY <1>1, Products, PricingAssumption
    <2>3. q \in Nat
      BY QuoteAmountType, PricingAssumption
    <2> QED BY <1>2, <2>1, <2>2, <2>3
  <1> HIDE DEF q
  <1>4. idr * U * Bps < q * (N * S) + N * S
    <2>1. N * S * 1 = N * S
      BY <1>3
    <2> QED BY Zenon, <1>2, <1>3, <2>1, DivBounds
  <1>5. idr * U * Bps = (idr * U) * S + idr * spread * U
    BY <1>1, PricingAssumption
  <1>6. (idr * U) * S < (q * N) * S
    BY <1>1, <1>3, <1>4, <1>5, PricingAssumption
  <1>7. idr * U < q * N
    <2>1. S > 0 /\ idr * U \in Nat /\ q * N \in Nat
      BY <1>1, <1>3, Products
    <2> QED BY <1>1, <1>6, <2>1, Products
  <1>8. q * N \in Nat /\ q * N <= MaxInt * U
    <2>1. q * N <= q * U /\ q * U <= MaxInt * U
      BY <1>1, <1>2, <1>3, PricingAssumption
    <2> QED BY <1>1, <1>3, <2>1, Products, PricingAssumption
  <1>9. (q * N) \div U >= idr /\ (q * N) \div U <= MaxInt
    <2>1. (q * N) \div U >= idr
      BY <1>1, <1>7, <1>8, DivAtLeast
    <2>2. ((q * N) \div U) * U <= MaxInt * U /\ (q * N) \div U \in Nat
      <3>1. ((q * N) \div U) * U <= q * N /\ (q * N) \div U \in Nat
        BY Zenon, <1>1, <1>8, DivBounds
      <3> HIDE DEF N, U
      <3> QED BY <1>1, <1>3, <1>8, <3>1, PricingAssumption
    <2> QED BY <1>1, <2>1, <2>2, PricingAssumption
  <1>10. U * rate.unit = U /\ ~((q * N) \div U > MaxInt)
    <2>1. U * rate.unit = U
      BY <1>1
    <2> DEFINE mid == (q * N) \div U
    <2>2. mid \in Nat /\ mid <= MaxInt
      BY <1>1, <1>8, <1>9, DivBounds
    <2> HIDE DEF mid
    <2>3. ~(mid > MaxInt)
      BY <2>2, PricingAssumption
    <2> QED BY Zenon, <2>1, <2>3 DEF mid
  <1>11. ComputeMidIDR(q, rate) = (q * N) \div U
    BY Zenon, <1>10, ComputeMidIDRFits
  <1> QED BY <1>9, <1>11 DEF q

-----------------------------------------------------------------------------
(* The amount in a URL.                                                    *)

\* The digits FormatAmount keeps: the fraction ends where trimming it further
\* would lose something, and there is such a place.
LEMMA TrimmedUnit ==
  ASSUME NEW frac \in Nat
  PROVE  LET Ends(u) == frac % (USDCUnit \div u) = 0
             unit == CHOOSE u \in Units : Ends(u) /\ \A v \in Units : v < u => ~Ends(v)
         IN  unit \in Units /\ Ends(unit)
  <1> DEFINE Ends(u) == frac % (USDCUnit \div u) = 0
             T == {u \in Units : Ends(u)}
  <1>1. USDCUnit \in T
    <2>1. USDCUnit \div USDCUnit = 1
      BY DivExact, PricingAssumption
    <2>2. frac % 1 = 0
      OBVIOUS
    <2> QED BY <2>1, <2>2, PricingAssumption
  <1>2. PICK u \in T : \A v \in T : u <= v
    BY Zenon, <1>1, PricingAssumption
  <1>3. \A v \in Units : v < u => ~Ends(v)
    <2> HIDE DEF Ends
    <2> QED BY <1>2, PricingAssumption
  <1> HIDE DEF Ends
  <1>4. \E w \in Units : Ends(w) /\ \A v \in Units : v < w => ~Ends(v)
    BY Zenon, <1>2, <1>3
  <1> QED BY Zenon, <1>4 DEF Ends

\* A unit divides USDCUnit.
LEMMA UnitDivides ==
  ASSUME NEW u \in Units
  PROVE  /\ u \in Nat \ {0} /\ u <= USDCUnit
         /\ USDCUnit \div u \in Nat \ {0}
         /\ (USDCUnit \div u) * u = USDCUnit
  <1>1. PICK k \in 1..USDCUnit : u * k = USDCUnit
    BY PricingAssumption
  <1>2. u \in Nat \ {0} /\ k \in Nat \ {0} /\ k * u = USDCUnit
    BY <1>1, PricingAssumption
  <1>3. USDCUnit \div u = k
    BY <1>2, DivExact
  <1> QED BY <1>2, <1>3

\* FormatAmount keeps every digit that counts.
LEMMA FormatAmountParts ==
  ASSUME NEW raw \in Nat
  PROVE  LET s == FormatAmount(raw)
             k == USDCUnit \div s.unit
         IN  /\ s.unit \in Units /\ s.whole \in Nat /\ s.frac \in Nat
             /\ s.whole * USDCUnit + s.frac * k = raw
  <1> DEFINE s == FormatAmount(raw)
             k == USDCUnit \div s.unit
             frac == raw % USDCUnit
  <1>1. /\ frac \in Nat
        /\ raw \div USDCUnit \in Nat
        /\ (raw \div USDCUnit) * USDCUnit + frac = raw
    BY PricingAssumption
  <1>2. s.whole = raw \div USDCUnit /\ s.frac = frac \div k
    BY DEF FormatAmount
  <1>3. s.unit \in Units /\ frac % k = 0
    <2>1. s.unit = CHOOSE u \in Units :
                     /\ frac % (USDCUnit \div u) = 0
                     /\ \A v \in Units : v < u => ~(frac % (USDCUnit \div v) = 0)
      BY Zenon DEF FormatAmount
    <2> HIDE DEF frac, s
    <2> QED BY Zenon, <1>1, <2>1, TrimmedUnit
  <1>4. k \in Nat \ {0}
    BY Zenon, <1>3, UnitDivides
  <1> HIDE DEF s, k, frac
  <1>5. (frac \div k) * k = frac /\ frac \div k \in Nat
    BY <1>1, <1>3, <1>4, ModZero, DivBounds
  <1>6. s.whole * USDCUnit + s.frac * k = raw
    BY <1>1, <1>2, <1>5
  <1> QED BY Zenon, <1>1, <1>2, <1>3, <1>5, <1>6 DEF s, k

\* Reading back what FormatAmount wrote gives the amount, to the paying
\* script's decimalToRaw and to ParseAmount, for every int64 and every number
\* of decimals.
THEOREM URLRoundTrip ==
  ASSUME NEW raw \in 0..MaxInt
  PROVE  /\ DecimalToRaw(FormatAmount(raw)) = raw
         /\ ParseAmount(FormatAmount(raw)) = raw
  <1> DEFINE s == FormatAmount(raw)
             k == USDCUnit \div s.unit
             U == USDCUnit
  <1>1. raw \in Nat /\ raw <= MaxUint /\ MaxUint \in Nat /\ U \in Nat \ {0}
    BY PricingAssumption DEF MaxUint
  <1>2. /\ s.unit \in Units /\ s.whole \in Nat /\ s.frac \in Nat
        /\ s.whole * U + s.frac * k = raw
    BY Zenon, <1>1, FormatAmountParts
  <1>3. s.unit \in Nat \ {0} /\ s.unit <= U /\ k \in Nat \ {0} /\ k * s.unit = U
    BY Zenon, <1>2, UnitDivides
  <1> HIDE DEF s, k
  <1>4. DecimalToRaw(s) = raw
    <2> DEFINE num == (s.whole * s.unit + s.frac) * U
    <2>1. num = raw * s.unit
      <3>1. raw * s.unit = (s.whole * U) * s.unit + (s.frac * k) * s.unit
        BY <1>1, <1>2, <1>3
      <3>2. (s.frac * k) * s.unit = s.frac * U
        BY <1>2, <1>3
      <3> QED BY <1>1, <1>2, <1>3, <3>1, <3>2
    <2>2. num \div s.unit = raw /\ num % s.unit = 0
      BY <1>1, <1>3, <2>1, DivExact
    <2>3. ~(num \div s.unit > MaxUint)
      BY <1>1, <2>2
    <2> HIDE DEF num
    <2> QED BY Zenon, <2>2, <2>3 DEF DecimalToRaw, num
  <1>5. ParseAmount(s) = raw
    <2>1. ~(s.unit > U)
      BY <1>1, <1>3
    <2>2. ~(s.whole > MaxUint \div U)
      <3>1. s.whole * U <= MaxUint
        BY <1>1, <1>2, <1>3, Products
      <3>2. MaxUint \div U >= s.whole /\ MaxUint \div U \in Nat
        BY <1>1, <1>2, <3>1, DivAtLeast, DivBounds
      <3> QED BY <1>2, <3>2
    <2>3. raw % (MaxUint + 1) = raw
      BY <1>1
    <2>4. ParseAmount(s) = (s.whole * U + s.frac * k) % (MaxUint + 1)
      BY Zenon, <2>1, <2>2 DEF ParseAmount, k
    <2> QED BY Zenon, <1>2, <2>3, <2>4
  <1> QED BY Zenon, <1>4, <1>5 DEF s

-----------------------------------------------------------------------------
(* What the operators of Books make of the tables.                         *)

\* A conditional update moves one intent, and only in its state.
LEMMA MovedFacts ==
  ASSUME intent \in [Intents -> IntentRow \cup {NoIntent}],
         NEW i \in Intents, intent[i] # NoIntent,
         NEW seen, NEW from \in States, NEW to \in States,
         NEW M, M = Moved(i, seen, from, to)
  PROVE  /\ M \in [Intents -> IntentRow \cup {NoIntent}]
         /\ \A j \in Intents : j # i => M[j] = intent[j]
         /\ M[i] # NoIntent
         /\ M[i].ask = intent[i].ask
         /\ M[i].usdc = intent[i].usdc
         /\ M[i].rate = intent[i].rate
         /\ M[i].state = intent[i].state \/ M[i].state = to
  <1> DEFINE q == [intent[i] EXCEPT !.state = to]
  <1>1. NoIntent \notin IntentRow /\ intent[i] \in IntentRow
    BY DEF NoIntent, IntentRow, States
  <1>2. CASE seen # from
    <2>1. M = intent
      BY Zenon, <1>2 DEF Moved
    <2> QED BY Zenon, <2>1
  <1>3. CASE seen = from
    <2>1. /\ q \in IntentRow /\ q.state = to
          /\ q.ask = intent[i].ask /\ q.usdc = intent[i].usdc /\ q.rate = intent[i].rate
      BY Zenon, <1>1 DEF IntentRow
    <2>2. M = [intent EXCEPT ![i] = q]
      BY Zenon, <1>3 DEF Moved
    <2> HIDE DEF q
    <2>3. M \in [Intents -> IntentRow \cup {NoIntent}]
      BY Zenon, <2>1, <2>2
    <2>4. \A j \in Intents : M[j] = IF j = i THEN q ELSE intent[j]
      BY Zenon, <2>2
    <2> QED BY Zenon, <1>1, <2>1, <2>3, <2>4
  <1> QED BY Zenon, <1>2, <1>3

\* postWith writes one entry and only where there was none.
LEMMA PostedFacts ==
  ASSUME NEW j, DOMAIN j = Kinds \X Intents, NEW kind \in Kinds, NEW i \in Intents, NEW lines,
         NEW p, p = Posted(j, kind, i, lines)
  PROVE  /\ DOMAIN p = Kinds \X Intents
         /\ \A k \in Kinds, n \in Intents :
               p[<<k, n>>] = IF k = kind /\ n = i /\ j[<<k, n>>] = None THEN lines ELSE j[<<k, n>>]
  BY DEF Posted

\* The entries the steps build are entries.
LEMMA EntriesAreThere ==
  ASSUME NEW a \in Int, NEW b \in Int
  PROVE  CreditLines(a) # None /\ SwapLines(a) # None /\ PayoutLines(a, b) # None
  <1> DEFINE L == [amount : Int, dir : {"debit", "credit"}]
  <1>1. ASSUME NEW A \in SUBSET (USDC \cup IDR), NEW f \in [A -> L] PROVE f # None
    BY Zenon, <1>1, LinesAssumption
  <1>2. ASSUME NEW c \in Int, NEW d \in {"debit", "credit"} PROVE Line(c, d) \in L
    BY Zenon DEF Line
  <1> HIDE DEF L
  <1>3. CreditLines(a) \in [{"hot_wallet", "user_funds"} -> L]
    BY Zenon, <1>2 DEF CreditLines
  <1>4. SwapLines(a) \in [{"user_funds", "fx_settlement"} -> L]
    BY Zenon, <1>2 DEF SwapLines
  <1>5. \E A \in SUBSET IDR : PayoutLines(a, b) \in [A -> L]
    <2>1. a - b \in Int
      OBVIOUS
    <2>2. Line(a, "debit") \in L /\ Line(b, "credit") \in L /\ Line(a - b, "credit") \in L
      BY Zenon, <1>2, <2>1
    <2> DEFINE A == IF a > b THEN IDR ELSE IDR \ {"revenue_fx_spread"}
    <2>3. A \in SUBSET IDR
      OBVIOUS
    <2>4. PayoutLines(a, b) \in [A -> L]
      BY <2>2 DEF PayoutLines, IDR
    <2> QED BY Zenon, <2>3, <2>4
  <1>6. /\ {"hot_wallet", "user_funds"} \in SUBSET (USDC \cup IDR)
        /\ {"user_funds", "fx_settlement"} \in SUBSET (USDC \cup IDR)
        /\ \A A \in SUBSET IDR : A \in SUBSET (USDC \cup IDR)
    BY DEF USDC
  <1> QED BY Zenon, <1>1, <1>3, <1>4, <1>5, <1>6

\* GetFinalizedDepositForIntent finds a row of the intent, if there is one.
LEMMA DepositForRow ==
  ASSUME NEW i \in Intents, HasDeposit(i)
  PROVE  \E k \in DOMAIN rows : rows[k].intent = i /\ DepositFor(i) = rows[k]
  BY Zenon DEF HasDeposit, DepositFor

\* The value of a quote is a number.
LEMMA ComputeMidIDRType ==
  ASSUME NEW usdc \in Nat, NEW rate \in Rate
  PROVE  ComputeMidIDR(usdc, rate) \in Nat
  <1>1. usdc * rate.num \in Nat /\ USDCUnit * rate.unit \in Nat \ {0}
    BY PricingAssumption, Products DEF Rate
  <1>2. (usdc * rate.num) \div (USDCUnit * rate.unit) \in Nat
    BY <1>1, DivBounds
  <1> QED BY Zenon, <1>2 DEF ComputeMidIDR

-----------------------------------------------------------------------------
(* The invariant.                                                          *)

\* What a page has shown of an intent, or a late worker found, stays true of it.
Grows(i) ==
  /\ intent[i] # NoIntent => intent'[i] # NoIntent
  /\ saga[i].state # "none" => saga'[i].state # "none"
  /\ \A kind \in Kinds : journal[<<kind, i>>] # None => journal'[<<kind, i>>] # None
  /\ paid[i] > 0 => paid'[i] > 0
  /\ outbox[i] > 0 => outbox'[i] > 0

Untouched(i) ==
  /\ intent'[i] = intent[i] /\ saga'[i] = saga[i] /\ reason'[i] = reason[i]
  /\ paid'[i] = paid[i] /\ outbox'[i] = outbox[i]
  /\ \A kind \in Kinds : journal'[<<kind, i>>] = journal[<<kind, i>>]

\* The kinds of entries.
LEMMA AllKinds ==
  /\ "credit_deposit" \in Kinds
  /\ "fx_swap_usdc" \in Kinds
  /\ "payout_disbursed" \in Kinds
  BY DEF Kinds

\* What a worker found when it claimed the run stays there.
LEMMA ReadyStays ==
  ASSUME NEW i, Grows(i), NEW step, Ready(i, step)
  PROVE  Ready(i, step)'
  <1>1. \A kind \in Kinds : Has(i, kind) => Has(i, kind)'
    BY Zenon DEF Grows, Has
  <1>2. paid[i] > 0 => paid'[i] > 0
    BY Zenon DEF Grows
  <1> QED BY Zenon, <1>1, <1>2, AllKinds DEF Ready

\* What holds of an intent does so until something touches it.
LEMMA UntouchedKeeps ==
  ASSUME NEW i \in Intents, Untouched(i), rows' = rows, lapses' = 0 => lapses = 0
  PROVE  /\ QuoteStands(i) => QuoteStands(i)'
         /\ Caused(i) => Caused(i)'
         /\ Booked(i) => Booked(i)'
         /\ Grows(i)
  <1>1. \A kind \in Kinds : Has(i, kind)' <=> Has(i, kind)
    BY Zenon DEF Untouched, Has
  <1>2. QuoteStands(i) => QuoteStands(i)'
    BY Zenon DEF Untouched, QuoteStands, Quoted
  <1>3. Grows(i)
    BY Zenon DEF Untouched, Grows
  <1>4. Caused(i) => Caused(i)'
    <2>1. Ready(i, saga[i].step) => Ready(i, saga[i].step)'
      <3>1. \A step : Ready(i, step) => Ready(i, step)'
        BY Zenon, <1>3, ReadyStays
      <3>2. saga'[i].step = saga[i].step
        BY Zenon DEF Untouched
      <3> QED BY Zenon, <1>1, <3>2, AllKinds DEF Ready, Untouched
    <2> QED BY Zenon, <1>1, <2>1, AllKinds DEF Untouched, Caused
  <1>5. Booked(i) => Booked(i)'
    <2> SUFFICES ASSUME Booked(i) PROVE Booked(i)'
      OBVIOUS
    <2>1. Has(i, "credit_deposit")' =>
            \E k \in DOMAIN rows' :
              rows'[k].intent = i /\ journal'[<<"credit_deposit", i>>] = CreditLines(rows'[k].amount)
      BY Zenon, <1>1, AllKinds DEF Untouched, Booked
    <2>2. Has(i, "fx_swap_usdc")' =>
            /\ Has(i, "credit_deposit")' /\ intent'[i] # NoIntent
            /\ journal'[<<"fx_swap_usdc", i>>] = SwapLines(intent'[i].usdc)
      BY Zenon, <1>1, AllKinds DEF Untouched, Booked
    <2> QED BY Zenon, <2>1, <2>2 DEF Booked
  <1> QED BY Zenon, <1>2, <1>3, <1>4, <1>5

\* What a page shows of an intent stays so.
LEMMA ShownStays ==
  ASSUME NEW i \in Intents, NEW n, NEW r, Grows(i), lapses' = 0 => lapses = 0, Shown(i, n, r)
  PROVE  Shown(i, n, r)'
  <1>1. /\ intent[i] # NoIntent => intent'[i] # NoIntent
        /\ Has(i, "credit_deposit") => journal'[<<"credit_deposit", i>>] # None
        /\ (\A kind \in Kinds : Has(i, kind)) => \A kind \in Kinds : journal'[<<kind, i>>] # None
        /\ paid[i] > 0 => paid'[i] > 0
        /\ outbox[i] > 0 => outbox'[i] > 0
    BY Zenon, AllKinds DEF Grows, Has
  <1> QED BY ZenonT(40), <1>1 DEF Shown, Has

\* A page is causal if what it shows is.
LEMMA PageBecomes ==
  ASSUME NEW i \in Intents, NEW n \in 0..6, NEW q, DOMAIN q = PartNames,
         page'.of = i, page'.at = n, page'.read = q, Shown(i, n, q)'
  PROVE  PageSoFar'
  BY ZenonT(40) DEF PageSoFar, Shown, Has

\* While no part is read, the page stays causal.
LEMMA PageStays ==
  ASSUME PageSoFar, \A i \in Intents : Grows(i), page' = page, lapses' = 0 => lapses = 0
  PROVE  PageSoFar'
  <1>1. CASE page.of = None
    BY Zenon, <1>1 DEF PageSoFar
  <1>2. CASE page.of \in Intents
    <2>0. PICK q : page.read = q
      BY Zenon
    <2>1. PICK i \in Intents, n \in 0..6 : page.of = i /\ page.at = n
      BY Zenon, <1>2 DEF PageSoFar
    <2>2. DOMAIN q = PartNames /\ Shown(i, n, q)
      BY Zenon, <2>0, <2>1, BooksAssumption DEF PageSoFar
    <2>3. Shown(i, n, q)'
      BY Zenon, <2>2, ShownStays
    <2> QED BY Zenon, <2>0, <2>1, <2>2, <2>3, PageBecomes
  <1> QED BY Zenon, <1>1, <1>2 DEF PageSoFar

\* While no payment or row is new, what refers to an intent finds it.
LEMMA ReferencesStay ==
  ASSUME References, tx' = tx, rows' = rows,
         \A i \in Intents : saga'[i].state = "none" <=> saga[i].state = "none",
         \A i \in Intents : intent[i] # NoIntent => intent'[i] # NoIntent
  PROVE  References'
  <1>1. \A d \in Deposits : tx'[d] # NoTx => tx'[d].ref \in Intents /\ intent'[tx'[d].ref] # NoIntent
    BY Zenon DEF References
  <1>2. \A i \in Intents : /\ saga'[i].state = "none" => \A k \in DOMAIN rows' : rows'[k].intent # i
                           /\ saga'[i].state # "none" => HasDeposit(i)' /\ intent'[i] # NoIntent
    BY ZenonT(40) DEF References, HasDeposit
  <1> QED BY Zenon, <1>1, <1>2 DEF References

\* While no lease runs out, late workers stay ready.
LEMMA LatecomersStay ==
  ASSUME BInv, \A i \in Intents : Grows(i), late' \subseteq late, lapses' = lapses
  PROVE  Latecomers'
  <1>1. ASSUME NEW w \in late' PROVE saga'[w.of].state # "none" /\ Ready(w.of, w.step)'
    <2>1. w \in late /\ saga[w.of].state # "none" /\ Ready(w.of, w.step)
      BY Zenon, <1>1 DEF BInv, Latecomers
    <2>2. w.of \in Intents
      BY Zenon, <2>1 DEF BInv, Tables
    <2>3. saga'[w.of].state # "none"
      BY Zenon, <2>1, <2>2 DEF Grows
    <2>4. Ready(w.of, w.step)'
      BY Zenon, <2>1, <2>2, ReadyStays
    <2> QED BY Zenon, <2>3, <2>4
  <1>2. lapses' = 0 => late' = {}
    BY Zenon DEF BInv, Latecomers
  <1> QED BY Zenon, <1>1, <1>2 DEF Latecomers

\* A step that touches one intent needs to be looked at for that one only.
LEMMA TouchOne ==
  ASSUME BInv, NEW i \in Intents, UNCHANGED <<tx, rows, lapses, page>>, late' \subseteq late,
         \A j \in Intents : j # i => Untouched(j),
         Tables', QuoteStands(i)', Caused(i)', Booked(i)', Grows(i),
         saga'[i].state = "none" <=> saga[i].state = "none"
  PROVE  BInv'
  <1>1. \A j \in Intents : QuoteStands(j)' /\ Caused(j)' /\ Booked(j)' /\ Grows(j)
    BY Zenon, UntouchedKeeps DEF BInv
  <1>2. References'
    BY Zenon, <1>1, ReferencesStay DEF BInv, Grows, Untouched
  <1>3. PageSoFar'
    BY Zenon, <1>1, PageStays DEF BInv
  <1>4. Latecomers'
    BY Zenon, <1>1, LatecomersStay
  <1> QED BY Zenon, <1>1, <1>2, <1>3, <1>4 DEF BInv

\* The empty tables agree.
LEMMA BInvInit == Init => BInv
  <1> SUFFICES ASSUME Init PROVE BInv
    OBVIOUS
  <1>1. Tables
    BY BooksAssumption DEF Init, Tables, NoIntent, Kinds, NoRun, Runs, Steps
  <1>2. \A i \in Intents : QuoteStands(i)
    BY DEF Init, QuoteStands, NoIntent
  <1>3. References
    BY DEF Init, References, NoTx, NoRun
  <1>4. \A i \in Intents : Caused(i)
    BY DEF Init, Caused, Ready, Has, NoIntent, NoRun, PaidOut, Kinds
  <1>5. \A i \in Intents : Booked(i)
    BY DEF Init, Booked, Has, Kinds
  <1>6. PageSoFar
    BY DEF Init, PageSoFar, NoPage
  <1>7. Latecomers
    BY Zenon DEF Init, Latecomers
  <1> QED BY Zenon, <1>1, <1>2, <1>3, <1>4, <1>5, <1>6, <1>7 DEF BInv

\* An intent is made: its row is new, and nothing refers to it yet.
LEMMA CreateKeeps ==
  ASSUME BInv, NEW i \in Intents, CreatePaymentIntent(i)
  PROVE  BInv'
  <1> USE DEF BInv
  <1>1. PICK ask \in Asks, rate \in Rates :
          /\ Quoted(ask, rate) > 0
          /\ intent' = [intent EXCEPT ![i] = [state |-> "pending", ask |-> ask,
                                              usdc |-> Quoted(ask, rate), rate |-> rate]]
    BY Zenon DEF CreatePaymentIntent
  <1> DEFINE new == [state |-> "pending", ask |-> ask, usdc |-> Quoted(ask, rate), rate |-> rate]
  <1>2. Quoted(ask, rate) \in 1..MaxInt
    <2>1. Quoted(ask, rate) \in 0..MaxInt
      BY BooksAssumption, QuoteAmountType, PricingAssumption DEF Quoted
    <2> QED BY <1>1, <2>1, PricingAssumption
  <1>3. /\ new \in IntentRow /\ new.state = "pending" /\ new.ask = ask /\ new.rate = rate
        /\ new.usdc = Quoted(ask, rate)
    BY Zenon, <1>2 DEF IntentRow, States
  <1>4. /\ intent[i] = NoIntent
        /\ UNCHANGED <<tx, rows, saga, reason, journal, paid, outbox, late, lapses, page>>
    BY Zenon DEF CreatePaymentIntent, workers, readers
  <1>5. new # NoIntent
    BY Zenon, <1>3 DEF NoIntent
  <1> HIDE DEF new
  <1>6. /\ intent' \in [Intents -> IntentRow \cup {NoIntent}]
        /\ \A j \in Intents : intent'[j] = IF j = i THEN new ELSE intent[j]
    BY Zenon, <1>1, <1>3 DEF Tables, new
  <1>7. Tables'
    BY Zenon, <1>4, <1>6 DEF Tables
  <1>8. paid[i] = 0 /\ reason[i] # "negative spread" /\ saga[i].state = "none"
    <2>1. NoIntent.ask = 0
      BY DEF NoIntent
    <2> QED BY Zenon, <1>4, <2>1 DEF QuoteStands, References
  <1>9. QuoteStands(i)'
    BY Zenon, <1>3, <1>4, <1>6, <1>8 DEF QuoteStands, Quoted
  <1>10. Caused(i)'
    <2>1. Caused(i) /\ Ready(i, saga[i].step)
      BY Zenon DEF Caused
    <2>2. Ready(i, saga[i].step)'
      BY Zenon, <1>4, <2>1 DEF Ready, Has
    <2> QED BY Zenon, <1>3, <1>4, <1>6, <2>1, <2>2 DEF Caused, Has
  <1>11. Booked(i)'
    <2>1. ~Has(i, "fx_swap_usdc")
      BY Zenon, <1>4 DEF Booked
    <2> QED BY Zenon, <1>4, <2>1 DEF Booked, Has
  <1>12. Grows(i) /\ \A j \in Intents : j # i => Untouched(j)
    BY Zenon, <1>4, <1>5, <1>6 DEF Grows, Untouched
  <1> QED BY Zenon, <1>4, <1>7, <1>8, <1>9, <1>10, <1>11, <1>12, TouchOne

\* A payment refers to an intent that was made.
LEMMA PayKeeps ==
  ASSUME BInv, NEW d \in Deposits, Pay(d)
  PROVE  BInv'
  <1> USE DEF BInv
  <1>0. PICK i \in Intents :
          /\ intent[i] # NoIntent
          /\ \E t : tx' = [tx EXCEPT ![d] = [ref |-> i, transfers |-> t]]
    BY Zenon DEF Pay
  <1>1. PICK t : /\ intent[i] # NoIntent
                 /\ tx' = [tx EXCEPT ![d] = [ref |-> i, transfers |-> t]]
    BY Zenon, <1>0
  <1>2. UNCHANGED <<intent, rows, saga, reason, journal, paid, outbox, late, lapses, page>>
    BY Zenon DEF Pay, workers, readers
  <1>3. Tables'
    BY Zenon, <1>1, <1>2 DEF Tables
  <1>4. References'
    <2>1. \A e \in Deposits : tx'[e] = IF e = d THEN [ref |-> i, transfers |-> t] ELSE tx[e]
      BY Zenon, <1>1 DEF Tables
    <2>2. [ref |-> i, transfers |-> t].ref = i
      OBVIOUS
    <2>3. \A e \in Deposits : tx'[e] # NoTx => tx'[e].ref \in Intents /\ intent'[tx'[e].ref] # NoIntent
      BY Zenon, <1>1, <1>2, <2>1, <2>2 DEF References
    <2>4. \A j \in Intents : /\ saga'[j].state = "none" => \A k \in DOMAIN rows' : rows'[k].intent # j
                             /\ saga'[j].state # "none" => HasDeposit(j)' /\ intent'[j] # NoIntent
      BY Zenon, <1>2 DEF References, HasDeposit
    <2> QED BY Zenon, <2>3, <2>4 DEF References
  <1>5. \A j \in Intents : Untouched(j)
    BY Zenon, <1>2 DEF Untouched
  <1>6. \A j \in Intents : QuoteStands(j)' /\ Caused(j)' /\ Booked(j)' /\ Grows(j)
    BY Zenon, <1>2, <1>5, UntouchedKeeps
  <1>7. PageSoFar' /\ Latecomers'
    BY Zenon, <1>2, <1>6, PageStays, LatecomersStay
  <1> QED BY Zenon, <1>3, <1>4, <1>6, <1>7

\* A recorded deposit: the row is appended, and its intent, if it has one, has
\* a run from then on.
LEMMA ProcessKeeps ==
  ASSUME BInv, NEW d \in Deposits, ProcessSignature(d)
  PROVE  BInv'
  <1> USE DEF BInv
  <1> DEFINE Row == [sig : Deposits, amount : Int, intent : Intents \cup {None}]
             a == Transfer(tx[d]).amount
             start == [state |-> "pending", step |-> "credit_deposit"]
  <1>1. PICK i \in {tx[d].ref, None} :
          /\ rows' = Append(rows, [sig |-> d, amount |-> a, intent |-> i])
          /\ saga' = IF i # None /\ saga[i].state = "none"
                     THEN [saga EXCEPT ![i] = start] ELSE saga
    BY Zenon DEF ProcessSignature
  <1>2. /\ tx[d] # NoTx /\ a \in 1..MaxInt
        /\ UNCHANGED <<intent, tx, reason, journal, paid, outbox, late, lapses, page>>
    BY Zenon DEF ProcessSignature, workers, readers
  <1>3. a \in Int
    BY <1>2, PricingAssumption
  <1>4. i \in Intents \cup {None} /\ (i # None => i \in Intents /\ intent[i] # NoIntent)
    BY Zenon, <1>1, <1>2 DEF References
  <1>5. PICK r \in Row : r.intent = i /\ rows' = Append(rows, r)
    BY Zenon, <1>1, <1>3, <1>4
  <1> HIDE DEF Row, a
  <1>6. rows \in Seq(Row)
    BY Zenon DEF Tables, Row
  <1>7. /\ rows' \in Seq(Row)
        /\ DOMAIN rows = 1..Len(rows) /\ DOMAIN rows' = 1..(Len(rows) + 1)
        /\ \A k \in DOMAIN rows : rows'[k] = rows[k]
        /\ rows'[Len(rows) + 1] = r
        /\ Len(rows) \in Nat
    BY <1>5, <1>6
  <1>8. start \in Runs /\ start.state = "pending" /\ start.step = "credit_deposit"
    BY DEF Runs, Steps
  <1> HIDE DEF start
  <1>9. /\ saga' \in [Intents -> Runs]
        /\ \A j \in Intents : saga'[j] = IF j = i /\ saga[j].state = "none" THEN start ELSE saga[j]
    BY Zenon, <1>1, <1>4, <1>8, BooksAssumption DEF Tables
  <1>10. Tables'
    BY Zenon, <1>2, <1>7, <1>9 DEF Tables, Row
  <1>11. References'
    <2>1. ASSUME NEW j \in Intents, saga'[j].state = "none", NEW k \in DOMAIN rows' PROVE rows'[k].intent # j
      <3>1. j # i /\ saga[j].state = "none"
        BY Zenon, <1>8, <1>9, <2>1
      <3>2. k \in DOMAIN rows \/ k = Len(rows) + 1
        BY <1>7, <2>1
      <3> QED BY Zenon, <1>5, <1>7, <3>1, <3>2 DEF References
    <2>2. ASSUME NEW j \in Intents, saga'[j].state # "none" PROVE HasDeposit(j)' /\ intent'[j] # NoIntent
      <3>1. CASE saga[j].state # "none"
        <4>1. PICK k \in DOMAIN rows : rows[k].intent = j /\ \A n \in 1..(k - 1) : rows[n].intent # j
          BY Zenon, <3>1 DEF References, HasDeposit
        <4>2. k \in DOMAIN rows' /\ \A n \in 1..(k - 1) : n \in DOMAIN rows
          BY <1>7, <4>1
        <4>3. rows'[k].intent = j /\ \A n \in 1..(k - 1) : rows'[n].intent # j
          BY Zenon, <1>7, <4>1, <4>2
        <4> QED BY Zenon, <1>2, <3>1, <4>2, <4>3 DEF References, HasDeposit
      <3>2. CASE saga[j].state = "none"
        <4>1. j = i
          BY Zenon, <1>9, <2>2, <3>2
        <4>2. \A n \in DOMAIN rows : rows[n].intent # j
          BY Zenon, <3>2 DEF References
        <4>3. /\ Len(rows) + 1 \in DOMAIN rows'
              /\ \A n \in 1..((Len(rows) + 1) - 1) : n \in DOMAIN rows
          BY <1>7
        <4>4. /\ rows'[Len(rows) + 1].intent = j
              /\ \A n \in 1..((Len(rows) + 1) - 1) : rows'[n].intent # j
          BY Zenon, <1>5, <1>7, <4>1, <4>2, <4>3
        <4>5. intent[j] # NoIntent
          BY Zenon, <1>4, <4>1, BooksAssumption
        <4> QED BY Zenon, <1>2, <4>3, <4>4, <4>5 DEF HasDeposit
      <3> QED BY Zenon, <3>1, <3>2
    <2>3. \A e \in Deposits : tx'[e] # NoTx => tx'[e].ref \in Intents /\ intent'[tx'[e].ref] # NoIntent
      BY Zenon, <1>2 DEF References
    <2> QED BY Zenon, <2>1, <2>2, <2>3 DEF References
  <1>12. ASSUME NEW j \in Intents PROVE Caused(j)'
    <2>1. Caused(j)
      OBVIOUS
    <2>2. CASE saga'[j] = saga[j]
      <3>1. Ready(j, saga[j].step)'
        BY Zenon, <1>2, <2>1, <2>2 DEF Caused, Ready, Has
      <3> QED BY Zenon, <1>2, <2>1, <2>2, <3>1 DEF Caused, Has
    <2>3. CASE saga'[j] = start /\ saga[j].state = "none"
      <3>1. ~Has(j, "credit_deposit") /\ ~(paid[j] > 0)
        BY Zenon, <2>1, <2>3 DEF Caused
      <3>2. saga'[j].step \notin PaidOut
        BY Zenon, <1>8, <2>3 DEF PaidOut
      <3>3. Ready(j, saga[j].step)'
        BY Zenon, <1>8, <2>3, <3>2 DEF Ready
      <3>4. saga'[j].state # "completed"
        BY Zenon, <1>8, <2>3
      <3> QED BY Zenon, <1>2, <2>1, <3>1, <3>3, <3>4 DEF Caused, Has
    <2> QED BY Zenon, <1>9, <2>2, <2>3
  <1>13. ASSUME NEW j \in Intents PROVE Booked(j)'
    <2>1. ASSUME Has(j, "credit_deposit")'
          PROVE  \E k \in DOMAIN rows' : /\ rows'[k].intent = j
                                         /\ journal'[<<"credit_deposit", j>>] = CreditLines(rows'[k].amount)
      <3>1. PICK k \in DOMAIN rows : /\ rows[k].intent = j
                                     /\ journal[<<"credit_deposit", j>>] = CreditLines(rows[k].amount)
        BY Zenon, <1>2, <2>1 DEF Booked, Has
      <3>2. k \in DOMAIN rows' /\ rows'[k] = rows[k]
        BY <1>7, <3>1
      <3> QED BY Zenon, <1>2, <3>1, <3>2
    <2>2. ASSUME Has(j, "fx_swap_usdc")'
          PROVE  /\ Has(j, "credit_deposit")' /\ intent'[j] # NoIntent
                 /\ journal'[<<"fx_swap_usdc", j>>] = SwapLines(intent'[j].usdc)
      BY Zenon, <1>2, <2>2 DEF Booked, Has
    <2> QED BY Zenon, <2>1, <2>2 DEF Booked
  <1>14. PageSoFar' /\ Latecomers'
    <2>1. \A j \in Intents : Grows(j)
      BY Zenon, <1>2, <1>8, <1>9 DEF Grows
    <2>2. PageSoFar'
      BY Zenon, <1>2, <2>1, PageStays
    <2>3. Latecomers'
      BY Zenon, <1>2, <2>1, LatecomersStay
    <2> QED BY Zenon, <2>2, <2>3
  <1>15. ASSUME NEW j \in Intents PROVE QuoteStands(j)'
    BY Zenon, <1>2 DEF QuoteStands, Quoted
  <1> QED BY Zenon, <1>10, <1>11, <1>12, <1>13, <1>14, <1>15

\* How a step leaves its run.
LEMMA EndStepFacts ==
  ASSUME Tables, NEW i \in Intents, NEW next \in Steps \cup {""},
         NEW why \in {"none", "rejected", "negative spread", "ledger"}, EndStep(i, why, next)
  PROVE  /\ saga' \in [Intents -> Runs]
         /\ reason' \in [Intents -> {"none", "rejected", "negative spread", "ledger", "transient"}]
         /\ \A j \in Intents : j # i => saga'[j] = saga[j] /\ reason'[j] = reason[j]
         /\ reason'[i] = why
         /\ saga'[i].state # "none"
         /\ saga'[i].state = "completed" => why = "none" /\ next = ""
         /\ saga'[i].step = IF why = "none" /\ next # "" THEN next ELSE saga[i].step
  <1> DEFINE failed == [state |-> "failed", step |-> saga[i].step]
             completed == [state |-> "completed", step |-> saga[i].step]
             pending == [state |-> "pending", step |-> next]
             r == IF why # "none" THEN failed ELSE IF next = "" THEN completed ELSE pending
  <1>1. saga[i] \in Runs
    BY Zenon DEF Tables
  <1>2. saga[i].step \in Steps
    BY Zenon, <1>1 DEF Runs
  <1>3. /\ r \in Runs /\ r.state # "none"
        /\ r.state = "completed" => why = "none" /\ next = ""
        /\ r.step = IF why = "none" /\ next # "" THEN next ELSE saga[i].step
    <2>1. CASE why # "none"
      <3>1. failed \in Runs /\ failed.state = "failed" /\ failed.step = saga[i].step
        BY Zenon, <1>2 DEF Runs
      <3>2. r = failed
        BY Zenon, <2>1
      <3> HIDE DEF r, failed, completed, pending
      <3> QED BY Zenon, <2>1, <3>1, <3>2
    <2>2. CASE why = "none" /\ next = ""
      <3>1. completed \in Runs /\ completed.state = "completed" /\ completed.step = saga[i].step
        BY Zenon, <1>2 DEF Runs
      <3>2. r = completed
        BY Zenon, <2>2
      <3> HIDE DEF r, failed, completed, pending
      <3> QED BY Zenon, <2>2, <3>1, <3>2
    <2>3. CASE why = "none" /\ next # ""
      <3>1. pending \in Runs /\ pending.state = "pending" /\ pending.step = next
        BY Zenon, <2>3 DEF Runs
      <3>2. r = pending
        BY Zenon, <2>3
      <3> HIDE DEF r, failed, completed, pending
      <3> QED BY Zenon, <2>3, <3>1, <3>2
    <2> QED BY Zenon, <2>1, <2>2, <2>3
  <1>4. saga' = [saga EXCEPT ![i] = r] /\ reason' = [reason EXCEPT ![i] = why]
    BY Zenon DEF EndStep
  <1> HIDE DEF r
  <1>5. /\ saga' \in [Intents -> Runs] /\ saga'[i] = r
        /\ \A j \in Intents : j # i => saga'[j] = saga[j]
    BY Zenon, <1>3, <1>4 DEF Tables
  <1>6. /\ reason' \in [Intents -> {"none", "rejected", "negative spread", "ledger", "transient"}]
        /\ reason'[i] = why
        /\ \A j \in Intents : j # i => reason'[j] = reason[j]
    BY Zenon, <1>4 DEF Tables
  <1> QED BY Zenon, <1>3, <1>5, <1>6

\* What a step, taken in time or late, may rely on.
Stepping(i, step, seen) ==
  /\ saga[i].state # "none"
  /\ Ready(i, step)
  /\ lapses = 0 => saga[i].step = step
  /\ UNCHANGED <<lapses, page>>
  /\ late' \subseteq late

\* An attempt that changes nothing but its run leaves every cause in place.
LEMMA OnlyRunMoves ==
  ASSUME BInv, NEW i \in Intents, NEW step, NEW seen, Stepping(i, step, seen),
         UNCHANGED <<intent, tx, rows, journal, paid, outbox>>,
         saga' \in [Intents -> Runs],
         reason' \in [Intents -> {"none", "rejected", "negative spread", "ledger", "transient"}],
         \A j \in Intents : j # i => saga'[j] = saga[j] /\ reason'[j] = reason[j],
         saga'[i].state \notin {"none", "completed"},
         saga'[i].step = saga[i].step,
         reason'[i] = "negative spread" => ComputeMidIDR(intent[i].usdc, intent[i].rate) < intent[i].ask
  PROVE  BInv'
  <1> USE DEF BInv, Stepping
  <1>1. intent[i] # NoIntent /\ QuoteStands(i) /\ Caused(i) /\ Booked(i)
    BY Zenon DEF References
  <1>2. Tables'
    BY Zenon DEF Tables
  <1>3. QuoteStands(i)'
    BY Zenon, <1>1 DEF QuoteStands, Quoted
  <1>4. Grows(i) /\ \A j \in Intents : j # i => Untouched(j)
    BY Zenon DEF Grows, Untouched
  <1>5. Caused(i)'
    <2>1. \A kind \in Kinds : Has(i, kind)' <=> Has(i, kind)
      BY Zenon DEF Has
    <2>2. Ready(i, saga[i].step) => Ready(i, saga[i].step)'
      BY Zenon, <2>1, AllKinds DEF Ready
    <2> QED BY Zenon, <1>1, <2>1, <2>2, AllKinds DEF Caused
  <1>6. Booked(i)'
    BY Zenon, <1>1 DEF Booked, Has
  <1> QED BY Zenon, <1>2, <1>3, <1>4, <1>5, <1>6, TouchOne

\* An error rolls the step back.
LEMMA FailedKeeps ==
  ASSUME BInv, NEW i \in Intents, NEW step, NEW seen, Stepping(i, step, seen), FailedAttempt(i)
  PROVE  BInv'
  <1>1. PICK why \in {"none", "transient"} :
          /\ reason' = [reason EXCEPT ![i] = why]
          /\ saga' = [saga EXCEPT ![i] = [state |-> IF why = "none" THEN "pending" ELSE "failed",
                                         step  |-> saga[i].step]]
    BY Zenon DEF FailedAttempt
  <1> DEFINE s == IF why = "none" THEN "pending" ELSE "failed"
             r == [state |-> s, step |-> saga[i].step]
  <1>2. s \in {"pending", "failed"}
    BY Zenon
  <1>3. saga[i] \in Runs
    BY Zenon DEF BInv, Tables
  <1>4. r \in Runs /\ r.state \notin {"none", "completed"} /\ r.step = saga[i].step
    <2> HIDE DEF s
    <2> QED BY <1>2, <1>3 DEF Runs
  <1>5. saga' = [saga EXCEPT ![i] = r]
    BY Zenon, <1>1
  <1> HIDE DEF r
  <1>6. /\ saga' \in [Intents -> Runs] /\ saga'[i] = r
        /\ \A j \in Intents : j # i => saga'[j] = saga[j]
    BY Zenon, <1>4, <1>5 DEF BInv, Tables
  <1>7. /\ reason' \in [Intents -> {"none", "rejected", "negative spread", "ledger", "transient"}]
        /\ reason'[i] # "negative spread"
        /\ \A j \in Intents : j # i => reason'[j] = reason[j]
    BY Zenon, <1>1 DEF BInv, Tables
  <1>8. UNCHANGED <<intent, tx, rows, journal, paid, outbox>>
    BY Zenon DEF FailedAttempt
  <1> QED BY Zenon, <1>4, <1>6, <1>7, <1>8, OnlyRunMoves

\* The deposit is credited, or its run fails.
LEMMA CreditKeeps ==
  ASSUME BInv, NEW i \in Intents, NEW seen \in States, Stepping(i, "credit_deposit", seen),
         CreditDeposit(i, seen)
  PROVE  BInv'
  <1> USE DEF BInv, Stepping
  <1> DEFINE lines == CreditLines(DepositFor(i).amount)
             why == IF Accepted(lines) THEN "none" ELSE "ledger"
  <1>1. /\ journal' = IF why = "none" THEN Posted(journal, "credit_deposit", i, lines) ELSE journal
        /\ intent' = IF why = "none" THEN Moved(i, seen, "pending", "funded") ELSE intent
        /\ EndStep(i, why, "trigger_payout")
        /\ UNCHANGED <<tx, rows, paid, outbox>>
    BY Zenon DEF CreditDeposit
  <1>2. PICK k \in DOMAIN rows : rows[k].intent = i /\ lines = CreditLines(rows[k].amount)
    BY Zenon, DepositForRow DEF References
  <1>3. lines # None
    <2>1. rows[k].amount \in Int
      <3> DEFINE R == [sig : Deposits, amount : Int, intent : Intents \cup {None}]
      <3>1. rows \in Seq(R)
        BY Zenon DEF Tables
      <3>2. \A r \in R : r.amount \in Int
        OBVIOUS
      <3> HIDE DEF R
      <3>3. rows[k] \in R
        BY <1>2, <3>1
      <3> QED BY Zenon, <3>2, <3>3
    <2> QED BY Zenon, <1>2, <2>1, EntriesAreThere
  <1>4. why \in {"none", "rejected", "negative spread", "ledger"} /\ why # "negative spread"
    BY Zenon
  <1>5. intent[i] # NoIntent /\ QuoteStands(i) /\ Caused(i) /\ Booked(i)
    BY Zenon DEF References
  <1> HIDE DEF lines, why
  <1>6. /\ saga' \in [Intents -> Runs]
        /\ reason' \in [Intents -> {"none", "rejected", "negative spread", "ledger", "transient"}]
        /\ \A j \in Intents : j # i => saga'[j] = saga[j] /\ reason'[j] = reason[j]
        /\ reason'[i] = why
        /\ saga'[i].state \notin {"none", "completed"}
        /\ saga'[i].step = IF why = "none" THEN "trigger_payout" ELSE saga[i].step
    <2>1. "trigger_payout" \in Steps \cup {""} /\ "trigger_payout" # ""
      BY DEF Steps
    <2>2. Tables /\ EndStep(i, why, "trigger_payout")
      BY Zenon, <1>1
    <2> HIDE DEF BInv, Stepping
    <2> QED BY ZenonT(40), <1>4, <2>1, <2>2, EndStepFacts
  <1>7. CASE why # "none"
    <2>1. UNCHANGED <<intent, tx, rows, journal, paid, outbox>>
      BY Zenon, <1>1, <1>7
    <2>2. saga'[i].step = saga[i].step /\ reason'[i] # "negative spread"
      BY Zenon, <1>4, <1>6, <1>7
    <2> HIDE DEF BInv, Stepping
    <2> QED BY Zenon, <1>6, <2>1, <2>2, OnlyRunMoves
  <1>8. CASE why = "none"
    <2>1. /\ intent' \in [Intents -> IntentRow \cup {NoIntent}]
          /\ \A j \in Intents : j # i => intent'[j] = intent[j]
          /\ intent'[i] # NoIntent /\ intent'[i].ask = intent[i].ask
          /\ intent'[i].usdc = intent[i].usdc /\ intent'[i].rate = intent[i].rate
          /\ intent'[i].state = intent[i].state \/ intent'[i].state = "funded"
      <3>1. /\ "pending" \in States /\ "funded" \in States
            /\ intent \in [Intents -> IntentRow \cup {NoIntent}]
        BY Zenon DEF States, Tables
      <3>2. intent' = Moved(i, seen, "pending", "funded")
        BY Zenon, <1>1, <1>8
      <3> HIDE DEF BInv, Stepping
      <3>3. intent[i] # NoIntent
        BY Zenon, <1>5
      <3> QED BY <3>1, <3>2, <3>3, MovedFacts
    <2>2. /\ DOMAIN journal' = Kinds \X Intents
          /\ \A kind \in Kinds, j \in Intents :
                \/ journal'[<<kind, j>>] = journal[<<kind, j>>]
                \/ /\ kind = "credit_deposit" /\ j = i /\ journal[<<kind, j>>] = None
                   /\ journal'[<<kind, j>>] = lines
          /\ journal'[<<"credit_deposit", i>>] # None
      <3>1. journal' = Posted(journal, "credit_deposit", i, lines) /\ DOMAIN journal = Kinds \X Intents
        BY Zenon, <1>1, <1>8 DEF Tables
      <3> HIDE DEF BInv, Stepping
      <3>2. /\ DOMAIN journal' = Kinds \X Intents
            /\ \A k1 \in Kinds, n \in Intents :
                  journal'[<<k1, n>>] = IF k1 = "credit_deposit" /\ n = i /\ journal[<<k1, n>>] = None
                                        THEN lines ELSE journal[<<k1, n>>]
        BY <3>1, PostedFacts, AllKinds
      <3> QED BY Zenon, <1>3, <3>2, AllKinds
    <2>3. Tables'
      BY Zenon, <1>1, <1>6, <2>1, <2>2 DEF Tables
    <2>4. \A kind \in Kinds : Has(i, kind) => Has(i, kind)'
      BY Zenon, <1>3, <2>2 DEF Has
    <2>5. QuoteStands(i)'
      BY Zenon, <1>1, <1>4, <1>5, <1>6, <2>1 DEF QuoteStands, Quoted
    <2>6. Caused(i)'
      <3>1. /\ saga'[i].step = "trigger_payout" /\ Has(i, "credit_deposit")'
            /\ Has(i, "payout_disbursed")' => Has(i, "payout_disbursed")
        BY Zenon, <1>6, <1>8, <2>2, AllKinds DEF Has
      <3>2. Ready(i, saga[i].step)'
        BY Zenon, <3>1 DEF Ready, PaidOut
      <3>3. intent'[i].state \in {"paid_out", "completed"} => \A kind \in Kinds : Has(i, kind)'
        BY Zenon, <1>5, <2>1, <2>4 DEF Caused
      <3>4. lapses = 0 => ~(paid[i] > 0)
        BY Zenon, <1>5 DEF Caused, PaidOut
      <3> QED BY Zenon, <1>1, <1>5, <1>6, <3>1, <3>2, <3>3, <3>4 DEF Caused
    <2>7. Booked(i)'
      <3>1. Has(i, "credit_deposit")' =>
              \E n \in DOMAIN rows : /\ rows[n].intent = i
                                     /\ journal'[<<"credit_deposit", i>>] = CreditLines(rows[n].amount)
        BY Zenon, <1>2, <1>5, <2>2, AllKinds DEF Booked, Has
      <3>2. journal'[<<"fx_swap_usdc", i>>] = journal[<<"fx_swap_usdc", i>>]
        BY Zenon, <2>2, AllKinds
      <3> QED BY Zenon, <1>1, <1>5, <2>1, <2>4, <3>1, <3>2, AllKinds DEF Booked, Has
    <2>8. Grows(i)
      BY Zenon, <1>1, <1>6, <2>1, <2>4 DEF Grows, Has
    <2>9. \A j \in Intents : j # i => Untouched(j)
      <3>1. \A j \in Intents : j # i => \A kind \in Kinds : journal'[<<kind, j>>] = journal[<<kind, j>>]
        BY Zenon, <2>2
      <3> QED BY Zenon, <1>1, <1>6, <2>1, <3>1 DEF Untouched
    <2> QED BY Zenon, <1>1, <1>6, <2>3, <2>5, <2>6, <2>7, <2>8, <2>9, TouchOne
  <1> QED BY Zenon, <1>7, <1>8

\* The bank pays, or the run fails with nothing written.
LEMMA TriggerKeeps ==
  ASSUME BInv, NEW i \in Intents, NEW seen \in States, Stepping(i, "trigger_payout", seen),
         TriggerPayout(i, seen)
  PROVE  BInv'
  <1> USE DEF BInv, Stepping
  <1>1. UNCHANGED <<tx, rows, journal, outbox>>
    BY Zenon DEF TriggerPayout
  <1>2. intent[i] # NoIntent /\ QuoteStands(i) /\ Caused(i) /\ Booked(i) /\ Has(i, "credit_deposit")
    BY Zenon DEF References, Ready
  <1>3. \A kind \in Kinds, j \in Intents : Has(j, kind)' <=> Has(j, kind)
    BY Zenon, <1>1 DEF Has
  <1>4. CASE /\ paid' = [paid EXCEPT ![i] = intent[i].ask]
             /\ intent' = Moved(i, seen, "funded", "settling")
             /\ EndStep(i, "none", "apply_payout_result")
    <2>1. intent[i].ask \in Nat /\ intent[i].ask > 0
      <3>1. intent[i].ask \in Asks
        BY Zenon, <1>2 DEF Tables, IntentRow
      <3>2. \A x \in 1..MaxInt : x \in Nat /\ x > 0
        BY PricingAssumption
      <3> QED BY Zenon, <3>1, <3>2, BooksAssumption
    <2>2. /\ saga' \in [Intents -> Runs]
          /\ reason' \in [Intents -> {"none", "rejected", "negative spread", "ledger", "transient"}]
          /\ \A j \in Intents : j # i => saga'[j] = saga[j] /\ reason'[j] = reason[j]
          /\ reason'[i] = "none" /\ saga'[i].step = "apply_payout_result"
          /\ saga'[i].state \notin {"none", "completed"}
      <3>1. "apply_payout_result" \in Steps \cup {""} /\ "apply_payout_result" # ""
        BY DEF Steps
      <3> HIDE DEF Stepping
      <3> QED BY ZenonT(40), <1>4, <3>1, EndStepFacts
    <2>3. /\ intent' \in [Intents -> IntentRow \cup {NoIntent}]
          /\ \A j \in Intents : j # i => intent'[j] = intent[j]
          /\ intent'[i] # NoIntent /\ intent'[i].ask = intent[i].ask
          /\ intent'[i].usdc = intent[i].usdc /\ intent'[i].rate = intent[i].rate
          /\ intent'[i].state = intent[i].state \/ intent'[i].state = "settling"
      <3>1. /\ "funded" \in States /\ "settling" \in States
            /\ intent \in [Intents -> IntentRow \cup {NoIntent}]
        BY Zenon DEF States, Tables
      <3> HIDE DEF BInv, Stepping
      <3> QED BY <1>2, <1>4, <3>1, MovedFacts
    <2>4. /\ paid' \in [Intents -> Nat] /\ paid'[i] = intent[i].ask
          /\ \A j \in Intents : j # i => paid'[j] = paid[j]
      BY Zenon, <1>4, <2>1 DEF Tables
    <2>5. paid'[i] > 0
      BY <2>1, <2>4
    <2>6. Tables'
      BY Zenon, <1>1, <2>2, <2>3, <2>4 DEF Tables
    <2>7. QuoteStands(i)'
      BY Zenon, <1>2, <2>2, <2>3, <2>4 DEF QuoteStands, Quoted
    <2>8. Caused(i)'
      <3>1. saga'[i].step \in PaidOut /\ saga'[i].step \notin {"credit_deposit", "emit_completed"}
        BY Zenon, <2>2 DEF PaidOut
      <3>2. /\ intent'[i].state \in {"paid_out", "completed"} => intent[i].state \in {"paid_out", "completed"}
            /\ Has(i, "credit_deposit")'
        BY Zenon, <1>2, <1>3, <2>3, AllKinds
      <3>3. intent'[i].state \in {"paid_out", "completed"} => \A kind \in Kinds : Has(i, kind)'
        BY Zenon, <1>2, <1>3, <3>2 DEF Caused
      <3>4. Ready(i, saga[i].step)'
        BY Zenon, <2>5, <3>1, <3>2 DEF Ready
      <3> QED BY Zenon, <2>2, <2>5, <3>1, <3>2, <3>3, <3>4 DEF Caused
    <2>9. Booked(i)'
      BY Zenon, <1>1, <1>2, <2>3 DEF Booked, Has
    <2>10. Grows(i)
      BY Zenon, <1>1, <2>2, <2>3, <2>5 DEF Grows
    <2>11. \A j \in Intents : j # i => Untouched(j)
      BY Zenon, <1>1, <2>2, <2>3, <2>4 DEF Untouched
    <2> QED BY Zenon, <1>1, <2>2, <2>6, <2>7, <2>8, <2>9, <2>10, <2>11, TouchOne
  <1>5. CASE EndStep(i, "rejected", "") /\ UNCHANGED <<paid, intent>>
    <2>1. /\ saga' \in [Intents -> Runs]
          /\ reason' \in [Intents -> {"none", "rejected", "negative spread", "ledger", "transient"}]
          /\ \A j \in Intents : j # i => saga'[j] = saga[j] /\ reason'[j] = reason[j]
          /\ reason'[i] # "negative spread" /\ saga'[i].step = saga[i].step
          /\ saga'[i].state \notin {"none", "completed"}
      <3> HIDE DEF Stepping
      <3> QED BY ZenonT(40), <1>5, EndStepFacts
    <2> HIDE DEF BInv, Stepping
    <2> QED BY Zenon, <1>1, <1>5, <2>1, OnlyRunMoves
  <1> QED BY Zenon, <1>4, <1>5 DEF TriggerPayout

\* The swap and the payout are booked, or the run fails with nothing written.
LEMMA ApplyKeeps ==
  ASSUME BInv, NEW i \in Intents, NEW seen \in States, Stepping(i, "apply_payout_result", seen),
         ApplyPayoutResult(i, seen)
  PROVE  BInv'
  <1> USE DEF BInv, Stepping
  <1> DEFINE mid == ComputeMidIDR(intent[i].usdc, intent[i].rate)
             swap == SwapLines(intent[i].usdc)
             payout == PayoutLines(mid, paid[i])
             why == IF mid < paid[i] THEN "negative spread"
                    ELSE IF Accepted(swap) /\ Accepted(payout) THEN "none" ELSE "ledger"
             swapped == Posted(journal, "fx_swap_usdc", i, swap)
  <1>1. /\ journal' = IF why # "none" THEN journal
                      ELSE Posted(swapped, "payout_disbursed", i, payout)
        /\ intent' = IF why = "none" THEN Moved(i, seen, "settling", "paid_out") ELSE intent
        /\ EndStep(i, why, "emit_completed")
        /\ UNCHANGED <<tx, rows, paid, outbox>>
    BY Zenon DEF ApplyPayoutResult
  <1>2. /\ intent[i] # NoIntent /\ QuoteStands(i) /\ Caused(i) /\ Booked(i)
        /\ Has(i, "credit_deposit") /\ paid[i] > 0
    BY Zenon DEF References, Ready, PaidOut
  <1>3. /\ intent[i].usdc \in Nat /\ intent[i].rate \in Rate /\ intent[i].ask \in Nat
        /\ paid[i] \in Nat
    <2>1. intent[i].usdc \in 1..MaxInt /\ intent[i].rate \in Rates /\ intent[i].ask \in Asks
      BY Zenon, <1>2 DEF Tables, IntentRow
    <2>2. \A x \in 1..MaxInt : x \in Nat
      BY PricingAssumption
    <2>3. paid[i] \in Nat
      BY Zenon DEF Tables
    <2> QED BY Zenon, <2>1, <2>2, <2>3, BooksAssumption
  <1>4. mid \in Nat
    BY Zenon, <1>3, ComputeMidIDRType
  <1>5. swap # None /\ payout # None
    <2>1. intent[i].usdc \in Int /\ mid \in Int /\ paid[i] \in Int
      BY <1>3, <1>4
    <2> QED BY Zenon, <2>1, EntriesAreThere
  <1>6. /\ why \in {"none", "negative spread", "ledger"}
        /\ why = "negative spread" => mid < paid[i]
    BY Zenon
  <1>7. why = "negative spread" => mid < intent[i].ask
    <2> HIDE DEF mid, why
    <2>1. paid[i] \in {0, intent[i].ask} /\ paid[i] # 0
      <3>1. paid[i] \in {0, intent[i].ask}
        BY Zenon, <1>2 DEF QuoteStands
      <3>2. paid[i] # 0
        BY <1>2, <1>3
      <3> QED BY Zenon, <3>1, <3>2
    <2> QED BY Zenon, <1>6, <2>1
  <1> HIDE DEF swap, payout, why
  <1>8. /\ saga' \in [Intents -> Runs]
        /\ reason' \in [Intents -> {"none", "rejected", "negative spread", "ledger", "transient"}]
        /\ \A j \in Intents : j # i => saga'[j] = saga[j] /\ reason'[j] = reason[j]
        /\ reason'[i] = why
        /\ saga'[i].state \notin {"none", "completed"}
        /\ saga'[i].step = IF why = "none" THEN "emit_completed" ELSE saga[i].step
    <2>1. "emit_completed" \in Steps \cup {""} /\ "emit_completed" # ""
      BY DEF Steps
    <2>2. why \in {"none", "rejected", "negative spread", "ledger"}
      BY Zenon, <1>6
    <2>3. Tables /\ EndStep(i, why, "emit_completed")
      BY Zenon, <1>1
    <2> HIDE DEF BInv, Stepping
    <2> QED BY ZenonT(40), <2>1, <2>2, <2>3, EndStepFacts
  <1>9. /\ intent' \in [Intents -> IntentRow \cup {NoIntent}]
        /\ \A j \in Intents : j # i => intent'[j] = intent[j]
        /\ intent'[i] # NoIntent /\ intent'[i].ask = intent[i].ask
        /\ intent'[i].usdc = intent[i].usdc /\ intent'[i].rate = intent[i].rate
        /\ intent'[i].state = intent[i].state \/ why = "none"
        /\ intent'[i].state # "none"
    <2>1. /\ "settling" \in States /\ "paid_out" \in States /\ "none" \notin States
          /\ intent \in [Intents -> IntentRow \cup {NoIntent}]
      BY Zenon DEF States, Tables
    <2>2. intent[i].state # "none"
      BY <1>2, <2>1 DEF IntentRow
    <2>3. CASE why = "none"
      <3>1. intent' = Moved(i, seen, "settling", "paid_out")
        BY Zenon, <1>1, <2>3
      <3>2. intent[i] # NoIntent
        BY Zenon, <1>2
      <3>3. /\ intent' \in [Intents -> IntentRow \cup {NoIntent}]
            /\ \A j \in Intents : j # i => intent'[j] = intent[j]
            /\ intent'[i] # NoIntent /\ intent'[i].ask = intent[i].ask
            /\ intent'[i].usdc = intent[i].usdc /\ intent'[i].rate = intent[i].rate
            /\ intent'[i].state = intent[i].state \/ intent'[i].state = "paid_out"
        <4> HIDE DEF BInv, Stepping
        <4> QED BY <2>1, <3>1, <3>2, MovedFacts
      <3> QED BY Zenon, <2>2, <2>3, <3>3
    <2>4. CASE why # "none"
      <3>1. intent' = intent
        BY Zenon, <1>1, <2>4
      <3> QED BY Zenon, <1>2, <2>1, <2>2, <3>1
    <2> QED BY Zenon, <2>3, <2>4
  <1>10. /\ DOMAIN journal' = Kinds \X Intents
         /\ \A kind \in Kinds, j \in Intents :
               (j # i \/ kind = "credit_deposit") => journal'[<<kind, j>>] = journal[<<kind, j>>]
         /\ \A kind \in Kinds : Has(i, kind) => Has(i, kind)'
         /\ why = "none" => \A kind \in Kinds : Has(i, kind)'
         /\ journal'[<<"fx_swap_usdc", i>>] \in {journal[<<"fx_swap_usdc", i>>], swap}
         /\ why # "none" => journal' = journal
    <2>1. CASE why = "none"
      <3>1. /\ DOMAIN swapped = Kinds \X Intents
            /\ \A k \in Kinds, j \in Intents :
                  swapped[<<k, j>>] = IF k = "fx_swap_usdc" /\ j = i /\ journal[<<k, j>>] = None
                                      THEN swap ELSE journal[<<k, j>>]
        <4>1. DOMAIN journal = Kinds \X Intents
          BY Zenon DEF Tables
        <4>2. swapped = Posted(journal, "fx_swap_usdc", i, swap)
          OBVIOUS
        <4> HIDE DEF BInv, Stepping, swapped
        <4> QED BY <4>1, <4>2, PostedFacts, AllKinds
      <3>2. journal' = Posted(swapped, "payout_disbursed", i, payout)
        BY Zenon, <1>1, <2>1
      <3> HIDE DEF swapped
      <3>3. /\ DOMAIN journal' = Kinds \X Intents
            /\ \A k \in Kinds, j \in Intents :
                  journal'[<<k, j>>] = IF k = "payout_disbursed" /\ j = i /\ swapped[<<k, j>>] = None
                                       THEN payout ELSE swapped[<<k, j>>]
        <4>1. DOMAIN swapped = Kinds \X Intents
          BY Zenon, <3>1
        <4> HIDE DEF BInv, Stepping
        <4> QED BY <3>2, <4>1, PostedFacts, AllKinds
      <3>4. \A kind \in Kinds : Has(i, kind)'
        BY <1>2, <1>5, <3>1, <3>3, AllKinds DEF Has, Kinds
      <3>5. /\ journal'[<<"fx_swap_usdc", i>>] \in {journal[<<"fx_swap_usdc", i>>], swap}
            /\ \A kind \in Kinds, j \in Intents :
                  (j # i \/ kind = "credit_deposit") => journal'[<<kind, j>>] = journal[<<kind, j>>]
        BY <3>1, <3>3, AllKinds
      <3> QED BY Zenon, <2>1, <3>3, <3>4, <3>5
    <2>2. CASE why # "none"
      <3>1. journal' = journal
        BY Zenon, <1>1, <2>2
      <3> QED BY Zenon, <2>2, <3>1 DEF Has, Tables
    <2> QED BY Zenon, <2>1, <2>2
  <1>11. Tables'
    BY Zenon, <1>1, <1>8, <1>9, <1>10 DEF Tables
  <1>12. QuoteStands(i)'
    <2>1. reason'[i] = "negative spread" =>
            ComputeMidIDR(intent'[i].usdc, intent'[i].rate) < intent'[i].ask
      BY Zenon, <1>7, <1>8, <1>9
    <2> QED BY Zenon, <1>1, <1>2, <1>9, <2>1 DEF QuoteStands, Quoted
  <1>13. Caused(i)'
    <2>1. Has(i, "credit_deposit")' /\ paid'[i] > 0
      BY Zenon, <1>1, <1>2, <1>10, AllKinds
    <2>2. intent'[i].state \in {"paid_out", "completed"} => \A kind \in Kinds : Has(i, kind)'
      BY Zenon, <1>2, <1>9, <1>10 DEF Caused
    <2>3. saga[i].step # "credit_deposit" /\ (lapses = 0 => saga[i].step \in PaidOut)
      BY Zenon, <1>2 DEF Caused, PaidOut
    <2>4. saga'[i].step # "credit_deposit" /\ (lapses = 0 => saga'[i].step \in PaidOut)
      BY Zenon, <1>8, <2>3 DEF PaidOut
    <2>5. Ready(i, saga[i].step)'
      <3>1. saga[i].step = "emit_completed" => \A kind \in Kinds : Has(i, kind)'
        BY Zenon, <1>2, <1>10 DEF Caused, Ready
      <3>2. saga'[i].step = "emit_completed" => \A kind \in Kinds : Has(i, kind)'
        BY Zenon, <1>8, <1>10, <3>1
      <3> QED BY Zenon, <2>1, <3>2 DEF Ready
    <2> QED BY Zenon, <1>8, <2>1, <2>2, <2>4, <2>5 DEF Caused
  <1>14. Booked(i)'
    <2>1. journal'[<<"credit_deposit", i>>] = journal[<<"credit_deposit", i>>]
      BY Zenon, <1>10, AllKinds
    <2>2. Has(i, "fx_swap_usdc")' => journal'[<<"fx_swap_usdc", i>>] = swap
      BY Zenon, <1>2, <1>10 DEF Booked, Has, swap
    <2> QED BY Zenon, <1>1, <1>2, <1>9, <2>1, <2>2 DEF Booked, Has, swap
  <1>15. Grows(i)
    BY Zenon, <1>1, <1>8, <1>9, <1>10 DEF Grows, Has
  <1>16. \A j \in Intents : j # i => Untouched(j)
    <2>1. \A j \in Intents : j # i => \A kind \in Kinds : journal'[<<kind, j>>] = journal[<<kind, j>>]
      BY Zenon, <1>10
    <2> QED BY Zenon, <1>1, <1>8, <1>9, <2>1 DEF Untouched
  <1> QED BY Zenon, <1>1, <1>8, <1>11, <1>12, <1>13, <1>14, <1>15, <1>16, TouchOne

\* The run ends, with an event in the outbox.
LEMMA EmitKeeps ==
  ASSUME BInv, NEW i \in Intents, NEW seen \in States, Stepping(i, "emit_completed", seen),
         EmitCompleted(i, seen)
  PROVE  BInv'
  <1> USE DEF BInv, Stepping
  <1>1. /\ intent' = Moved(i, seen, "paid_out", "completed")
        /\ outbox' = [outbox EXCEPT ![i] = @ + 1]
        /\ EndStep(i, "none", "")
        /\ UNCHANGED <<tx, rows, journal, paid>>
    BY Zenon DEF EmitCompleted
  <1>2. /\ intent[i] # NoIntent /\ QuoteStands(i) /\ Caused(i) /\ Booked(i)
        /\ \A kind \in Kinds : Has(i, kind)
    BY Zenon DEF References, Ready
  <1>3. /\ intent' \in [Intents -> IntentRow \cup {NoIntent}]
        /\ \A j \in Intents : j # i => intent'[j] = intent[j]
        /\ intent'[i] # NoIntent /\ intent'[i].ask = intent[i].ask
        /\ intent'[i].usdc = intent[i].usdc /\ intent'[i].rate = intent[i].rate
        /\ intent'[i].state = intent[i].state \/ intent'[i].state = "completed"
    <2>1. /\ "paid_out" \in States /\ "completed" \in States
          /\ intent \in [Intents -> IntentRow \cup {NoIntent}]
      BY Zenon DEF States, Tables
    <2>2. intent[i] # NoIntent
      BY Zenon, <1>2
    <2>3. intent' = Moved(i, seen, "paid_out", "completed")
      BY Zenon, <1>1
    <2> HIDE DEF BInv, Stepping
    <2> QED BY <2>1, <2>2, <2>3, MovedFacts
  <1>4. /\ saga' \in [Intents -> Runs]
        /\ reason' \in [Intents -> {"none", "rejected", "negative spread", "ledger", "transient"}]
        /\ \A j \in Intents : j # i => saga'[j] = saga[j] /\ reason'[j] = reason[j]
        /\ reason'[i] = "none" /\ saga'[i].step = saga[i].step /\ saga'[i].state # "none"
    <2> HIDE DEF Stepping
    <2> QED BY ZenonT(40), <1>1, EndStepFacts
  <1>5. /\ outbox' \in [Intents -> Nat] /\ outbox'[i] > 0
        /\ \A j \in Intents : j # i => outbox'[j] = outbox[j]
    <2>1. outbox \in [Intents -> Nat]
      BY Zenon DEF Tables
    <2>2. outbox' = [outbox EXCEPT ![i] = @ + 1]
      BY Zenon, <1>1
    <2> HIDE DEF BInv, Stepping
    <2> QED BY <2>1, <2>2
  <1>6. Tables'
    BY Zenon, <1>1, <1>3, <1>4, <1>5 DEF Tables
  <1>7. QuoteStands(i)'
    BY Zenon, <1>1, <1>2, <1>3, <1>4 DEF QuoteStands, Quoted
  <1>8. Caused(i)'
    <2>1. \A kind \in Kinds : Has(i, kind)'
      BY Zenon, <1>1, <1>2 DEF Has
    <2>2. Ready(i, saga[i].step) => Ready(i, saga[i].step)'
      BY Zenon, <1>1, <1>4, <2>1, AllKinds DEF Ready
    <2> QED BY Zenon, <1>1, <1>2, <1>4, <1>5, <2>1, <2>2, AllKinds DEF Caused
  <1>9. Booked(i)'
    BY Zenon, <1>1, <1>2, <1>3 DEF Booked, Has
  <1>10. Grows(i)
    BY Zenon, <1>1, <1>3, <1>4, <1>5 DEF Grows
  <1>11. \A j \in Intents : j # i => Untouched(j)
    BY Zenon, <1>1, <1>3, <1>4, <1>5 DEF Untouched
  <1> QED BY Zenon, <1>1, <1>4, <1>6, <1>7, <1>8, <1>9, <1>10, <1>11, TouchOne

\* A step, in time or late, keeps the invariant.
LEMMA ExecuteKeeps ==
  ASSUME BInv, NEW i \in Intents, NEW step \in Steps, NEW seen \in States, Stepping(i, step, seen),
         Execute(i, step, seen)
  PROVE  BInv'
  <1>1. CASE step = "credit_deposit" /\ CreditDeposit(i, seen)
    BY Zenon, <1>1, CreditKeeps
  <1>2. CASE step = "trigger_payout" /\ TriggerPayout(i, seen)
    BY Zenon, <1>2, TriggerKeeps
  <1>3. CASE step = "apply_payout_result" /\ ApplyPayoutResult(i, seen)
    BY Zenon, <1>3, ApplyKeeps
  <1>4. CASE step = "emit_completed" /\ EmitCompleted(i, seen)
    BY Zenon, <1>4, EmitKeeps
  <1>5. CASE FailedAttempt(i)
    BY Zenon, <1>5, FailedKeeps
  <1> QED BY Zenon, <1>1, <1>2, <1>3, <1>4, <1>5 DEF Execute

\* A worker in time finds what its step needs.
LEMMA TickKeeps ==
  ASSUME BInv, NEW i \in Intents, Tick(i)
  PROVE  BInv'
  <1>1. /\ saga[i].state # "none" /\ saga[i].step \in Steps /\ Ready(i, saga[i].step)
        /\ UNCHANGED <<late, lapses, page>>
    BY Zenon DEF Tick, workers, readers, BInv, Tables, Runs, Caused
  <1>2. intent[i].state \in States
    BY Zenon, <1>1 DEF BInv, Tables, References, IntentRow
  <1>3. Stepping(i, saga[i].step, intent[i].state)
    BY Zenon, <1>1 DEF Stepping
  <1> QED BY Zenon, <1>1, <1>2, <1>3, ExecuteKeeps DEF Tick

\* So does a late one, although others have moved the run.
LEMMA LateTickKeeps ==
  ASSUME BInv, NEW w \in late, LateTick(w)
  PROVE  BInv'
  <1>1. PICK seen \in {w.seen, intent[w.of].state} : Execute(w.of, w.step, seen)
    BY Zenon DEF LateTick
  <1>2. w.of \in Intents /\ w.step \in Steps /\ w.seen \in States
    BY Zenon DEF BInv, Tables
  <1>3. saga[w.of].state # "none" /\ Ready(w.of, w.step) /\ lapses # 0
    BY Zenon DEF BInv, Latecomers
  <1>4. seen \in States
    <2>1. intent[w.of] \in IntentRow
      BY Zenon, <1>2, <1>3 DEF BInv, Tables, References
    <2>2. intent[w.of].state \in States
      BY Zenon, <2>1 DEF IntentRow
    <2> QED BY Zenon, <1>1, <1>2, <2>2
  <1>5. Stepping(w.of, w.step, seen)
    BY Zenon, <1>3 DEF Stepping, LateTick, readers
  <1> QED BY Zenon, <1>1, <1>2, <1>4, <1>5, ExecuteKeeps

\* A worker whose lease runs out has found what its step needs.
LEMMA LeaseKeeps ==
  ASSUME BInv, NEW i \in Intents, LeaseRunsOut(i)
  PROVE  BInv'
  <1> USE DEF BInv
  <1> DEFINE new == [of |-> i, step |-> saga[i].step, seen |-> intent[i].state]
  <1>1. /\ saga[i].state # "none" /\ late' = late \cup {new}
        /\ UNCHANGED <<intent, tx, rows, saga, reason, journal, paid, outbox, page>>
    BY Zenon DEF LeaseRunsOut, money, readers
  <1>2. saga[i].step \in Steps /\ Ready(i, saga[i].step)
    BY Zenon DEF Tables, Runs, Caused
  <1>3. intent[i].state \in States
    BY Zenon, <1>1 DEF Tables, References, IntentRow
  <1>4. /\ new \in [of : Intents, step : Steps, seen : States]
        /\ new.of = i /\ new.step = saga[i].step
    BY Zenon, <1>2, <1>3
  <1>5. lapses' \in 0..MaxLapses /\ lapses' # 0
    <2>1. lapses \in 0..MaxLapses /\ lapses < MaxLapses /\ lapses' = lapses + 1
      BY Zenon DEF LeaseRunsOut, Tables
    <2> HIDE DEF BInv
    <2> QED BY <2>1, BooksAssumption
  <1> HIDE DEF new
  <1>6. Tables'
    BY Zenon, <1>1, <1>4, <1>5 DEF Tables
  <1>7. \A j \in Intents : Untouched(j)
    BY Zenon, <1>1 DEF Untouched
  <1>8. \A j \in Intents : QuoteStands(j)' /\ Caused(j)' /\ Booked(j)' /\ Grows(j)
    BY Zenon, <1>1, <1>5, <1>7, UntouchedKeeps
  <1>9. References'
    BY Zenon, <1>1, ReferencesStay
  <1>10. PageSoFar'
    BY Zenon, <1>1, <1>5, <1>8, PageStays
  <1>11. Latecomers'
    <2>1. ASSUME NEW w \in late' PROVE saga'[w.of].state # "none" /\ Ready(w.of, w.step)'
      <3>1. w.of \in Intents /\ saga[w.of].state # "none" /\ Ready(w.of, w.step)
        BY Zenon, <1>1, <1>2, <1>4, <2>1 DEF Latecomers, Tables
      <3> QED BY Zenon, <1>1, <1>8, <3>1, ReadyStays
    <2> QED BY Zenon, <1>5, <2>1 DEF Latecomers
  <1> QED BY Zenon, <1>6, <1>8, <1>9, <1>10, <1>11

\* Readers leave the tables alone.
LEMMA ReadersKeep ==
  ASSUME BInv, UNCHANGED <<money, workers>>, PageSoFar'
  PROVE  BInv'
  <1> USE DEF BInv, money, workers
  <1>1. Tables'
    BY Zenon DEF Tables
  <1>2. \A j \in Intents : Untouched(j)
    BY Zenon DEF Untouched
  <1>3. \A j \in Intents : QuoteStands(j)' /\ Caused(j)' /\ Booked(j)' /\ Grows(j)
    BY Zenon, <1>2, UntouchedKeeps
  <1>4. References'
    BY Zenon, ReferencesStay
  <1>5. Latecomers'
    BY Zenon, <1>3, LatecomersStay
  <1> QED BY Zenon, <1>1, <1>3, <1>4, <1>5

\* The parts of a page, in the order loadIntentView reads them.
LEMMA PartsAre ==
  /\ Len(Parts) = 6
  /\ Parts[1] = "intent" /\ Parts[2] = "onchain" /\ Parts[3] = "entries"
  /\ Parts[4] = "payout" /\ Parts[5] = "saga" /\ Parts[6] = "outbox"
  BY DEF Parts

\* What reading each part shows.
LEMMA CurrentIs ==
  ASSUME NEW i
  PROVE  /\ Current("intent", i) = intent[i].state
         /\ Current("onchain", i) = ListOnchainPaymentsByIntent(i)
         /\ Current("entries", i) = ListJournalEntriesByIntent(i)
         /\ Current("payout", i) = GetPayoutByIntent(i)
         /\ Current("saga", i) = GetSagaRunByIntent(i)
         /\ Current("outbox", i) = ListOutboxByAggregate(i)
  BY DEF Current

\* A page begins with the intent's state.
LEMMA PageBegins ==
  ASSUME BInv, NEW i \in Intents, HandleIntent(i)
  PROVE  PageSoFar'
  <1> USE DEF BInv
  <1>1. intent[i] # NoIntent /\ page' = NextPart(i, 0, NoPage.read) /\ UNCHANGED money
    BY Zenon DEF HandleIntent
  <1>2. NoPage.read = [p \in PartNames |-> None] /\ 0 + 1 = 1
    BY DEF NoPage
  <1>3. page' = [of |-> i, at |-> 1, read |-> [NoPage.read EXCEPT !["intent"] = intent[i].state]]
    <2>1. NextPart(i, 0, NoPage.read) =
            [of |-> i, at |-> 0 + 1,
             read |-> [NoPage.read EXCEPT ![Parts[0 + 1]] = Current(Parts[0 + 1], i)]]
      BY Zenon DEF NextPart
    <2>2. Parts[0 + 1] = "intent" /\ Current("intent", i) = intent[i].state
      BY PartsAre, CurrentIs
    <2> QED BY <1>1, <2>1, <2>2
  <1>4. "intent" \in PartNames
    BY DEF PartNames
  <1>5. /\ page'.of = i /\ page'.at = 1 /\ DOMAIN page'.read = PartNames
        /\ page'.read["intent"] = intent[i].state
    BY <1>2, <1>3, <1>4
  <1>6. intent[i].state # "none" /\ Caused(i)
    <2>1. intent[i] \in IntentRow
      BY Zenon, <1>1 DEF Tables
    <2> QED BY Zenon, <2>1 DEF IntentRow, States
  <1>7. /\ page'.read["intent"] # "pending" => Has(i, "credit_deposit")
        /\ page'.read["intent"] \in {"paid_out", "completed"} => \A kind \in Kinds : Has(i, kind)
    BY Zenon, <1>5, <1>6 DEF Caused
  <1>8. 1 \in 0..6 /\ ~(1 >= 2) /\ ~(1 >= 3) /\ ~(1 >= 4) /\ ~(1 >= 5) /\ ~(1 >= 6) /\ 1 >= 1
    OBVIOUS
  <1>9. PICK q : q = page'.read
    BY Zenon
  <1>10. Shown(i, 1, q)
    BY Zenon, <1>1, <1>7, <1>8, <1>9 DEF Shown
  <1>11. Shown(i, 1, q)'
    <2>1. Grows(i) /\ lapses' = lapses
      BY Zenon, <1>1 DEF Grows, money, HandleIntent, workers
    <2> QED BY Zenon, <1>10, <2>1, ShownStays
  <1> QED BY Zenon, <1>5, <1>8, <1>9, <1>11, PageBecomes

\* A part that is read shows what the tables say now.
LEMMA PartIsRead ==
  ASSUME BInv, page.of \in Intents, NEW n \in 1..5, page.at = n, UNCHANGED money,
         page' = NextPart(page.of, page.at, page.read)
  PROVE  /\ page'.of = page.of /\ page'.at = n + 1 /\ DOMAIN page'.read = PartNames
         /\ page'.read[Parts[n + 1]] = Current(Parts[n + 1], page.of)
         /\ \A p \in PartNames : p # Parts[n + 1] => page'.read[p] = page.read[p]
  <1>1. Parts[n + 1] \in PartNames /\ DOMAIN page.read = PartNames
    <2>1. n = 1 \/ n = 2 \/ n = 3 \/ n = 4 \/ n = 5
      OBVIOUS
    <2>2. Parts[n + 1] \in PartNames
      BY <2>1, PartsAre DEF PartNames
    <2> QED BY Zenon, <2>2 DEF BInv, PageSoFar
  <1>2. page' = [of |-> page.of, at |-> n + 1,
                 read |-> [page.read EXCEPT ![Parts[n + 1]] = Current(Parts[n + 1], page.of)]]
    BY Zenon DEF NextPart
  <1> QED BY <1>1, <1>2

\* Reading the next part keeps the page causal: what the parts before it showed
\* is still so.
LEMMA PageGoesOn ==
  ASSUME BInv, LoadIntentView
  PROVE  PageSoFar'
  <1>1. /\ page.of # None /\ page.at < Len(Parts)
        /\ page' \in {NextPart(page.of, page.at, page.read), NoPage} /\ UNCHANGED <<money, lapses>>
    BY Zenon DEF LoadIntentView, workers
  <1>2. CASE page' = NoPage
    BY <1>2 DEF PageSoFar, NoPage
  <1>3. CASE page' = NextPart(page.of, page.at, page.read)
    <2>0. PICK r, q : page.read = r /\ page'.read = q
      BY Zenon
    <2>1. PICK i \in Intents, n \in 1..5 : page.of = i /\ page.at = n
      <3>1. page.of \in Intents /\ page.at \in 0..6 /\ page.at >= 1
        BY Zenon, <1>1 DEF BInv, PageSoFar, Shown
      <3>2. page.at \in 1..5
        BY <1>1, <3>1, PartsAre
      <3> QED BY Zenon, <3>1, <3>2
    <2>2. /\ page'.of = i /\ page'.at = n + 1 /\ DOMAIN q = PartNames
          /\ q[Parts[n + 1]] = Current(Parts[n + 1], i)
          /\ \A p \in PartNames : p # Parts[n + 1] => q[p] = r[p]
      BY Zenon, <1>1, <1>3, <2>0, <2>1, PartIsRead
    <2>3. Shown(i, n, r) /\ Caused(i) /\ References
      BY Zenon, <2>0, <2>1, BooksAssumption DEF BInv, PageSoFar
    <2>4. /\ "intent" \in PartNames /\ "onchain" \in PartNames /\ "entries" \in PartNames
          /\ "payout" \in PartNames /\ "saga" \in PartNames /\ "outbox" \in PartNames
      BY DEF PartNames
    <2>5. Has(i, "credit_deposit") => ListOnchainPaymentsByIntent(i) # {}
      <3>1. SUFFICES ASSUME Has(i, "credit_deposit") PROVE ListOnchainPaymentsByIntent(i) # {}
        BY Zenon
      <3>2. PICK k \in DOMAIN rows : rows[k].intent = i
        BY Zenon, <2>3, <3>1 DEF Caused, References, HasDeposit
      <3>3. k \in {j \in DOMAIN rows : rows[j].intent = i}
        BY Zenon, <3>2
      <3>4. rows[k].sig \in ListOnchainPaymentsByIntent(i)
        BY Zenon, <3>3 DEF ListOnchainPaymentsByIntent
      <3> QED BY Zenon, <3>4
    <2>6. \A kind \in Kinds : kind \in ListJournalEntriesByIntent(i) <=> Has(i, kind)
      BY Zenon DEF ListJournalEntriesByIntent, Has
    <2>7. (\A kind \in Kinds : Has(i, kind)) => ListJournalEntriesByIntent(i) = Kinds
      BY Zenon DEF ListJournalEntriesByIntent, Has
    <2>8. /\ GetPayoutByIntent(i) <=> paid[i] > 0
          /\ GetSagaRunByIntent(i) = saga[i] /\ ListOutboxByAggregate(i) = outbox[i]
      BY Zenon DEF GetPayoutByIntent, GetSagaRunByIntent, ListOutboxByAggregate
    <2>9. Shown(i, n + 1, q)
      <3>1. CASE n = 1
        <4>1. n + 1 = 2 /\ q["intent"] = r["intent"] /\ q["onchain"] = ListOnchainPaymentsByIntent(i)
          BY <2>2, <2>4, <3>1, PartsAre, CurrentIs
        <4>2. 2 >= 1 /\ ~(2 >= 3) /\ ~(2 >= 4) /\ ~(2 >= 5) /\ ~(2 >= 6)
          OBVIOUS
        <4> QED BY Zenon, <2>3, <2>5, <4>1, <4>2 DEF Shown
      <3>2. CASE n = 2
        <4>1. /\ n + 1 = 3 /\ q["intent"] = r["intent"] /\ q["onchain"] = r["onchain"]
              /\ q["entries"] = ListJournalEntriesByIntent(i)
          BY <2>2, <2>4, <3>2, PartsAre, CurrentIs
        <4>2. 3 >= 1 /\ ~(3 >= 4) /\ ~(3 >= 5) /\ ~(3 >= 6) /\ n >= 2
          BY <3>2
        <4>3. "payout_disbursed" \in q["entries"] => paid[i] > 0
          BY Zenon, <2>3, <2>6, <4>1, AllKinds DEF Caused
        <4>4. /\ q["intent"] # "pending" => "credit_deposit" \in q["entries"]
              /\ q["intent"] \in {"paid_out", "completed"} => q["entries"] = Kinds
          BY Zenon, <2>3, <2>6, <2>7, <4>1, AllKinds DEF Shown
        <4> QED BY Zenon, <2>3, <4>1, <4>2, <4>3, <4>4 DEF Shown
      <3>3. CASE n = 3
        <4>1. /\ n + 1 = 4 /\ q["intent"] = r["intent"] /\ q["onchain"] = r["onchain"]
              /\ q["entries"] = r["entries"] /\ q["payout"] = GetPayoutByIntent(i)
          BY <2>2, <2>4, <3>3, PartsAre, CurrentIs
        <4>2. 4 >= 1 /\ ~(4 >= 5) /\ ~(4 >= 6) /\ n >= 2 /\ n >= 3
          BY <3>3
        <4>3. /\ q["payout"] => paid[i] > 0
              /\ "payout_disbursed" \in q["entries"] => q["payout"]
          BY Zenon, <2>3, <2>8, <4>1, <4>2 DEF Shown
        <4> QED BY Zenon, <2>3, <4>1, <4>2, <4>3 DEF Shown
      <3>4. CASE n = 4
        <4>1. /\ n + 1 = 5 /\ q["intent"] = r["intent"] /\ q["onchain"] = r["onchain"]
              /\ q["entries"] = r["entries"] /\ q["payout"] = r["payout"] /\ q["saga"] = saga[i]
          BY <2>2, <2>4, <2>8, <3>4, PartsAre, CurrentIs
        <4>2. 5 >= 1 /\ ~(5 >= 6) /\ n >= 2 /\ n >= 3 /\ n >= 4
          BY <3>4
        <4>3. /\ q["payout"] => /\ q["saga"].state # "none" /\ q["saga"].step # "credit_deposit"
                                /\ lapses = 0 => q["saga"].step # "trigger_payout"
              /\ q["saga"].state = "completed" => outbox[i] > 0
          BY Zenon, <2>3, <4>1, <4>2 DEF Shown, Caused, PaidOut
        <4> QED BY Zenon, <2>3, <4>1, <4>2, <4>3 DEF Shown
      <3>5. CASE n = 5
        <4>1. /\ n + 1 = 6 /\ q["intent"] = r["intent"] /\ q["onchain"] = r["onchain"]
              /\ q["entries"] = r["entries"] /\ q["payout"] = r["payout"] /\ q["saga"] = r["saga"]
              /\ q["outbox"] = outbox[i]
          BY <2>2, <2>4, <2>8, <3>5, PartsAre, CurrentIs
        <4>2. 6 >= 1 /\ n >= 2 /\ n >= 3 /\ n >= 4 /\ n >= 5
          BY <3>5
        <4> QED BY Zenon, <2>3, <4>1, <4>2 DEF Shown
      <3> QED BY <3>1, <3>2, <3>3, <3>4, <3>5
    <2>10. Shown(i, n + 1, q)'
      <3>1. Grows(i)
        BY Zenon, <1>1 DEF Grows, money
      <3>2. PICK m : m = n + 1
        BY Zenon
      <3>3. Shown(i, m, q)'
        BY Zenon, <1>1, <2>9, <3>1, <3>2, ShownStays
      <3> QED BY Zenon, <3>2, <3>3
    <2>11. n + 1 \in 0..6
      OBVIOUS
    <2> QED BY Zenon, <2>0, <2>1, <2>2, <2>10, <2>11, PageBecomes
  <1> QED BY Zenon, <1>1, <1>2, <1>3

\* Every step keeps the invariant.
LEMMA Invariance == BInv /\ [Next]_vars => BInv'
  <1> SUFFICES ASSUME BInv, [Next]_vars PROVE BInv'
    OBVIOUS
  <1>1. ASSUME UNCHANGED <<money, workers, page>> PROVE BInv'
    <2>1. \A i \in Intents : Untouched(i)
      BY Zenon, <1>1 DEF Untouched, money
    <2>2. \A i \in Intents : Grows(i)
      BY Zenon, <1>1, <2>1, UntouchedKeeps DEF money, workers
    <2>3. PageSoFar'
      BY Zenon, <1>1, <2>2, PageStays DEF BInv, workers
    <2> QED BY Zenon, <1>1, <2>3, ReadersKeep
  <1>2. ASSUME NEW i \in Intents, CreatePaymentIntent(i) PROVE BInv'
    BY Zenon, <1>2, CreateKeeps
  <1>3. ASSUME NEW i \in Intents, Tick(i) PROVE BInv'
    BY Zenon, <1>3, TickKeeps
  <1>4. ASSUME NEW i \in Intents, LeaseRunsOut(i) PROVE BInv'
    BY Zenon, <1>4, LeaseKeeps
  <1>5. ASSUME NEW w \in late, LateTick(w) PROVE BInv'
    BY Zenon, <1>5, LateTickKeeps
  <1>6. ASSUME NEW i \in Intents, HandleIntent(i) PROVE BInv'
    <2>1. UNCHANGED <<money, workers>>
      BY Zenon, <1>6 DEF HandleIntent
    <2> QED BY Zenon, <1>6, <2>1, PageBegins, ReadersKeep
  <1>7. ASSUME NEW d \in Deposits, Pay(d) PROVE BInv'
    BY Zenon, <1>7, PayKeeps
  <1>8. ASSUME NEW d \in Deposits, ProcessSignature(d) PROVE BInv'
    BY Zenon, <1>8, ProcessKeeps
  <1>9. CASE FetchOnChainBalance
    BY Zenon, <1>1, <1>9 DEF FetchOnChainBalance
  <1>10. CASE Walk
    BY Zenon, <1>1, <1>10 DEF Walk
  <1>11. CASE LoadIntentView
    <2>1. UNCHANGED <<money, workers>>
      BY Zenon, <1>11 DEF LoadIntentView
    <2> QED BY Zenon, <1>11, <2>1, PageGoesOn, ReadersKeep
  <1>12. CASE UNCHANGED vars
    BY Zenon, <1>1, <1>12 DEF vars, readers
  <1> QED
    BY Zenon, <1>2, <1>3, <1>4, <1>5, <1>6, <1>7, <1>8, <1>9, <1>10, <1>11, <1>12
    DEF Next

\* The tables agree with one another in every state the program reaches.
THEOREM Inductive == Spec => []BInv
  BY BInvInit, Invariance, PTL DEF Spec

-----------------------------------------------------------------------------
\* The columns of an intent.
LEMMA RowColumns ==
  ASSUME NEW row \in IntentRow
  PROVE  /\ row.ask \in Nat \ {0} /\ row.rate \in Rate
         /\ row.usdc \in Nat /\ row.usdc > 0 /\ row.usdc \in 0..MaxInt
  <1>1. MaxInt \in Nat
    BY PricingAssumption
  <1>2. row.ask \in Asks /\ row.rate \in Rates /\ row.usdc \in 1..MaxInt
    BY DEF IntentRow
  <1>3. Asks \subseteq 1..MaxInt /\ Rates \subseteq Rate
    BY Zenon, BooksAssumption
  <1>4. row.ask \in 1..MaxInt /\ row.rate \in Rate
    BY Zenon, <1>2, <1>3
  <1> QED BY <1>1, <1>2, <1>4

\* The two comparisons exclude one another.
LEMMA NotBoth ==
  ASSUME NEW a \in Nat, NEW b \in Nat, a < b, a >= b
  PROVE  FALSE
  OBVIOUS

\* No covered quote is refused by apply_payout_result for a negative spread,
\* for every rate, spread and amount.
THEOREM CoveredSettle == Spec => []CoveredQuotesSettle
  <1>1. BInv => CoveredQuotesSettle
    <2> SUFFICES ASSUME BInv, NEW i \in Intents, reason[i] = "negative spread",
                        Covered(intent[i].ask, intent[i].rate, SpreadBps)
                 PROVE  FALSE
      BY Zenon DEF CoveredQuotesSettle
    <2> DEFINE ask == intent[i].ask
               rate == intent[i].rate
    <2>1. /\ intent[i] # NoIntent /\ intent[i].usdc = Quoted(ask, rate)
          /\ ComputeMidIDR(intent[i].usdc, rate) < ask
      BY Zenon DEF BInv, QuoteStands
    <2>2. intent[i] \in IntentRow
      BY Zenon, <2>1 DEF BInv, Tables
    <2>3. /\ ask \in Nat \ {0} /\ rate \in Rate /\ intent[i].usdc \in Nat
          /\ intent[i].usdc > 0 /\ SpreadBps \in 0..Bps
      BY Zenon, <2>2, RowColumns, BooksAssumption
    <2>4. /\ intent[i].usdc = QuoteAmount(ask, rate, SpreadBps)
          /\ QuoteAmount(ask, rate, SpreadBps) > 0
          /\ Covered(ask, rate, SpreadBps)
      BY Zenon, <2>1, <2>3 DEF Quoted
    <2> DEFINE mid == ComputeMidIDR(intent[i].usdc, rate)
    <2>5. mid >= ask
      BY Zenon, <2>3, <2>4, CoveredIsWorthAsk
    <2>6. mid \in Nat
      BY Zenon, <2>3, ComputeMidIDRType
    <2> HIDE DEF mid, ask
    <2>7. mid < ask /\ ask \in Nat
      BY Zenon, <2>1, <2>3 DEF mid, ask
    <2> QED BY Zenon, <2>5, <2>6, <2>7, NotBoth
  <1> QED BY <1>1, Inductive, PTL

\* The URL's amount is the quoted one, to the payer and to ParseAmount, for
\* every amount an int64 holds.
THEOREM URLKeepsQuote == Spec => []URLNamesQuote
  <1>1. BInv => URLNamesQuote
    <2> SUFFICES ASSUME BInv, NEW i \in Intents, intent[i] # NoIntent
                 PROVE  /\ URLAmount(i) = intent[i].usdc
                        /\ ParseAmount(FormatAmount(intent[i].usdc)) = intent[i].usdc
      BY Zenon DEF URLNamesQuote
    <2>1. intent[i] \in IntentRow
      BY Zenon DEF BInv, Tables
    <2>2. intent[i].usdc \in 0..MaxInt
      BY <2>1, PricingAssumption DEF IntentRow
    <2> QED BY Zenon, <2>2, URLRoundTrip DEF URLAmount
  <1> QED BY <1>1, Inductive, PTL

\* No page of the dashboard shows an effect without its cause, for any number
\* of intents and any interleaving with the saga.
THEOREM PagesAreCausal == Spec => []PageIsCausal
  <1>1. BInv => PageIsCausal
    <2> SUFFICES ASSUME BInv, page.of # None, page.at = Len(Parts)
                 PROVE  PageIsCausal
      BY Zenon DEF PageIsCausal
    <2>1. /\ page.at >= 1 /\ page.at >= 2 /\ page.at >= 3
          /\ page.at >= 4 /\ page.at >= 5 /\ page.at >= 6
      BY PartsAre
    <2> QED BY Zenon, <2>1 DEF BInv, PageSoFar, Shown, PageIsCausal
  <1> QED BY <1>1, Inductive, PTL

-----------------------------------------------------------------------------
(* Custody under each step, the walker's report excepted.                  *)

\* An account an entry does not touch, and one it does.
LEMMA NetIs ==
  ASSUME NEW lines, NEW a
  PROVE  /\ a \notin DOMAIN lines => Net(lines, a) = 0
         /\ \A n \in Int : a \in DOMAIN lines /\ lines[a] = Line(n, "debit") => Net(lines, a) = n
         /\ \A n \in Int : a \in DOMAIN lines /\ lines[a] = Line(n, "credit") => Net(lines, a) = -n
  BY DEF Net, Line

\* An entry that is not empty, has positive amounts and balances is taken.
LEMMA BalancedIsAccepted ==
  ASSUME NEW lines, DOMAIN lines # {}, \A a \in DOMAIN lines : lines[a].amount > 0,
         \A sum \in Sums(lines) : sum = 0
  PROVE  Accepted(lines)
  <1>1. 0 % (2 * (MaxInt + 1)) = 0
    BY PricingAssumption
  <1>2. \A sum \in Sums(lines) : sum % (2 * (MaxInt + 1)) = 0
    BY Zenon, <1>1
  <1> QED BY Zenon, <1>2 DEF Accepted, Validate

\* The ledger takes a credit.
LEMMA CreditAccepted ==
  ASSUME NEW n \in Nat, n > 0
  PROVE  Accepted(CreditLines(n))
  <1> DEFINE l == CreditLines(n)
  <1>1. /\ DOMAIN l = {"hot_wallet", "user_funds"}
        /\ l["hot_wallet"] = Line(n, "debit") /\ l["user_funds"] = Line(n, "credit")
    BY DEF CreditLines
  <1>2. \A a \in DOMAIN l : l[a].amount > 0
    BY <1>1 DEF Line
  <1> HIDE DEF l
  <1>3. /\ Net(l, "hot_wallet") = n /\ Net(l, "user_funds") = -n /\ Net(l, "fx_settlement") = 0
        /\ Net(l, "expense_fx_swap") = 0 /\ Net(l, "cash_out") = 0 /\ Net(l, "revenue_fx_spread") = 0
    BY <1>1, NetIs
  <1>4. \A sum \in Sums(l) : sum = 0
    BY <1>3 DEF Sums
  <1>5. Accepted(l)
    BY Zenon, <1>1, <1>2, <1>4, BalancedIsAccepted
  <1> QED BY <1>5 DEF l

\* The ledger takes a swap.
LEMMA SwapAccepted ==
  ASSUME NEW n \in Nat, n > 0
  PROVE  Accepted(SwapLines(n))
  <1> DEFINE l == SwapLines(n)
  <1>1. /\ DOMAIN l = {"user_funds", "fx_settlement"}
        /\ l["user_funds"] = Line(n, "debit") /\ l["fx_settlement"] = Line(n, "credit")
    BY DEF SwapLines
  <1>2. \A a \in DOMAIN l : l[a].amount > 0
    BY <1>1 DEF Line
  <1> HIDE DEF l
  <1>3. /\ Net(l, "hot_wallet") = 0 /\ Net(l, "user_funds") = n /\ Net(l, "fx_settlement") = -n
        /\ Net(l, "expense_fx_swap") = 0 /\ Net(l, "cash_out") = 0 /\ Net(l, "revenue_fx_spread") = 0
    BY <1>1, NetIs
  <1>4. \A sum \in Sums(l) : sum = 0
    BY <1>3 DEF Sums
  <1>5. Accepted(l)
    BY Zenon, <1>1, <1>2, <1>4, BalancedIsAccepted
  <1> QED BY <1>5 DEF l

\* The ledger takes a payout that the mid value covers, with a spread or
\* without.
LEMMA PayoutAccepted ==
  ASSUME NEW mid \in Nat, NEW n \in Nat, n > 0, mid >= n
  PROVE  Accepted(PayoutLines(mid, n)) /\ DOMAIN PayoutLines(mid, n) \subseteq IDR
  <1> DEFINE l == PayoutLines(mid, n)
  <1>1. /\ DOMAIN l = IF mid > n THEN IDR ELSE IDR \ {"revenue_fx_spread"}
        /\ l["expense_fx_swap"] = Line(mid, "debit") /\ l["cash_out"] = Line(n, "credit")
        /\ mid > n => l["revenue_fx_spread"] = Line(mid - n, "credit")
    BY DEF PayoutLines, IDR
  <1>2. \A a \in DOMAIN l : l[a].amount > 0
    BY <1>1 DEF Line, IDR
  <1> HIDE DEF l
  <1>3. /\ Net(l, "hot_wallet") = 0 /\ Net(l, "user_funds") = 0 /\ Net(l, "fx_settlement") = 0
        /\ Net(l, "expense_fx_swap") = mid /\ Net(l, "cash_out") = -n
        /\ Net(l, "revenue_fx_spread") = -(mid - n)
    BY <1>1, NetIs DEF IDR
  <1>4. \A sum \in Sums(l) : sum = 0
    BY <1>3 DEF Sums
  <1>5. DOMAIN l # {} /\ DOMAIN l \subseteq IDR
    BY <1>1 DEF IDR
  <1>6. Accepted(l)
    BY Zenon, <1>2, <1>4, <1>5, BalancedIsAccepted
  <1> QED BY <1>5, <1>6 DEF l

\* A natural number is an integer.
LEMMA NatInt == ASSUME NEW n \in Nat PROVE n \in Int
  OBVIOUS

\* A later row leaves the oldest one the oldest.
LEMMA DepositStays ==
  ASSUME NEW S, rows \in Seq(S), NEW r \in S, rows' = Append(rows, r),
         NEW i \in Intents, HasDeposit(i)
  PROVE  HasDeposit(i)' /\ DepositFor(i)' = DepositFor(i)
  <1> DEFINE Oldest(q, k) == q[k].intent = i /\ \A j \in 1..(k - 1) : q[j].intent # i
  <1>1. PICK k \in DOMAIN rows : Oldest(rows, k)
    BY Zenon DEF HasDeposit
  <1>2. /\ k \in Nat /\ k >= 1 /\ k \in DOMAIN rows' /\ rows'[k] = rows[k]
        /\ \A j \in 1..(k - 1) : j \in DOMAIN rows /\ rows'[j] = rows[j]
        /\ \A j \in DOMAIN rows : j \in Nat /\ j >= 1
        /\ \A j \in DOMAIN rows' : j \in Nat /\ j >= 1
    BY <1>1
  <1>3. Oldest(rows', k)
    BY Zenon, <1>1, <1>2
  <1>4. ASSUME NEW q, NEW l \in Nat, l >= 1, Oldest(q, k), Oldest(q, l) PROVE l = k
    BY <1>2, <1>4
  <1>5. \A l \in DOMAIN rows : Oldest(rows, l) => l = k
    BY Zenon, <1>1, <1>2, <1>4
  <1>6. \A l \in DOMAIN rows' : Oldest(rows', l) => l = k
    BY Zenon, <1>2, <1>3, <1>4
  <1>7. (CHOOSE l \in DOMAIN rows : Oldest(rows, l)) = k
    BY Zenon, <1>1, <1>5
  <1>8. (CHOOSE l \in DOMAIN rows' : Oldest(rows', l)) = k
    BY Zenon, <1>2, <1>3, <1>6
  <1>9. DepositFor(i) = rows[k] /\ DepositFor(i)' = rows'[k]
    BY Zenon, <1>7, <1>8 DEF DepositFor
  <1> QED BY Zenon, <1>2, <1>3, <1>9 DEF HasDeposit

\* A row's signature is a deposit's.
LEMMA SigIsDeposit ==
  ASSUME BInv, NEW k \in DOMAIN rows
  PROVE  rows[k].sig \in Deposits
  <1>1. rows \in Seq([sig : Deposits, amount : Int, intent : Intents \cup {None}])
    BY Zenon DEF BInv, Tables
  <1>2. \A S : rows \in Seq(S) => rows[k] \in S
    OBVIOUS
  <1>3. rows[k] \in [sig : Deposits, amount : Int, intent : Intents \cup {None}]
    BY Zenon, <1>1, <1>2
  <1> QED BY <1>3

\* While the rows stay, so does the oldest.
LEMMA DepositUnmoved ==
  ASSUME rows' = rows, NEW i
  PROVE  (HasDeposit(i)' <=> HasDeposit(i)) /\ DepositFor(i)' = DepositFor(i)
  <1>1. HasDeposit(i)' <=> HasDeposit(i)
    BY Zenon DEF HasDeposit
  <1>2. DepositFor(i)' = DepositFor(i)
    BY Zenon DEF DepositFor
  <1> QED BY Zenon, <1>1, <1>2

\* An intent's entries stay in order while they and the rows stay.
LEMMA InCustodyStays ==
  ASSUME rows' = rows, journal' = journal, NEW i, InCustody(i)
  PROVE  InCustody(i)'
  BY Zenon, DepositUnmoved DEF InCustody, Has

\* The walker's view survives a step that leaves the chain and the rows.
LEMMA CustodyStays ==
  ASSUME CInv, UNCHANGED <<tx, rows, walk, report>>, LedgerTakesSteps', \A i \in Intents : InCustody(i)'
  PROVE  CInv'
  <1>1. Final' = Final /\ OnChain' = OnChain
    BY Zenon DEF Final, OnChain, Received
  <1>2. Walking'
    BY Zenon, <1>1 DEF CInv, Walking
  <1>3. \A d \in Deposits : Transfers(d)'
    BY Zenon DEF CInv, Transfers
  <1>4. \A k \in DOMAIN rows' : Recorded(k)'
    BY Zenon DEF CInv, Recorded, Received
  <1>5. ReportIsTrue' /\ report'.status \in {"ok", "diverged"}
    BY Zenon DEF CInv, ReportIsTrue
  <1> QED BY Zenon, <1>2, <1>3, <1>4, <1>5 DEF CInv

\* So it does when the journal stays too.
LEMMA JournalStays ==
  ASSUME CInv, UNCHANGED <<tx, rows, journal, walk, report>>, LedgerTakesSteps'
  PROVE  CInv'
  <1>1. \A i \in Intents : InCustody(i)'
    BY Zenon, InCustodyStays DEF CInv
  <1> QED BY Zenon, <1>1, CustodyStays

\* It holds at the start.
LEMMA CInvInit == Init => CInv
  <1> SUFFICES ASSUME Init PROVE CInv
    OBVIOUS
  <1>1. LedgerTakesSteps
    BY DEF Init, LedgerTakesSteps
  <1>2. \A d \in Deposits : Transfers(d)
    BY Zenon DEF Init, Transfers
  <1>3. DOMAIN rows = {}
    BY DEF Init
  <1>4. \A k \in DOMAIN rows : Recorded(k)
    BY Zenon, <1>3
  <1>5. \A i \in Intents : InCustody(i)
    BY Zenon, AllKinds DEF Init, InCustody, Has
  <1>6. Walking
    BY DEF Init, Walking, NoWalk
  <1>7. ReportIsTrue /\ report.status \in {"ok", "diverged"}
    BY DEF Init, ReportIsTrue, NoReport
  <1> QED BY Zenon, <1>1, <1>2, <1>4, <1>5, <1>6, <1>7 DEF CInv

\* A new deposit is a transfer to the hot wallet, last; what the walker has
\* read no longer covers all of them.
LEMMA PayInCustody ==
  ASSUME BInv, CInv, NEW d \in Deposits, Pay(d)
  PROVE  CInv'
  <1>1. PICK i \in Intents, wallet \in Wallets :
          /\ intent[i] # NoIntent
          /\ URLAmount(i) + wallet.slip >= 0
          /\ LET asked == [dest |-> "hot_wallet", amount |-> URLAmount(i) + wallet.slip]
                 other == [dest |-> wallet.extra, amount |-> 1]
             IN  tx' = [tx EXCEPT ![d] =
                          [ref |-> i,
                           transfers |-> IF wallet.extra = "none" THEN <<asked>> ELSE <<other, asked>>]]
    BY Zenon DEF Pay
  <1>2. /\ tx[d] = NoTx
        /\ UNCHANGED <<intent, rows, saga, reason, journal, paid, outbox, walk, report, page>>
    BY Zenon DEF Pay, readers
  <1> DEFINE T == [dest : {"hot_wallet", "other"}, amount : Nat]
             n == URLAmount(i) + wallet.slip
             asked == [dest |-> "hot_wallet", amount |-> n]
             other == [dest |-> wallet.extra, amount |-> 1]
             t == IF wallet.extra = "none" THEN <<asked>> ELSE <<other, asked>>
  <1>3. n \in Nat /\ wallet.extra \in {"none", "hot_wallet", "other"}
    <2>1. intent[i] \in IntentRow
      BY Zenon, <1>1 DEF BInv, Tables
    <2>2. intent[i].usdc \in 0..MaxInt
      BY Zenon, <2>1, RowColumns
    <2>3. URLAmount(i) = intent[i].usdc
      BY Zenon, <2>2, URLRoundTrip DEF URLAmount
    <2>4. URLAmount(i) \in Nat
      BY <2>2, <2>3, PricingAssumption
    <2>5. wallet.slip \in Int /\ wallet.extra \in {"none", "hot_wallet", "other"}
      <3>1. wallet \in [slip : Int, extra : {"none", "hot_wallet", "other"}]
        BY Zenon, BooksAssumption
      <3> QED BY Zenon, <3>1
    <2> HIDE DEF n
    <2>6. n = URLAmount(i) + wallet.slip /\ n >= 0
      BY Zenon, <1>1 DEF n
    <2> QED BY <2>4, <2>5, <2>6
  <1> HIDE DEF n
  <1>4. t \in Seq(T) /\ Len(t) \in 1..2 /\ t[Len(t)].dest = "hot_wallet"
    <2>1. asked \in T /\ asked.dest = "hot_wallet"
      BY Zenon, <1>3
    <2>2. wallet.extra # "none" => other \in T
      <3>1. 1 \in Nat
        OBVIOUS
      <3> QED BY Zenon, <1>3, <3>1
    <2> HIDE DEF asked, other, T
    <2>3. CASE wallet.extra = "none"
      <3>1. t = <<asked>>
        BY Zenon, <2>3
      <3> HIDE DEF t
      <3> QED BY <2>1, <3>1
    <2>4. CASE wallet.extra # "none"
      <3>1. t = <<other, asked>> /\ other \in T
        BY Zenon, <2>2, <2>4
      <3> HIDE DEF t
      <3> QED BY <2>1, <3>1
    <2> QED BY Zenon, <2>3, <2>4
  <1>5. /\ DOMAIN tx = Deposits /\ tx'[d] = [ref |-> i, transfers |-> t]
        /\ \A e \in Deposits : e # d => tx'[e] = tx[e]
    BY Zenon, <1>1 DEF BInv, Tables, n
  <1> HIDE DEF t, T
  <1>6. tx'[d].transfers = t /\ tx'[d] # NoTx
    <2>1. [ref |-> i, transfers |-> t].transfers = t /\ [ref |-> i, transfers |-> t].ref = i /\ NoTx.ref = None
      BY DEF NoTx
    <2> QED BY Zenon, <1>5, <2>1, BooksAssumption
  <1>7. \A e \in Deposits : Transfers(e)'
    <2>1. Transfers(d)'
      BY Zenon, <1>4, <1>6 DEF Transfers, T
    <2>2. \A e \in Deposits : e # d => Transfers(e)'
      BY Zenon, <1>5 DEF CInv, Transfers
    <2> QED BY Zenon, <2>1, <2>2
  <1>8. \A e \in Deposits : tx[e] # NoTx => tx'[e] = tx[e] /\ Received(e)' = Received(e)
    BY Zenon, <1>2, <1>5 DEF Received
  <1>9. \A k \in DOMAIN rows' : Recorded(k)'
    <2>1. SUFFICES ASSUME NEW k \in DOMAIN rows, Recorded(k) PROVE Recorded(k)'
      BY Zenon, <1>2 DEF CInv
    <2>2. rows[k].sig \in Deposits
      BY Zenon, SigIsDeposit
    <2> QED BY Zenon, <1>2, <1>8, <2>1, <2>2 DEF Recorded
  <1>10. \A j \in Intents : InCustody(j)'
    BY Zenon, <1>2, InCustodyStays DEF CInv
  <1>11. Final \subseteq Final' /\ d \in Final' /\ d \notin Final
    BY Zenon, <1>2, <1>6, <1>8 DEF Final
  <1>12. Walking'
    BY Zenon, <1>2, <1>11 DEF CInv, Walking
  <1>13. LedgerTakesSteps' /\ ReportIsTrue' /\ report'.status \in {"ok", "diverged"}
    BY Zenon, <1>2 DEF CInv, ReportIsTrue, LedgerTakesSteps
  <1> QED BY Zenon, <1>7, <1>9, <1>10, <1>12, <1>13 DEF CInv

\* A row holds no more than its transaction moved to the hot wallet: the first
\* transfer is all of it or part of it.
LEMMA ProcessInCustody ==
  ASSUME BInv, CInv, NEW d \in Deposits, ProcessSignature(d)
  PROVE  CInv'
  <1> DEFINE Row == [sig : Deposits, amount : Int, intent : Intents \cup {None}]
             a == Transfer(tx[d]).amount
  <1>1. PICK i \in {tx[d].ref, None} : rows' = Append(rows, [sig |-> d, amount |-> a, intent |-> i])
    BY Zenon DEF ProcessSignature
  <1>2. /\ tx[d] # NoTx /\ a \in 1..MaxInt /\ Transfer(tx[d]).dest = "hot_wallet"
        /\ \A k \in DOMAIN rows : rows[k].sig # d
        /\ UNCHANGED <<intent, tx, reason, journal, paid, outbox, walk, report, page>>
    BY Zenon DEF ProcessSignature, readers
  <1>3. a <= Received(d)
    <2> DEFINE t == tx[d].transfers
    <2>1. /\ t \in Seq([dest : {"hot_wallet", "other"}, amount : Nat])
          /\ Len(t) \in 1..2
      BY Zenon, <1>2 DEF CInv, Transfers
    <2>2. Head(t).dest = "hot_wallet" /\ a = Head(t).amount
      BY Zenon, <1>2 DEF Transfer
    <2>3. Received(d) = t[Len(t)].amount + IF Len(t) = 2 /\ Head(t).dest = "hot_wallet" THEN Head(t).amount ELSE 0
      BY Zenon DEF Received
    <2> HIDE DEF t, a
    <2>4. PICK T : t \in Seq(T) /\ \A x \in T : x.amount \in Nat
      <3> DEFINE T == [dest : {"hot_wallet", "other"}, amount : Nat]
      <3>1. \A x \in T : x.amount \in Nat
        BY Zenon
      <3> QED BY Zenon, <2>1, <3>1
    <2>5. CASE Len(t) = 1
      <3>1. t[1] = Head(t) /\ t[1] \in T
        BY <2>4, <2>5
      <3>2. Received(d) = t[1].amount + 0
        BY <2>3, <2>5
      <3>3. t[1].amount \in Nat
        BY Zenon, <2>4, <3>1
      <3> QED BY <2>2, <3>1, <3>2, <3>3
    <2>6. CASE Len(t) = 2
      <3>1. t[2] \in T /\ Head(t) \in T
        BY <2>4, <2>6
      <3>2. Received(d) = t[2].amount + Head(t).amount
        BY <2>2, <2>3, <2>6
      <3>3. t[2].amount \in Nat /\ Head(t).amount \in Nat
        BY Zenon, <2>4, <3>1
      <3> QED BY <2>2, <3>2, <3>3
    <2> QED BY <2>1, <2>5, <2>6
  <1>4. i \in Intents \cup {None}
    BY Zenon, <1>2 DEF BInv, References
  <1>5. a \in Int
    BY <1>2, PricingAssumption
  <1>6. PICK r \in Row : r.sig = d /\ r.amount = a /\ rows' = Append(rows, r)
    BY Zenon, <1>1, <1>4, <1>5
  <1> HIDE DEF Row, a
  <1>7. rows \in Seq(Row)
    BY Zenon DEF BInv, Tables, Row
  <1>8. /\ DOMAIN rows' = DOMAIN rows \cup {Len(rows) + 1}
        /\ \A k \in DOMAIN rows : rows'[k] = rows[k]
        /\ rows'[Len(rows) + 1] = r
    BY <1>6, <1>7
  <1>9. ASSUME NEW k \in DOMAIN rows' PROVE Recorded(k)'
    <2> DEFINE m == Len(rows) + 1
    <2>0. \A l \in DOMAIN rows : Recorded(l) /\ rows'[l] = rows[l] /\ rows[l].sig # d
      BY Zenon, <1>2, <1>8 DEF CInv
    <2> HIDE DEF m
    <2>1. ASSUME NEW l \in DOMAIN rows', rows'[l].sig = rows'[k].sig PROVE l = k
      <3>1. CASE k \in DOMAIN rows /\ l \in DOMAIN rows
        BY Zenon, <2>0, <2>1, <3>1 DEF Recorded
      <3>2. (k \in DOMAIN rows \/ k = m) /\ (l \in DOMAIN rows \/ l = m) /\ rows'[m].sig = d
        BY Zenon, <1>6, <1>8 DEF m
      <3> QED BY Zenon, <2>0, <2>1, <3>1, <3>2
    <2>2. /\ tx'[rows'[k].sig] # NoTx /\ rows'[k].amount <= Received(rows'[k].sig)
          /\ rows'[k].amount \in 1..MaxInt
      <3>1. CASE k \in DOMAIN rows
        BY Zenon, <1>2, <2>0, <3>1 DEF Recorded
      <3>2. CASE k = m
        BY Zenon, <1>2, <1>3, <1>6, <1>8, <3>2 DEF m
      <3> QED BY Zenon, <1>8, <3>1, <3>2 DEF m
    <2>3. Received(rows'[k].sig) = Received(rows[k].sig)'
      BY Zenon, <1>2 DEF Received
    <2> QED BY Zenon, <2>1, <2>2, <2>3 DEF Recorded
  <1>10. \A j \in Intents : HasDeposit(j) => HasDeposit(j)' /\ DepositFor(j)' = DepositFor(j)
    BY Zenon, <1>6, <1>7, DepositStays
  <1>11. \A j \in Intents : InCustody(j)'
    BY Zenon, <1>2, <1>10 DEF CInv, InCustody, Has
  <1>12. Final' = Final /\ OnChain' = OnChain
    BY Zenon, <1>2 DEF Final, OnChain, Received
  <1>13. Walking'
    BY Zenon, <1>2, <1>12 DEF CInv, Walking
  <1>14. /\ LedgerTakesSteps' /\ ReportIsTrue' /\ report'.status \in {"ok", "diverged"}
         /\ \A e \in Deposits : Transfers(e)'
    BY Zenon, <1>2 DEF CInv, ReportIsTrue, LedgerTakesSteps, Transfers
  <1> QED BY Zenon, <1>9, <1>11, <1>13, <1>14 DEF CInv

\* A credit posts the oldest row's amount, once, and the ledger takes it.
LEMMA CreditInCustody ==
  ASSUME BInv, CInv, NEW i \in Intents, NEW seen, saga[i].state # "none", UNCHANGED <<walk, report>>,
         CreditDeposit(i, seen)
  PROVE  CInv'
  <1> DEFINE n == DepositFor(i).amount
             lines == CreditLines(n)
             why == IF Accepted(lines) THEN "none" ELSE "ledger"
  <1>1. /\ journal' = IF why = "none" THEN Posted(journal, "credit_deposit", i, lines) ELSE journal
        /\ EndStep(i, why, "trigger_payout")
        /\ UNCHANGED <<tx, rows, walk, report>>
    BY Zenon DEF CreditDeposit
  <1>2. HasDeposit(i)
    BY Zenon DEF BInv, References
  <1>3. n \in Nat /\ n > 0
    <2>1. n \in 1..MaxInt
      BY ZenonT(40), <1>2, DepositForRow DEF CInv, Recorded
    <2> HIDE DEF n
    <2> QED BY <2>1, PricingAssumption
  <1>4. why = "none"
    BY Zenon, <1>3, CreditAccepted
  <1>5. journal' = Posted(journal, "credit_deposit", i, lines)
    BY Zenon, <1>1, <1>4
  <1>6. LedgerTakesSteps'
    <2>1. \A j \in Intents : reason'[j] = IF j = i THEN "none" ELSE reason[j]
      BY Zenon, <1>1, <1>4 DEF EndStep, BInv, Tables
    <2> QED BY Zenon, <2>1 DEF LedgerTakesSteps, CInv
  <1> HIDE DEF lines, why, n
  <1>7. /\ DOMAIN journal' = Kinds \X Intents
        /\ \A k \in Kinds, j \in Intents :
             journal'[<<k, j>>] = IF k = "credit_deposit" /\ j = i /\ journal[<<k, j>>] = None
                                  THEN lines ELSE journal[<<k, j>>]
    <2>1. DOMAIN journal = Kinds \X Intents
      BY Zenon DEF BInv, Tables
    <2> QED BY <1>5, <2>1, PostedFacts, AllKinds
  <1>8. ASSUME NEW j \in Intents PROVE InCustody(j)'
    <2>1. InCustody(j)
      BY Zenon DEF CInv
    <2>2. /\ HasDeposit(j)' <=> HasDeposit(j)
          /\ DepositFor(j)' = DepositFor(j)
      BY Zenon, <1>1, DepositUnmoved
    <2>3. journal'[<<"payout_disbursed", j>>] = journal[<<"payout_disbursed", j>>]
      BY Zenon, <1>7, AllKinds
    <2>4. \/ journal'[<<"credit_deposit", j>>] = journal[<<"credit_deposit", j>>]
          \/ j = i /\ journal'[<<"credit_deposit", j>>] = lines
      BY Zenon, <1>7, AllKinds
    <2>5. Has(j, "credit_deposit")' =>
            HasDeposit(j)' /\ journal'[<<"credit_deposit", j>>] = CreditLines(DepositFor(j)'.amount)
      BY Zenon, <1>2, <2>1, <2>2, <2>4 DEF InCustody, Has, lines, n
    <2> QED BY Zenon, <2>1, <2>3, <2>5 DEF InCustody, Has
  <1> QED BY Zenon, <1>1, <1>6, <1>8, CustodyStays

\* Paying out touches no entry.
LEMMA TriggerInCustody ==
  ASSUME BInv, CInv, NEW i \in Intents, NEW seen, UNCHANGED <<walk, report>>, TriggerPayout(i, seen)
  PROVE  CInv'
  <1>1. UNCHANGED <<tx, rows, journal, walk, report>>
    BY Zenon DEF TriggerPayout
  <1>2. reason' = [reason EXCEPT ![i] = "none"] \/ reason' = [reason EXCEPT ![i] = "rejected"]
    BY Zenon DEF TriggerPayout, EndStep
  <1>3. LedgerTakesSteps'
    <2>1. \A j \in Intents : reason'[j] \in {"none", "rejected", reason[j]}
      BY Zenon, <1>2 DEF BInv, Tables
    <2> QED BY Zenon, <2>1 DEF LedgerTakesSteps, CInv
  <1> QED BY Zenon, <1>1, <1>3, JournalStays

\* The swap and the payout leave the hot wallet alone, and the ledger takes
\* both whenever the spread is not negative.
LEMMA ApplyInCustody ==
  ASSUME BInv, CInv, NEW i \in Intents, NEW seen, saga[i].state # "none", paid[i] > 0,
         UNCHANGED <<walk, report>>, ApplyPayoutResult(i, seen)
  PROVE  CInv'
  <1> DEFINE usdc == intent[i].usdc
             mid == ComputeMidIDR(usdc, intent[i].rate)
             swap == SwapLines(usdc)
             payout == PayoutLines(mid, paid[i])
             why == IF mid < paid[i] THEN "negative spread"
                    ELSE IF Accepted(swap) /\ Accepted(payout) THEN "none" ELSE "ledger"
             swapped == Posted(journal, "fx_swap_usdc", i, swap)
  <1>1. /\ journal' = IF why # "none" THEN journal
                      ELSE Posted(swapped, "payout_disbursed", i, payout)
        /\ EndStep(i, why, "emit_completed")
        /\ UNCHANGED <<tx, rows, walk, report>>
    BY Zenon DEF ApplyPayoutResult
  <1>2. intent[i] \in IntentRow /\ paid[i] \in Nat /\ paid[i] > 0
    BY Zenon DEF BInv, Tables, References
  <1>3. usdc \in Nat /\ usdc > 0 /\ intent[i].rate \in Rate
    BY Zenon, <1>2, RowColumns
  <1>4. mid \in Nat
    BY Zenon, <1>3, ComputeMidIDRType
  <1>5. Accepted(swap)
    BY Zenon, <1>3, SwapAccepted
  <1>6. ~(mid < paid[i]) => Accepted(payout) /\ DOMAIN payout \subseteq IDR
    <2>1. ~(mid < paid[i]) => mid >= paid[i]
      <3> HIDE DEF mid
      <3> QED BY <1>2, <1>4
    <2> QED BY Zenon, <1>2, <1>4, <2>1, PayoutAccepted
  <1>7. why = IF mid < paid[i] THEN "negative spread" ELSE "none"
    BY Zenon, <1>5, <1>6
  <1> HIDE DEF usdc, mid, swap, payout, why, swapped
  <1>8. why \in {"none", "negative spread"} /\ (why = "none" => DOMAIN payout \subseteq IDR)
    BY Zenon, <1>6, <1>7
  <1>9. LedgerTakesSteps'
    <2>1. \A j \in Intents : reason'[j] = IF j = i THEN why ELSE reason[j]
      BY Zenon, <1>1 DEF EndStep, BInv, Tables
    <2> QED BY Zenon, <1>8, <2>1 DEF LedgerTakesSteps, CInv
  <1>10. CASE why # "none"
    BY Zenon, <1>1, <1>9, <1>10, JournalStays
  <1>11. CASE why = "none"
    <2>1. /\ DOMAIN swapped = Kinds \X Intents
          /\ \A k \in Kinds, j \in Intents :
               swapped[<<k, j>>] = IF k = "fx_swap_usdc" /\ j = i /\ journal[<<k, j>>] = None
                                   THEN swap ELSE journal[<<k, j>>]
      <3>1. DOMAIN journal = Kinds \X Intents
        BY Zenon DEF BInv, Tables
      <3>2. swapped = Posted(journal, "fx_swap_usdc", i, swap)
        BY DEF swapped
      <3> QED BY <3>1, <3>2, AllKinds DEF Posted
    <2>2. /\ DOMAIN journal' = Kinds \X Intents
          /\ \A k \in Kinds, j \in Intents :
               journal'[<<k, j>>] = IF k = "payout_disbursed" /\ j = i /\ swapped[<<k, j>>] = None
                                    THEN payout ELSE swapped[<<k, j>>]
      <3>1. journal' = Posted(swapped, "payout_disbursed", i, payout)
        BY Zenon, <1>1, <1>11
      <3>2. DOMAIN swapped = Kinds \X Intents
        BY Zenon, <2>1
      <3> QED BY <3>1, <3>2, PostedFacts, AllKinds
    <2>3. \A j \in Intents :
            /\ journal'[<<"credit_deposit", j>>] = journal[<<"credit_deposit", j>>]
            /\ \/ journal'[<<"payout_disbursed", j>>] = journal[<<"payout_disbursed", j>>]
               \/ journal'[<<"payout_disbursed", j>>] = payout
      BY ZenonT(40), <2>1, <2>2, AllKinds
    <2>4. ASSUME NEW j \in Intents PROVE InCustody(j)'
      <3>1. InCustody(j)
        BY Zenon DEF CInv
      <3>2. (HasDeposit(j)' <=> HasDeposit(j)) /\ DepositFor(j)' = DepositFor(j)
        BY Zenon, <1>1, DepositUnmoved
      <3>3. Has(j, "credit_deposit")' =>
              HasDeposit(j)' /\ journal'[<<"credit_deposit", j>>] = CreditLines(DepositFor(j)'.amount)
        BY Zenon, <2>3, <3>1, <3>2 DEF InCustody, Has
      <3>4. Has(j, "payout_disbursed")' => DOMAIN journal'[<<"payout_disbursed", j>>] \subseteq IDR
        BY Zenon, <1>8, <1>11, <2>3, <3>1 DEF InCustody, Has
      <3> QED BY Zenon, <3>3, <3>4 DEF InCustody
    <2> QED BY Zenon, <1>1, <1>9, <2>3, <2>4, CustodyStays
  <1> QED BY Zenon, <1>10, <1>11

\* So does a step that posts nothing and fails for no entry.
LEMMA QuietInCustody ==
  ASSUME BInv, CInv, NEW i \in Intents, NEW why \in {"none", "transient"},
         UNCHANGED <<tx, rows, journal, walk, report>>, reason' = [reason EXCEPT ![i] = why]
  PROVE  CInv'
  <1>1. \A j \in Intents : reason'[j] = IF j = i THEN why ELSE reason[j]
    BY Zenon DEF BInv, Tables
  <1>2. LedgerTakesSteps'
    BY Zenon, <1>1 DEF LedgerTakesSteps, CInv
  <1> QED BY Zenon, <1>2, JournalStays

\* A step, in time or late, keeps custody in order.
LEMMA ExecuteInCustody ==
  ASSUME BInv, CInv, NEW i \in Intents, NEW step, NEW seen, saga[i].state # "none", Ready(i, step),
         UNCHANGED <<walk, report>>, Execute(i, step, seen)
  PROVE  CInv'
  <1>1. CASE CreditDeposit(i, seen)
    BY Zenon, <1>1, CreditInCustody
  <1>2. CASE TriggerPayout(i, seen)
    BY Zenon, <1>2, TriggerInCustody
  <1>3. CASE step = "apply_payout_result" /\ ApplyPayoutResult(i, seen)
    <2>1. paid[i] > 0
      BY Zenon, <1>3 DEF Ready, PaidOut
    <2> QED BY Zenon, <1>3, <2>1, ApplyInCustody
  <1>4. CASE EmitCompleted(i, seen)
    BY Zenon, <1>4, QuietInCustody DEF EmitCompleted, EndStep
  <1>5. CASE FailedAttempt(i)
    <2>1. PICK why \in {"none", "transient"} : reason' = [reason EXCEPT ![i] = why]
      BY Zenon, <1>5 DEF FailedAttempt
    <2>2. UNCHANGED <<tx, rows, journal>>
      BY Zenon, <1>5 DEF FailedAttempt
    <2> QED BY Zenon, <2>1, <2>2, QuietInCustody
  <1> QED BY Zenon, <1>1, <1>2, <1>3, <1>4, <1>5 DEF Execute

\* What the walker reads of the chain is what there is.
LEMMA FetchInCustody ==
  ASSUME BInv, CInv, FetchOnChainBalance
  PROVE  CInv'
  <1>1. /\ walk' = [reading |-> TRUE, onChain |-> OnChain, final |-> Final]
        /\ UNCHANGED <<intent, tx, rows, saga, reason, journal, paid, outbox, report, page>>
    BY Zenon DEF FetchOnChainBalance, money
  <1>2. walk'.reading = TRUE /\ walk'.onChain = OnChain /\ walk'.final = Final
    BY Zenon, <1>1
  <1>3. Final' = Final /\ OnChain' = OnChain
    BY Zenon, <1>1 DEF Final, OnChain, Received
  <1>4. Walking'
    BY Zenon, <1>2, <1>3 DEF Walking
  <1>5. \A i \in Intents : InCustody(i)'
    BY Zenon, <1>1, InCustodyStays DEF CInv
  <1>6. \A k \in DOMAIN rows' : Recorded(k)'
    BY Zenon, <1>1 DEF CInv, Recorded, Received
  <1>7. /\ LedgerTakesSteps' /\ ReportIsTrue' /\ report'.status \in {"ok", "diverged"}
        /\ \A e \in Deposits : Transfers(e)'
    BY Zenon, <1>1 DEF CInv, ReportIsTrue, LedgerTakesSteps, Transfers
  <1> QED BY Zenon, <1>4, <1>5, <1>6, <1>7 DEF CInv

=============================================================================
