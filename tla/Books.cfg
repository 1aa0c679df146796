\* An intent, two deposits that may slip by a minor unit or hold two transfers, quotes
\* the spread covers and does not, one lease that runs out.
SPECIFICATION Spec
CONSTANTS
  i1 = i1
  d1 = d1
  d2 = d2
  None = None
  USDCUnit = 100
  Units = {1, 10, 100}
  Bps = 10
  MaxInt = 1000
  SpreadBps = 1
  Intents = {i1}
  Deposits = {d1, d2}
  Asks = {1, 3, 25, 300}
  Rates <- WholeRates
  Wallets <- SomeWallets
  MaxLapses = 1
SYMMETRY Symmetry
CONSTRAINT OneReader
INVARIANTS
  TypeOK
  CoveredQuotesSettle
  LedgerTakesSteps
  URLNamesQuote
  ReportIsTrue
  PageIsCausal
  
