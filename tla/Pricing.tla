------------------------------- MODULE Pricing -------------------------------
(***************************************************************************)
(* The arithmetic of a quote, from the rupiah a merchant asks for to the   *)
(* USDC the payer's wallet is told to send and back to the rupiah value    *)
(* the books give it.  Every function of the code that rounds, overflows   *)
(* or changes units is an operator here.                                   *)
(*                                                                         *)
(* A power of ten stands for its exponent: a rate is num / unit where the  *)
(* code keeps the scale, and a decimal string is whole + frac / unit where *)
(* the code keeps the digits.  0 stands for the error results, as in the   *)
(* code, which returns 0 beside every error.                               *)
(***************************************************************************)
EXTENDS Integers

CONSTANTS
    USDCUnit,  \* minor units in one USDC, 10^USDCDecimals
    Units,     \* the powers of ten up to USDCUnit
    Bps,       \* basis points in the whole, 10000
    MaxInt     \* the largest int64

MaxUint == 2 * MaxInt + 1

ASSUME PricingAssumption ==
    /\ USDCUnit \in Nat \ {0}
    /\ USDCUnit \in Units
    /\ \A u \in Units : u \in Nat \ {0} /\ \E k \in 1..USDCUnit : u * k = USDCUnit
    /\ \A S \in SUBSET Units : S # {} => \E u \in S : \A v \in S : u <= v
    /\ Bps \in Nat \ {0}
    /\ MaxInt \in Nat \ {0}

Rate == [num : Nat, unit : Nat \ {0}]

\* Mutant of QuoteAmount: the amount is not checked to fit.
QuoteAmountUnbounded(idr, rate, spread) ==
    LET eff == rate.num * (Bps - spread) * rate.unit
    IN  IF idr <= 0 \/ eff = 0 THEN 0 ELSE (idr * USDCUnit * Bps) \div eff

\* Mutant of QuoteAmount: the spread is in the customer's favour.
QuoteAmountFavoured(idr, rate, spread) ==
    LET out == (idr * USDCUnit * Bps) \div (rate.num * (Bps + spread) * rate.unit)
    IN  IF out > MaxInt THEN 0 ELSE out

\* Quoter.QuoteAmount.  A scale above zero multiplies the effective rate.
QuoteAmount(idr, rate, spread) ==
    LET num == idr * USDCUnit * Bps
        eff == rate.num * (Bps - spread) * rate.unit
    IN  IF idr <= 0 \/ rate.num <= 0 \/ spread < 0 \/ spread > Bps \/ eff = 0
        THEN 0
        ELSE LET out == num \div eff
             IN  IF out > MaxInt THEN 0 ELSE out

\* computeMidIDR: 0 when the value leaves int64.
ComputeMidIDR(usdc, rate) ==
    LET out == (usdc * rate.num) \div (USDCUnit * rate.unit)
    IN  IF out > MaxInt THEN 0 ELSE out

\* A whole rate, not so large that the value of an int64 of USDC leaves int64,
\* and enough spread to absorb the rupiah that rounding the USDC down gives
\* away.
Covered(idr, rate, spread) ==
    /\ rate.unit = 1
    /\ rate.num <= USDCUnit
    /\ idr * spread * USDCUnit >= rate.num * (Bps - spread)

-----------------------------------------------------------------------------
\* Mutant of FormatAmount: the fraction is printed without its leading zeros.
FormatAmountUnpadded(raw) ==
    LET frac == raw % USDCUnit
        unit == CHOOSE u \in Units : frac < u /\ \A v \in Units : v < u => frac >= v
    IN  [whole |-> raw \div USDCUnit, frac |-> frac, unit |-> unit]

\* FormatAmount: whole and fraction, the fraction's trailing zeros trimmed.
FormatAmount(raw) ==
    LET frac == raw % USDCUnit
        unit == CHOOSE u \in Units :
                   /\ frac % (USDCUnit \div u) = 0
                   /\ \A v \in Units : v < u => frac % (USDCUnit \div v) # 0
    IN  [whole |-> raw \div USDCUnit,
         frac  |-> frac \div (USDCUnit \div unit),
         unit  |-> unit]

\* ParseAmount: too many digits and an overflow of the whole part are errors;
\* the fraction is padded and added in uint64.
ParseAmount(s) ==
    IF s.unit > USDCUnit \/ s.whole > MaxUint \div USDCUnit
    THEN 0
    ELSE (s.whole * USDCUnit + s.frac * (USDCUnit \div s.unit)) % (MaxUint + 1)

\* decimalToRaw of the paying script: exact rational arithmetic.
DecimalToRaw(s) ==
    LET num == (s.whole * s.unit + s.frac) * USDCUnit
        v   == num \div s.unit
    IN  IF num % s.unit # 0 \/ v > MaxUint THEN 0 ELSE v
=============================================================================
