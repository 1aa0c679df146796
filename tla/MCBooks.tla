------------------------------- MODULE MCBooks -------------------------------
(* Instances of Books for TLC. *)
EXTENDS BooksInv, TLC

CONSTANTS i1, d1, d2

\* 23 rupiah to one USDC of 100 minor units.
\* Of the amounts asked, 1 is less than the spread covers, 3 leaves a spread
\* of zero, 25 is quoted at 1.2 USDC and 300 at more than fits.
WholeRates == {[num |-> 23, unit |-> 1]}

\* The paying script, a payer who sends too much, a wallet that takes a fee or
\* sends the hot wallet two transfers.
SomeWallets ==
    {[slip |-> 0, extra |-> "none"], [slip |-> 1, extra |-> "none"],
     [slip |-> 0, extra |-> "other"], [slip |-> 0, extra |-> "hot_wallet"]}

\* The walker and the dashboard read and never write, so what one of them can see
\* it can see while the other is idle.
OneReader == page = NoPage \/ (walk = NoWalk /\ report = NoReport)

Symmetry == Permutations({d1, d2})
=============================================================================
