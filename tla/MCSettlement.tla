---------------------------- MODULE MCSettlement ----------------------------
(* Instances of Settlement for TLC. *)
EXTENDS SettlementInv, TLC

Symmetry == Permutations(Workers)

\* Sound where the intents have the same bank details and the same spread.
SymmetryBoth == Permutations(Workers) \cup Permutations(Intents)
=============================================================================
