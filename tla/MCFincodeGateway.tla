------------------------- MODULE MCFincodeGateway -------------------------
(***************************************************************************)
(* Small instances of FincodeGateway.                                      *)
(***************************************************************************)
EXTENDS FincodeGateway, TLC

CONSTANTS c1, c2, k1, k2

MCCallers == {c1, c2}
MCKeys == {k1, k2}
PayOnly == PayOps \cup CompleteOps
AllOps == PayOps \cup CompleteOps \cup LaterOps

Symmetry == Permutations(MCCallers) \cup Permutations(MCKeys)

\* One key, and calls without a key: keys share no order and no replayed answer.
OneKey == {k1}
CallerSymmetry == Permutations(MCCallers)
=============================================================================
