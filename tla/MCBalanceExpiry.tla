-------------------------- MODULE MCBalanceExpiry --------------------------
(***************************************************************************)
(* Small instances of BalanceExpiry.                                       *)
(***************************************************************************)
EXTENDS BalanceExpiry, TLC

CONSTANTS p1, p2, b

MCEntry == {1, 2}
MCOneEntry == {1}
MCOne == {p1}
MCTwo == {p1, p2}

Symmetry == Permutations(MCTwo)
=============================================================================
