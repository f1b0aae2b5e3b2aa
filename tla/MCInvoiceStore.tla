-------------------------- MODULE MCInvoiceStore --------------------------
(***************************************************************************)
(* Small instances of InvoiceStore.                                        *)
(***************************************************************************)
EXTENDS InvoiceStore, TLC

CONSTANTS p1, p2

MCProc == {p1, p2}

Symmetry == Permutations(MCProc)
=============================================================================
