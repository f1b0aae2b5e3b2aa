--------------------------- MODULE MCPaymentStore ---------------------------
(***************************************************************************)
(* Small instances of PaymentStore: two callers, two payments created with *)
(* one key, two refunds.                                                   *)
(***************************************************************************)
EXTENDS PaymentStore, TLC

CONSTANTS p1, p2,   \* callers
          a, b,     \* payments
          r1, r2,   \* refunds
          k         \* a key

MCProc == {p1, p2}
MCPayment == {a, b}
MCRefund == {r1, r2}
MCKey == {k}
MCKeyOf == [i \in MCPayment |-> k]

Symmetry == Permutations(MCProc) \union Permutations(MCRefund)
=============================================================================
