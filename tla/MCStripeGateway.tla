-------------------------- MODULE MCStripeGateway --------------------------
(***************************************************************************)
(* A small instance of StripeGateway.                                      *)
(***************************************************************************)
EXTENDS StripeGateway, TLC

CONSTANTS k1, r1

MCKeys == {k1}
MCRefunds == {r1}
MCMethods == {"card", "konbini"}
=============================================================================
