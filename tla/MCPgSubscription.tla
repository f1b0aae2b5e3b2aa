------------------------- MODULE MCPgSubscription -------------------------
(***************************************************************************)
(* Small instances of PgSubscription.  A row is only its position here;    *)
(* Publish leaves out positions freely, as rolled-back transactions do.    *)
(***************************************************************************)
EXTENDS PgSubscription

CONSTANT MaxPosition   \* bound: positions 1..MaxPosition are assigned

MCRow == [pos : 1..MaxPosition]
=============================================================================
