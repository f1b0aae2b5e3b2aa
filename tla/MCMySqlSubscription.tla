------------------------ MODULE MCMySqlSubscription ------------------------
(***************************************************************************)
(* Small instances of MySqlSubscription.  A row is only its position here; *)
(* Publish leaves out positions freely, as rolled-back transactions do.    *)
(***************************************************************************)
EXTENDS MySqlSubscription

CONSTANT MaxPosition   \* bound: positions 1..MaxPosition are assigned

MCRow == [pos : 1..MaxPosition]
=============================================================================
