--------------------------- MODULE MCContractStore ---------------------------
(***************************************************************************)
(* Small instances of ContractStore: two contracts.  A period ends at 1,   *)
(* which is due, or at 2, which is not.                                    *)
(***************************************************************************)
EXTENDS ContractStore, TLC

CONSTANTS c1, c2   \* contracts

MCContract == {c1, c2}

MCRaised == (c1 :> {"activated"})
            @@ (c2 :> {"activated", "suspended", "trial_started", "trial_lapsed"})

\* The projector reads no snapshot and FindByIDAsOf no read model; the renewal
\* batch loads a contract by its latest snapshot, which with the events after
\* it is the stream.  So snapshots and the read model are explored apart.
Apart == snapshots = {} \/ (table = Empty /\ ~running /\ ~rebuild.open /\ checkpoint = 0)

ApartSpec == Init /\ [][Next /\ Apart']_vars /\ Fairness
=============================================================================
