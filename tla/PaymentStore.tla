---------------------------- MODULE PaymentStore ----------------------------
(***************************************************************************)
(* Save of the payment repositories (postgres/payment_repo.go and          *)
(* mysql/payment_repo.go): callers create payments under an idempotency    *)
(* key and book refunds on them, each Save in a statement of its own or in *)
(* the transaction of a RunInTx.                                           *)
(*                                                                         *)
(* A row is as much of a payment as its lock and its callers tell apart:   *)
(* the refunds booked on it and lock_version.  Credit notes are saved the  *)
(* same way (creditnote_repo.go): they are payments without a key whose    *)
(* refunds are the transitions Issue, Apply, Refund and Void.              *)
(*                                                                         *)
(* An entity is dropped after a Save that was not acknowledged, or whose   *)
(* transaction did not commit: the repository has set its loaded version   *)
(* by then.                                                                *)
(***************************************************************************)
EXTENDS Integers, FiniteSets

CONSTANTS Proc,             \* the callers
          Payment, Refund,  \* payment ids, refunds booked on them
          Key, NoKey,       \* idempotency keys
          KeyOf,            \* the key a payment is created with
          None,             \* no row, no entity, no payment found
          Dialects,         \* the databases looked at: "postgres", "mysql"
          MaxSaves          \* bound: saves in one behaviour

ASSUME PaymentAssumption ==
    /\ KeyOf \in [Payment -> Key \union {NoKey}] /\ NoKey \notin Key
    /\ None \notin Payment /\ None \notin [booked : SUBSET Refund, version : Nat]
    /\ None \notin [id : Payment, booked : SUBSET Refund, version : Nat, loaded : Nat]
    /\ Dialects \subseteq {"postgres", "mysql"} /\ MaxSaves \in Nat

VARIABLES
    dialect,    \* the database; never changes
    rows,       \* the payments table as committed
    pc,         \* "idle", or the statement of a Save that comes next
    tx,         \* the ambient transaction: "none", "open" or "aborted"
    entity,     \* the payment a caller holds
    written,    \* its row is written in the open transaction
    shared,     \* mysql: the row lock a refused INSERT took is held
    result,     \* what the last Save returned
    existing,   \* the payment a DuplicateIdempotencyKeyError names
    created,    \* ids taken by new payments
    acked,      \* refunds whose Save was acknowledged, with its transaction
    savesLeft   \* saves the bound still allows

callerVars == <<pc, tx, entity, written, shared, result, existing>>
vars == <<dialect, rows, callerVars, created, acked, savesLeft>>

Row == [booked : SUBSET Refund, version : Nat]
Entity == [id : Payment, booked : SUBSET Refund, version : Nat, loaded : Nat]
Results == {"none", "ok", "conflict", "duplicate", "failed"}

Init ==
    /\ dialect \in Dialects
    /\ rows = [i \in Payment |-> None]
    /\ pc = [p \in Proc |-> "idle"] /\ tx = [p \in Proc |-> "none"]
    /\ entity = [p \in Proc |-> None] /\ written = [p \in Proc |-> FALSE]
    /\ shared = [p \in Proc |-> FALSE] /\ result = [p \in Proc |-> "none"]
    /\ existing = [p \in Proc |-> None]
    /\ created = {} /\ acked = {} /\ savesLeft = MaxSaves
-----------------------------------------------------------------------------
(***************************************************************************)
(* Entities (external: core's payment.Payment)                             *)
(***************************************************************************)
\* A caller of a usable transaction, or of none, between two saves.
Ready(p) == pc[p] = "idle" /\ tx[p] # "aborted" /\ ~written[p]

Take(p, e) ==
    /\ entity' = [entity EXCEPT ![p] = e]
    /\ result' = [result EXCEPT ![p] = "none"]
    /\ UNCHANGED <<rows, pc, tx, written, shared, existing, acked, savesLeft>>

New(p, i) ==
    /\ Ready(p) /\ i \notin created /\ created' = created \union {i}
    /\ Take(p, [id |-> i, booked |-> {}, version |-> 0, loaded |-> 0])

\* FindByID: both versions come from the lock_version column.
FindByID(p, i) ==
    /\ Ready(p) /\ rows[i] # None
    /\ Take(p, [id |-> i, booked |-> rows[i].booked, version |-> rows[i].version,
                loaded |-> rows[i].version])
    /\ UNCHANGED created

\* RecordRefund, like every transition, advances the version.
RecordRefund(p, r) ==
    /\ Ready(p) /\ entity[p] # None /\ r \notin entity[p].booked
    /\ Take(p, [entity[p] EXCEPT !.booked = @ \union {r}, !.version = @ + 1])
    /\ UNCHANGED created
-----------------------------------------------------------------------------
(***************************************************************************)
(* Statements                                                              *)
(***************************************************************************)
Id(p) == entity[p].id

\* The row an entity becomes.  (Fault: lock_version counts transitions from 0.)
RowBefore(e) == [booked |-> e.booked, version |-> e.version - 1]
RowOf(e) == [booked |-> e.booked, version |-> e.version]

\* Payments the unique index on idempotency_key keeps apart from i.
Rivals(i) == {j \in Payment \ {i} : KeyOf[j] = KeyOf[i] /\ KeyOf[i] # NoKey}
Winners(i) == {j \in Rivals(i) : rows[j] # None}

\* Another transaction has written the row of i, or of a rival.
Waits(p, i) == \E q \in Proc \ {p} : written[q] /\ Id(q) \in {i} \union Rivals(i)

\* The guard of the UPDATE.  (Fault: the last writer wins.)
GuardPassesAlways(p) == rows[Id(p)] # None
GuardPasses(p) == rows[Id(p)] # None /\ rows[Id(p)].version = entity[p].loaded

Fails(p, res) ==
    /\ result' = [result EXCEPT ![p] = res]
    /\ entity' = [entity EXCEPT ![p] = None]
    /\ UNCHANGED <<rows, written, acked>>

AckOf(p) == {<<Id(p), r>> : r \in entity[p].booked}

\* The statement wrote the row.  By itself it commits, and SetVersion makes
\* the saved version the loaded one; or its answer is lost.  In a transaction
\* the row waits for the commit.
Writes(p) ==
    \/ /\ tx[p] = "none"
       /\ rows' = [rows EXCEPT ![Id(p)] = RowOf(entity[p])]
       /\ acked' = acked \union AckOf(p)
       /\ entity' = [entity EXCEPT ![p].loaded = entity[p].version]
       /\ result' = [result EXCEPT ![p] = "ok"]
       /\ UNCHANGED written
    \/ /\ tx[p] = "none"
       /\ rows' \in {rows, [rows EXCEPT ![Id(p)] = RowOf(entity[p])]}
       /\ entity' = [entity EXCEPT ![p] = None]
       /\ result' = [result EXCEPT ![p] = "failed"]
       /\ UNCHANGED <<written, acked>>
    \/ /\ tx[p] = "open"
       /\ written' = [written EXCEPT ![p] = TRUE]
       /\ result' = [result EXCEPT ![p] = "ok"]
       /\ UNCHANGED <<rows, entity, acked>>

\* Save begins.
Save(p) ==
    /\ Ready(p) /\ entity[p] # None
    /\ savesLeft > 0 /\ savesLeft' = savesLeft - 1
    /\ pc' = [pc EXCEPT ![p] = IF dialect = "mysql" THEN "insert" ELSE "upsert"]
    /\ existing' = [existing EXCEPT ![p] = None]
    /\ UNCHANGED <<rows, tx, entity, written, shared, result, created, acked>>

Done(p) == pc' = [pc EXCEPT ![p] = "idle"]

\* postgres: INSERT ... ON CONFLICT (id) DO UPDATE ... WHERE lock_version.  A
\* row of another payment with the key is a unique violation, which aborts an
\* ambient transaction.
Upsert(p) ==
    /\ pc[p] = "upsert" /\ ~Waits(p, Id(p))
    /\ \/ /\ rows[Id(p)] = None /\ Winners(Id(p)) # {}
          /\ pc' = [pc EXCEPT ![p] = "lookup"]
          /\ tx' = [tx EXCEPT ![p] = IF @ = "open" THEN "aborted" ELSE @]
          /\ UNCHANGED <<rows, entity, written, result, acked>>
       \/ /\ rows[Id(p)] # None /\ ~GuardPasses(p)
          /\ Done(p) /\ Fails(p, "conflict") /\ UNCHANGED tx
       \/ /\ GuardPasses(p) \/ (rows[Id(p)] = None /\ Winners(Id(p)) = {})
          /\ Done(p) /\ Writes(p) /\ UNCHANGED tx
    /\ UNCHANGED <<shared, existing, created, savesLeft>>

\* mysql: a plain INSERT.  A duplicate PRIMARY turns the Save into an update,
\* and leaves a shared lock on the row in an ambient transaction.
Insert(p) ==
    /\ pc[p] = "insert" /\ ~Waits(p, Id(p))
    /\ \/ /\ rows[Id(p)] # None
          /\ pc' = [pc EXCEPT ![p] = "update"]
          /\ shared' = [shared EXCEPT ![p] = (tx[p] = "open")]
          /\ UNCHANGED <<rows, entity, written, result, acked>>
       \/ /\ rows[Id(p)] = None /\ Winners(Id(p)) # {}
          /\ pc' = [pc EXCEPT ![p] = "lookup"]
          /\ UNCHANGED <<rows, shared, entity, written, result, acked>>
       \/ /\ rows[Id(p)] = None /\ Winners(Id(p)) = {}
          /\ Done(p) /\ Writes(p) /\ UNCHANGED shared
    /\ UNCHANGED <<tx, existing, created, savesLeft>>

\* Another caller holds the shared lock of a refused INSERT on the row.
Locked(p) == \E q \in Proc \ {p} : shared[q] /\ Id(q) = Id(p)

\* mysql: UPDATE ... WHERE id AND lock_version.
Update(p) ==
    /\ pc[p] = "update" /\ ~Waits(p, Id(p)) /\ ~Locked(p)
    /\ Done(p)
    /\ \/ GuardPasses(p) /\ Writes(p) /\ UNCHANGED shared
       \/ /\ ~GuardPasses(p) /\ Fails(p, "conflict")
          /\ shared' = [shared EXCEPT ![p] = FALSE]
    /\ UNCHANGED <<tx, existing, created, savesLeft>>

\* duplicateIdempotencyKey: the lookup of the winner fails in an aborted
\* transaction, and may miss it in the read view of an open one.  (Fault: the
\* payment that was refused is named.)
LookupAttempted(p) ==
    /\ pc[p] = "lookup" /\ Done(p) /\ Fails(p, "duplicate")
    /\ existing' = [existing EXCEPT ![p] = Id(p)]
    /\ UNCHANGED <<tx, shared, created, savesLeft>>
Lookup(p) ==
    /\ pc[p] = "lookup" /\ Done(p) /\ Fails(p, "duplicate")
    /\ \/ /\ tx[p] # "aborted"
          /\ \E j \in Winners(Id(p)) : existing' = [existing EXCEPT ![p] = j]
       \/ tx[p] # "none" /\ UNCHANGED existing
    /\ UNCHANGED <<tx, shared, created, savesLeft>>
-----------------------------------------------------------------------------
(***************************************************************************)
(* RunInTx                                                                 *)
(***************************************************************************)
Begin(p) ==
    /\ Ready(p) /\ tx[p] = "none"
    /\ tx' = [tx EXCEPT ![p] = "open"]
    /\ entity' = [entity EXCEPT ![p] = None]
    /\ UNCHANGED <<rows, pc, written, shared, result, existing, created, acked, savesLeft>>

Ends(p) ==
    /\ pc' = [pc EXCEPT ![p] = "idle"] /\ tx' = [tx EXCEPT ![p] = "none"]
    /\ written' = [written EXCEPT ![p] = FALSE]
    /\ shared' = [shared EXCEPT ![p] = FALSE]
    /\ UNCHANGED <<existing, created, savesLeft>>

Commit(p) ==
    /\ tx[p] = "open" /\ pc[p] = "idle" /\ Ends(p)
    /\ IF written[p]
         THEN /\ rows' = [rows EXCEPT ![Id(p)] = RowOf(entity[p])]
              /\ acked' = acked \union AckOf(p)
              /\ entity' = [entity EXCEPT ![p].loaded = entity[p].version]
         ELSE UNCHANGED <<rows, acked, entity>>
    /\ UNCHANGED result

\* The callback fails, the connection is lost, mysql picks the transaction to
\* break a deadlock, or the commit is not acknowledged.
Rollback(p) ==
    /\ tx[p] # "none" /\ Ends(p)
    /\ \/ UNCHANGED rows
       \/ /\ tx[p] = "open" /\ pc[p] = "idle" /\ written[p]
          /\ rows' = [rows EXCEPT ![Id(p)] = RowOf(entity[p])]
    /\ entity' = [entity EXCEPT ![p] = None]
    /\ result' = [result EXCEPT ![p] = "failed"]
    /\ UNCHANGED acked
-----------------------------------------------------------------------------
Next == \E p \in Proc :
    \/ \E i \in Payment : New(p, i) \/ FindByID(p, i)
    \/ \E r \in Refund : RecordRefund(p, r)
    \/ Save(p) \/ Upsert(p) \/ Insert(p) \/ Update(p) \/ Lookup(p)
    \/ Begin(p) \/ Commit(p) \/ Rollback(p)

Spec == Init /\ [][Next /\ UNCHANGED dialect]_vars
-----------------------------------------------------------------------------
\* Every variable holds a value of its kind (postgres/payment_repo.go 43-139).
TypeOK ==
    /\ dialect \in Dialects
    /\ rows \in [Payment -> Row \union {None}]
    /\ pc \in [Proc -> {"idle", "upsert", "insert", "update", "lookup"}]
    /\ tx \in [Proc -> {"none", "open", "aborted"}]
    /\ entity \in [Proc -> Entity \union {None}]
    /\ written \in [Proc -> BOOLEAN] /\ shared \in [Proc -> BOOLEAN]
    /\ result \in [Proc -> Results] /\ existing \in [Proc -> Payment \union {None}]
    /\ created \in SUBSET Payment /\ acked \in SUBSET (Payment \X Refund)
    /\ savesLeft \in Nat

\* A refund whose Save was acknowledged, and whose transaction committed, is on
\* the payment for ever: of two callers that loaded the same version only one
\* books its refund, the other gets tx.ErrVersionConflict (core#190).
NoRefundLost == \A a \in acked : rows[a[1]] # None /\ a[2] \in rows[a[1]].booked

\* One payment per idempotency key, and the loser of a race is told so: the
\* payment a duplicate error names is stored, also when the winner's transaction
\* ended after the Save began and whatever happens to it later (issue #35).
DuplicatesNameWinner ==
    /\ \A i, j \in Payment :
          rows[i] # None /\ rows[j] # None /\ KeyOf[i] = KeyOf[j] => KeyOf[i] = NoKey \/ i = j
    /\ \A p \in Proc : existing[p] # None => rows[existing[p]] # None
=============================================================================
