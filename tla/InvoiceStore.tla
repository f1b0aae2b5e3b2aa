---------------------------- MODULE InvoiceStore ----------------------------
(***************************************************************************)
(* InvoiceRepository.Save, FindByID and FindByIDAsOf of both SQL adapters  *)
(* (postgres/invoice_repo.go, mysql/invoice_repo.go) for one invoice: the  *)
(* optimistic lock on lock_version, the FOR UPDATE read, and the windows   *)
(* of the bitemporal invoice_history, under concurrent transactions,       *)
(* rollbacks, lost commit answers and retries.                             *)
(*                                                                         *)
(* The content of an invoice is abstracted to its lineage: the history     *)
(* version of the row it was loaded from.  A save that overwrites any      *)
(* other row has lost somebody's update.                                   *)
(***************************************************************************)
EXTENDS Integers, FiniteSets

CONSTANTS Proc, NoProc,
          Dialects,      \* the databases looked at: "postgres", "mysql"
          KeepEntity,    \* a caller may save its entity again after a rollback
          MaxVersion,    \* bound: saves and mutations of the invoice
          MaxClock       \* bound: the clock

ASSUME InvoiceAssumption ==
    /\ NoProc \notin Proc /\ Dialects \subseteq {"postgres", "mysql"}
    /\ KeepEntity \in BOOLEAN /\ MaxVersion \in Nat /\ MaxClock \in Nat

\* valid_to of the row that is open.
Open == MaxClock + 1

Time == 0..MaxClock

\* The invoices row: ver is the column version (0: no row yet), the counter
\* that keys the history; lockVersion the column lock_version.
InvoiceRow == [ver : Nat, lockVersion : Nat]

\* A row of invoice_history; base is the lineage of its snapshot, kept that of
\* the entity that wrote it.
HistoryRow == [ver : Nat \ {0}, base : Nat, from : Time, to : Time \union {Open},
               kept : BOOLEAN]

\* An Invoice in memory: Version(), LoadedVersion(), its lineage, whether it
\* carries a change that no committed row has, and whether it was saved in a
\* transaction that rolled back and not loaded since.
NoEntity == [held |-> FALSE, version |-> 0, loaded |-> 0, base |-> 0, changed |-> FALSE,
             kept |-> FALSE]
Entity == [held : BOOLEAN, version : Nat, loaded : Nat, base : Nat, changed : BOOLEAN,
           kept : BOOLEAN]

Smaller(m, n) == IF m <= n THEN m ELSE n

VARIABLES
    dialect,          \* the database; never changes
    row, history,     \* the committed invoices row and history rows
    clock,
    locker,           \* the process whose transaction holds the row lock
    pc,               \* "idle", or in a transaction: "tx" ambient, "save" local
    began,            \* when the transaction began: its NOW() in postgres
    entity,           \* the entity the process holds
    ownRow, ownHist,  \* row and history as its transaction sees them
    wrote             \* its transaction saved the entity

vars == <<dialect, row, history, clock, locker, pc, began, entity, ownRow, ownHist, wrote>>

Init ==
    /\ dialect \in Dialects
    /\ row = [ver |-> 0, lockVersion |-> 0] /\ history = {}
    /\ clock = 0 /\ locker = NoProc
    /\ pc = [p \in Proc |-> "idle"] /\ began = [p \in Proc |-> 0]
    /\ entity = [p \in Proc |-> NoEntity]
    /\ ownRow = [p \in Proc |-> [ver |-> 0, lockVersion |-> 0]]
    /\ ownHist = [p \in Proc |-> {}]
    /\ wrote = [p \in Proc |-> FALSE]

Tick ==
    /\ clock < MaxClock /\ clock' = clock + 1
    /\ UNCHANGED <<row, history, locker, pc, began, entity, ownRow, ownHist, wrote>>
-----------------------------------------------------------------------------
\* The row as a statement of p's transaction finds it: its own write, else
\* what is committed (postgres READ COMMITTED; a locking read or an UPDATE
\* reads the latest committed row in mysql too).
Current(p) == IF wrote[p] THEN ownRow[p] ELSE row

CurrentHistory(p) == IF wrote[p] THEN ownHist[p] ELSE history

Loaded(r) == [held |-> TRUE, version |-> r.lockVersion, loaded |-> r.lockVersion,
              base |-> r.ver, changed |-> FALSE, kept |-> FALSE]

\* NewInvoice in core: the id is new, so nobody else holds the invoice.
New(p) ==
    /\ row.ver = 0 /\ \A q \in Proc : ~entity[q].held
    /\ entity' = [entity EXCEPT ![p] = [NoEntity EXCEPT !.held = TRUE,
                                                          !.changed = TRUE]]
    /\ UNCHANGED <<row, history, clock, locker, pc, began, ownRow, ownHist, wrote>>

\* FindByID outside a transaction takes no lock.
FindByID(p) ==
    /\ pc[p] = "idle" /\ row.ver > 0
    /\ entity' = [entity EXCEPT ![p] = Loaded(row)]
    /\ UNCHANGED <<row, history, clock, locker, pc, began, ownRow, ownHist, wrote>>

\* FindByID in an ambient transaction reads FOR UPDATE.
FindByIDForUpdate(p) ==
    /\ pc[p] = "tx" /\ Current(p).ver > 0 /\ locker \in {NoProc, p}
    /\ locker' = p
    /\ entity' = [entity EXCEPT ![p] = Loaded(Current(p))]
    /\ UNCHANGED <<row, history, clock, pc, began, ownRow, ownHist, wrote>>

\* Every mutating method of core's Invoice bumps Version().
Mutate(p) ==
    /\ entity[p].held /\ entity[p].version < MaxVersion
    /\ entity' = [entity EXCEPT ![p].version = @ + 1, ![p].changed = TRUE]
    /\ UNCHANGED <<row, history, clock, locker, pc, began, ownRow, ownHist, wrote>>

\* An ambient transaction begins, or Save begins its own.  (Saving an entity
\* nobody changed writes back what it read and is left out.)
Begin(p, kind) ==
    /\ pc[p] = "idle" /\ (kind = "save" => entity[p].changed)
    /\ pc' = [pc EXCEPT ![p] = kind] /\ began' = [began EXCEPT ![p] = clock]
    /\ UNCHANGED <<row, history, clock, locker, entity, ownRow, ownHist, wrote>>
-----------------------------------------------------------------------------
(***************************************************************************)
(* saveOn                                                                  *)
(***************************************************************************)
\* The statement that writes the invoices row goes through: there is no row
\* and it inserts one, or lock_version still is what the entity was loaded at.
\* (Fault: the statement has no guard.)
NoGuard(p) == TRUE
GuardPasses(p) ==
    \/ Current(p).ver = 0
    \/ Current(p).lockVersion = entity[p].loaded

\* The instant of the history rows: NOW() of the transaction in postgres, the
\* clock read after the write, under the row lock, in mysql.
PgHistoryTime(p) == began[p]
MySqlHistoryTime == clock
HistoryTime(p) == IF dialect = "postgres" THEN PgHistoryTime(p) ELSE MySqlHistoryTime

\* Close the open rows of H; the history row of version v.
Close(H, now) == {IF h.to = Open THEN [h EXCEPT !.to = now] ELSE h : h \in H}

NewHistory(p, v, now) ==
    [ver |-> v, from |-> now, to |-> Open,
     base |-> IF wrote[p] THEN v - 1 ELSE entity[p].base, kept |-> entity[p].kept]

\* Close the open history row and insert the one of version v.  (Fault: the
\* new row has the old version.)
WriteOldVersion(p, v, now) ==
    Close(CurrentHistory(p), now) \union {NewHistory(p, v - 1, now)}
WriteHistory(p, v, now) ==
    Close(CurrentHistory(p), now) \union {NewHistory(p, v, now)}

\* SetVersion: the saved version becomes LoadedVersion(), before any commit.
SetVersion(e) == [e EXCEPT !.loaded = e.version]

SaveOn(p) ==
    /\ pc[p] \in {"tx", "save"} /\ entity[p].changed
    /\ Current(p).ver < MaxVersion
    /\ locker \in {NoProc, p} /\ locker' = p
    /\ GuardPasses(p)
    /\ LET v == Current(p).ver + 1
       IN  /\ ownRow' = [ownRow EXCEPT
                             ![p] = [ver |-> v, lockVersion |-> entity[p].version]]
           /\ ownHist' = [ownHist EXCEPT ![p] = WriteHistory(p, v, HistoryTime(p))]
    /\ wrote' = [wrote EXCEPT ![p] = TRUE]
    /\ entity' = [entity EXCEPT ![p] = SetVersion(@)]
    /\ pc' = [pc EXCEPT ![p] = IF @ = "save" THEN "saved" ELSE @]
    /\ UNCHANGED <<row, history, clock, began>>

\* The transaction of p ends; p keeps the entity e.
EndTx(p, e) ==
    /\ locker' = IF locker = p THEN NoProc ELSE locker
    /\ pc' = [pc EXCEPT ![p] = "idle"]
    /\ wrote' = [wrote EXCEPT ![p] = FALSE]
    /\ ownRow' = [ownRow EXCEPT ![p] = [ver |-> 0, lockVersion |-> 0]]
    /\ ownHist' = [ownHist EXCEPT ![p] = {}]
    /\ began' = [began EXCEPT ![p] = 0]
    /\ entity' = [entity EXCEPT ![p] = e]
    /\ UNCHANGED clock

\* RowsAffected() = 0: tx.ErrVersionConflict, and the transaction rolls back.
VersionConflict(p) ==
    /\ pc[p] \in {"tx", "save"} /\ entity[p].changed
    /\ locker \in {NoProc, p} /\ ~GuardPasses(p)
    /\ EndTx(p, NoEntity)
    /\ UNCHANGED <<row, history>>

\* The transaction commits, whether or not the caller learns of it.  What
\* the entity holds is now the content of the row it wrote.
Commit(p) ==
    /\ pc[p] \in {"tx", "saved"}
    /\ row' = Current(p) /\ history' = CurrentHistory(p)
    /\ EndTx(p, IF wrote[p] THEN [entity[p] EXCEPT !.base = ownRow[p].ver,
                                                     !.changed = FALSE,
                                                     !.kept = FALSE]
                            ELSE entity[p])

\* The commit fails, or something after the save does: everything the
\* transaction wrote is gone, the entity in memory is as Save left it: its
\* content was made from no row later than the committed one.
Rollback(p) ==
    /\ pc[p] \in {"tx", "save", "saved"}
    /\ \/ EndTx(p, NoEntity)
       \/ KeepEntity /\ EndTx(p, [entity[p] EXCEPT !.base = Smaller(@, row.ver),
                                                    !.kept = @ \/ wrote[p]])
    /\ UNCHANGED <<row, history>>

Next ==
    \/ Tick
    \/ \E p \in Proc :
          \/ New(p) \/ FindByID(p) \/ FindByIDForUpdate(p) \/ Mutate(p)
          \/ \E kind \in {"tx", "save"} : Begin(p, kind)
          \/ SaveOn(p) \/ VersionConflict(p) \/ Commit(p) \/ Rollback(p)

Spec == Init /\ [][Next /\ UNCHANGED dialect]_vars
-----------------------------------------------------------------------------
\* FindByIDAsOf: the highest version whose window contains t.
AsOf(t) ==
    LET found == {h \in history : h.from <= t /\ (h.to = Open \/ h.to > t)}
    IN  {h \in found : \A g \in found : g.ver <= h.ver}

\* Every variable holds a value of its kind (invoice_repo.go of both adapters).
TypeOK ==
    /\ dialect \in Dialects
    /\ row \in InvoiceRow /\ history \in SUBSET HistoryRow
    /\ clock \in Time /\ locker \in Proc \union {NoProc}
    /\ pc \in [Proc -> {"idle", "tx", "save", "saved"}] /\ began \in [Proc -> Time]
    /\ entity \in [Proc -> Entity] /\ ownRow \in [Proc -> InvoiceRow]
    /\ ownHist \in [Proc -> SUBSET HistoryRow] /\ wrote \in [Proc -> BOOLEAN]

\* No lost update (issue #30): every saved state was made from the state it
\* replaced, so no writer overwrites a change it has not seen.
NoLostUpdate == \A h \in history : h.base = h.ver - 1

\* The same until an entity is saved that its caller kept over a rollback
\* (issue #30): that save may overwrite another, and leave lock_version where
\* it was, so that a writer who loaded before it passes the guard as well.
LostOnlyAfterKeptSave ==
    \A h \in history : h.base = h.ver - 1 \/ \E g \in history : g.kept /\ g.ver <= h.ver

\* No history snapshot is lost to FindByIDAsOf: a row is never closed before
\* it began, so the states follow each other in time as they did in fact.
WindowsRunForward == \A h \in history : h.from <= h.to

\* A committed save leaves the history complete (issue #36): one row per
\* version, only the last one open, each closed when the next one begins; a
\* temporal query of the present finds the current state; and on mysql, which
\* reads the clock under the row lock, the windows run forward.
HistoryComplete ==
    /\ {h.ver : h \in history} = 1..row.ver
    /\ \A h, g \in history : h.ver = g.ver => h = g
    /\ \A h \in history : (h.to = Open) <=> (h.ver = row.ver)
    /\ \A h, g \in history : g.ver = h.ver + 1 => h.to = g.from
    /\ row.ver > 0 => {h.ver : h \in AsOf(clock)} = {row.ver}
    /\ dialect = "mysql" => WindowsRunForward
=============================================================================
