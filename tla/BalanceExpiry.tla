--------------------------- MODULE BalanceExpiry ---------------------------
(***************************************************************************)
(* BalanceRepository of both SQL adapters (postgres/balance_repo.go,       *)
(* mysql/balance_repo.go): the optimistic lock of Save, FindAvailable, and *)
(* the FindExpired that feeds core's BalanceExpirationProcessor.           *)
(*                                                                         *)
(* Credit entries expire; invoices take credit from an entry while it is   *)
(* available, the batch forfeits what is left once it has expired.  Both   *)
(* read an entry, change it in memory and save it, with no lock between    *)
(* the read and the save.  (A Save inside an ambient transaction raises    *)
(* the same questions as InvoiceStore's and is left to that module.)       *)
(***************************************************************************)
EXTENDS Integers, FiniteSets

CONSTANTS Entry,       \* the entries, numbered in the order (created_at, id)
          Proc,        \* the processes that grant and apply credit
          Batch,       \* the process that runs the expiration batch
          Limit,       \* the batch's limit; <= 0 means none
          MaxAmount,   \* bound: the amount of an entry
          MaxClock,    \* bound: the clock
          MaxFaults    \* bound: saves that fail or whose answer is lost

ASSUME BalanceAssumption ==
    /\ Entry \subseteq Nat \ {0} /\ IsFiniteSet(Entry)
    /\ Batch \notin Proc
    /\ Limit \in Int /\ MaxAmount \in Nat /\ MaxClock \in Nat /\ MaxFaults \in Nat

Time == 0..MaxClock
Amount == 0..MaxAmount
Caller == Proc \union {Batch}

VARIABLES
    row,          \* balance_entries; version 0: there is no row
    clock,
    entity,       \* the BalanceEntry a caller holds; id 0: none
    todo,         \* entries of the current batch run not processed yet
    granted,      \* history: what an entry was created with,
    taken,        \* history: what the saves that wrote it took from it
    faultsLeft    \* faults the bound still allows

vars == <<row, clock, entity, todo, granted, taken, faultsLeft>>

Row == [version : Nat, remaining : Amount, expires : Time]
NoRow == [version |-> 0, remaining |-> 0, expires |-> 0]

\* was: the remaining amount LoadedVersion() had.
Entity == [id : Entry, version : Nat, loaded : Nat, remaining : Amount, was : Amount,
           expires : Time]
NoEntity == [id |-> 0, version |-> 0, loaded |-> 0, remaining |-> 0, was |-> 0,
             expires |-> 0]

Init ==
    /\ row = [e \in Entry |-> NoRow] /\ clock = 0
    /\ entity = [p \in Caller |-> NoEntity] /\ todo = {}
    /\ granted = [e \in Entry |-> 0] /\ taken = [e \in Entry |-> 0]
    /\ faultsLeft = MaxFaults

Tick ==
    /\ clock < MaxClock /\ clock' = clock + 1
    /\ UNCHANGED <<row, entity, todo, granted, taken, faultsLeft>>
-----------------------------------------------------------------------------
(***************************************************************************)
(* The reads                                                               *)
(***************************************************************************)
Loaded(e) == [id |-> e, version |-> row[e].version, loaded |-> row[e].version,
              remaining |-> row[e].remaining, was |-> row[e].remaining,
              expires |-> row[e].expires]

\* FindAvailable: not expired, and something left (filterAvailableBalance).
Available == {e \in Entry : row[e].version > 0 /\ row[e].expires > clock
                                               /\ row[e].remaining > 0}

\* The rows of FindExpired's WHERE clause, as of asOf.  (Fault: a day late.)
ExpiredLate(asOf) == {e \in Entry : row[e].version > 0 /\ row[e].expires + 1 < asOf}
ExpiredRows(asOf) == {e \in Entry : row[e].version > 0 /\ row[e].expires < asOf}

\* ORDER BY created_at, id LIMIT n.
FirstRows(S, n) == IF n > 0 THEN {e \in S : Cardinality({f \in S : f <= e}) <= n} ELSE S

\* filterExpiredBalance: the entries that are not fully consumed.
Unconsumed(S) == {e \in S : row[e].remaining # 0}

\* The limit applies to the rows, the filter to what the limit left.
FindExpired(asOf, limit) == Unconsumed(FirstRows(ExpiredRows(asOf), limit))
-----------------------------------------------------------------------------
(***************************************************************************)
(* Save                                                                    *)
(***************************************************************************)
\* INSERT of an entity that was never loaded, else UPDATE ... WHERE version.
\* (Fault: no optimistic lock.)
NoGuard(x) == TRUE
GuardPasses(x) == row[x.id].version = x.loaded

Write(x) ==
    /\ row' = [row EXCEPT ![x.id] = [version |-> x.version, remaining |-> x.remaining,
                                     expires |-> x.expires]]
    /\ granted' = [granted EXCEPT ![x.id] = IF x.loaded = 0 THEN x.was ELSE @]
    /\ taken' = [taken EXCEPT ![x.id] = @ + (x.was - x.remaining)]

\* SetVersion: a saved entity can be changed and saved again.
SetVersion(x) == [x EXCEPT !.loaded = x.version, !.was = x.remaining]

\* The entity carries a change; the batch keeps no entity it has saved.
Changed(p) == entity[p].id # 0 /\ entity[p].version # entity[p].loaded
After(p, x) == IF p = Batch THEN NoEntity ELSE x

Save(p) ==
    /\ Changed(p)
    /\ \/ /\ GuardPasses(entity[p])
          /\ Write(entity[p])
          /\ entity' = [entity EXCEPT ![p] = After(p, SetVersion(@))]
       \/ /\ ~GuardPasses(entity[p])       \* duplicate id, or ErrVersionConflict
          /\ entity' = [entity EXCEPT ![p] = NoEntity]
          /\ UNCHANGED <<row, granted, taken>>
    /\ UNCHANGED <<clock, todo, faultsLeft>>

\* The statement fails, or runs and its answer is lost: Save returns an
\* error, LoadedVersion() stays, and the caller may save the entity again.
SaveFails(p) ==
    /\ Changed(p)
    /\ faultsLeft > 0 /\ faultsLeft' = faultsLeft - 1
    /\ \/ UNCHANGED <<row, granted, taken>>
       \/ GuardPasses(entity[p]) /\ Write(entity[p])
    /\ entity' = [entity EXCEPT ![p] = After(p, @)]
    /\ UNCHANGED <<clock, todo>>
-----------------------------------------------------------------------------
(***************************************************************************)
(* The callers (core's balance service and expiration batch, external)     *)
(***************************************************************************)
\* NewBalanceEntry: the id is new.
Grant(p, e, amount, expires) ==
    /\ row[e].version = 0 /\ \A q \in Caller : entity[q].id # e
    /\ entity' = [entity EXCEPT ![p] = [id |-> e, version |-> 1, loaded |-> 0,
                      remaining |-> amount, was |-> amount, expires |-> expires]]
    /\ UNCHANGED <<row, clock, todo, granted, taken, faultsLeft>>

FindAvailable(p) ==
    /\ \E e \in Available : entity' = [entity EXCEPT ![p] = Loaded(e)]
    /\ UNCHANGED <<row, clock, todo, granted, taken, faultsLeft>>

\* Apply credit to an invoice; every mutation bumps the version.
Apply(p, amount) ==
    /\ entity[p].id # 0
    /\ amount <= entity[p].remaining
    /\ entity' = [entity EXCEPT ![p].remaining = @ - amount, ![p].version = @ + 1]
    /\ UNCHANGED <<row, clock, todo, granted, taken, faultsLeft>>

\* A batch run starts.
RunBatch ==
    /\ todo = {} /\ entity[Batch].id = 0
    /\ todo' = {Loaded(e) : e \in FindExpired(clock, Limit)}
    /\ UNCHANGED <<row, clock, entity, granted, taken, faultsLeft>>

\* The next entry of the run: MarkExpired forfeits what is left of it.
MarkExpired ==
    /\ entity[Batch].id = 0
    /\ \E x \in todo :
          /\ \A y \in todo : x.id <= y.id
          /\ todo' = todo \ {x}
          /\ entity' = [entity EXCEPT ![Batch] =
                           [x EXCEPT !.remaining = 0, !.version = @ + 1]]
    /\ UNCHANGED <<row, clock, granted, taken, faultsLeft>>
-----------------------------------------------------------------------------
BatchStep == RunBatch \/ MarkExpired \/ Save(Batch)

Next ==
    \/ Tick
    \/ BatchStep
    \/ SaveFails(Batch)
    \/ \E p \in Proc :
          \/ \E e \in Entry, amount \in Amount \ {0}, expires \in Time :
                Grant(p, e, amount, expires)
          \/ FindAvailable(p)
          \/ \E amount \in Amount \ {0} : Apply(p, amount)
          \/ Save(p) \/ SaveFails(p)

Spec == Init /\ [][Next]_vars

\* The batch is run again and again, and a run goes on to its end.
FairSpec == Spec /\ WF_vars(BatchStep)
-----------------------------------------------------------------------------
\* Every variable holds a value of its kind (postgres/balance_repo.go).
TypeOK ==
    /\ row \in [Entry -> Row] /\ clock \in Time
    /\ entity \in [Caller -> Entity \union {NoEntity}] /\ todo \subseteq Entity
    /\ granted \in [Entry -> Amount] /\ taken \in [Entry -> Amount] /\ faultsLeft \in Nat

\* No credit is spent twice: what saves took from an entry and what is left
\* of it add up to what it was created with, whoever raced whom, and however
\* often a save whose answer was lost is repeated.
NoCreditTwice ==
    \A e \in Entry : row[e].version > 0 => taken[e] + row[e].remaining = granted[e]

\* "repeated batch runs drain the expired backlog" (FindExpired's comment).
BacklogDrains ==
    \A e \in Entry :
        (row[e].version > 0 /\ row[e].expires < clock) ~> row[e].remaining = 0
=============================================================================
