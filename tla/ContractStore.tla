---------------------------- MODULE ContractStore ----------------------------
(***************************************************************************)
(* The contract repository of both SQL adapters (contract_repo.go and the  *)
(* snapshots of eventstore.go) on top of the read model of Projection:     *)
(* aggregates are saved as events, rehydrated from snapshots and events,   *)
(* now or as of a past instant, and found for renewal in the read model,   *)
(* which lags behind the events.                                           *)
(*                                                                         *)
(* Save is one step here: EventAppend models its statements.  Which event  *)
(* may follow which is the core's aggregate (external).                    *)
(***************************************************************************)
EXTENDS Projection

CONSTANTS Raised,        \* the event types callers raise, by contract
          Ends,          \* the ends of periods and trials they name
          AsOfDates,     \* the instants queries ask for
          Now,           \* the instant the renewal batch asks for
          Limit,         \* its limit
          SkewedClocks,  \* occurred_at may go back within a stream
          MaxSaves,      \* bound: saves of callers, renewals aside
          MaxSnapshots   \* bound

ASSUME StoreAssumption ==
    /\ Raised \in [Contract -> SUBSET Types] /\ Ends \subseteq Date \union {None}
    /\ AsOfDates \subseteq Nat /\ Now \in Date /\ Limit \in Nat
    /\ \E d \in Date : \A e \in Date : e <= d
    /\ SkewedClocks \in BOOLEAN /\ MaxSaves \in Nat /\ MaxSnapshots \in Nat

VARIABLES
    snapshots,  \* the snapshots table; the state is that of the first events
    due,        \* what the renewal batch found; version 0: not loaded yet
    savesLeft   \* saves the bound still allows

storeVars == <<snapshots, due, savesLeft>>
vars == <<log, projectionVars, storeVars>>

Init == ProjectionInit /\ snapshots = {} /\ due = <<>> /\ savesLeft = MaxSaves
-----------------------------------------------------------------------------
(***************************************************************************)
(* The event stream of a contract: a set, which the versions order         *)
(***************************************************************************)
Stream(c, n) == {log[i] : i \in {j \in 1..n : log[j].id = c}}

\* What LoadUntil selects when the log has n events.
LoadUntil(c, asOf, n) == {log[i] : i \in {j \in 1..n : log[j].id = c /\ log[j].at <= asOf}}

After(S, version) == {e \in S : e.version > version}

Last(S) == CHOOSE e \in S : \A d \in S : d.version <= e.version
MaxVersion(S) == IF S = {} THEN 0 ELSE Last(S).version
-----------------------------------------------------------------------------
(***************************************************************************)
(* Snapshots.  The state of an aggregate is what its events make of it, so *)
(* the set of them; a snapshot holds the state of the first version ones.  *)
(***************************************************************************)
StateOf(snap) == {e \in Stream(snap.id, Len(log)) : e.version <= snap.version}

\* The upsert of (stream_id, version) for an aggregate just loaded: the new
\* created_at replaces the old.  It is the instant of the caller's clock, any
\* instant as far as occurred_at goes, so a snapshot saved later is no other.
SaveSnapshot(c, created) ==
    LET version == Cardinality(Stream(c, Len(log)))
        kept == {s \in snapshots : s.id # c \/ s.version # version}
    IN  /\ version > 0 /\ Cardinality(kept) < MaxSnapshots
        /\ snapshots' = kept \union {[id |-> c, version |-> version, created |-> created]}
        /\ UNCHANGED <<log, projectionVars, due, savesLeft>>

\* ORDER BY version DESC LIMIT 1.
LoadSnapshot(c) ==
    LET S == {s \in snapshots : s.id = c} IN {s \in S : \A t \in S : t.version <= s.version}

\* The aggregate of the latest snapshot and the events after it.
FindByID(c) ==
    LET S == LoadSnapshot(c)
    IN  IF S = {} THEN Stream(c, Len(log))
        ELSE LET snap == CHOOSE s \in S : TRUE
             IN  StateOf(snap) \union After(Stream(c, Len(log)), snap.version)

\* ORDER BY created_at DESC, version DESC LIMIT 1.
LoadSnapshotBefore(c, before) ==
    LET S == {s \in snapshots : s.id = c /\ s.created < before}
    IN  {s \in S : \A t \in S : \/ t.created < s.created
                                \/ t.created = s.created /\ t.version <= s.version}

\* The version guard on a snapshot.  (Fault: it is not checked.)
UsableAlways(snap, events) == TRUE
Usable(snap, events) == snap.version <= MaxVersion(events)

\* FindByIDAsOf: the events were read when the log had n of them, the snapshot
\* is read now.  An empty answer is the not-found error.
FindByIDAsOf(c, asOf, n) ==
    LET events == LoadUntil(c, asOf, n)
        chosen == {s \in LoadSnapshotBefore(c, asOf) : Usable(s, events)}
    IN  IF chosen = {} THEN events
        ELSE LET snap == CHOOSE s \in chosen : TRUE
             IN  StateOf(snap) \union After(events, snap.version)
-----------------------------------------------------------------------------
(***************************************************************************)
(* Save                                                                    *)
(***************************************************************************)
\* The transitions of the core's aggregate.  A new one is saved with its
\* first transition, which is one Append of two events.
Follows ==
    [draft |-> {"activated", "trial_started"},
     trialing |-> {"trial_converted", "trial_lapsed"},
     active |-> {"suspended", "past_due", "cancelled", "expired", "payment_method_changed"},
     suspended |-> {"resumed"}, past_due |-> {"recovered"},
     cancelled |-> {}, expired |-> {}]

Past(c) == Stream(c, Len(log))
StatusNow(c) == StatusAt(c, Len(log))

\* What an event may name as the end of a period or of a trial.
EndsOf(type) ==
    IF type = "activated" THEN Ends
    ELSE IF type = "trial_started" THEN Ends \ {None} ELSE {None}

Times(c) ==
    IF SkewedClocks \/ Past(c) = {} THEN Date
    ELSE LET last == Last(Past(c)) IN {t \in Date : last.at <= t}

NewEvent(c, version, type, until, at) ==
    [id |-> c, version |-> version, type |-> type, until |-> until, at |-> at]

SaveNew(c) ==
    /\ Past(c) = {}
    /\ \E type \in Follows["draft"] \cap Raised[c] : \E until \in EndsOf(type), at \in Date :
          log' = log \o <<NewEvent(c, 1, "created", None, at), NewEvent(c, 2, type, until, at)>>

SaveLoaded(c) ==
    /\ Past(c) # {}
    /\ \E type \in Follows[StatusNow(c)] \cap Raised[c] :
          \E until \in EndsOf(type), at \in Times(c) :
             log' = Append(log, NewEvent(c, Cardinality(Past(c)) + 1, type, until, at))

Save(c) ==
    /\ savesLeft > 0 /\ savesLeft' = savesLeft - 1
    /\ SaveNew(c) \/ SaveLoaded(c)
    /\ UNCHANGED <<projectionVars, snapshots, due>>
-----------------------------------------------------------------------------
(***************************************************************************)
(* Renewals                                                                *)
(***************************************************************************)
\* The WHERE clause of FindDueForRenewal.  (Fault: not by status.)
IsDueAnyStatus(row) == row # NoRow /\ row.end # None /\ row.end <= Now
IsDue(row) == row # NoRow /\ row.end # None /\ row.end <= Now /\ row.status = "active"

DueRows == {c \in Contract : IsDue(table[c])}

\* ORDER BY renewal_date, id, with any order of the ids; LIMIT when positive.
DueLists ==
    {s \in [1..Cardinality(DueRows) -> DueRows] :
        \A i, j \in DOMAIN s : i < j => s[i] # s[j] /\ table[s[i]].end <= table[s[j]].end}

FindDueForRenewal ==
    /\ due = <<>> /\ DueRows # {}
    /\ \E s \in DueLists :
          LET n == IF Limit > 0 /\ Len(s) > Limit THEN Limit ELSE Len(s)
          IN  due' = [i \in 1..n |-> [id |-> s[i], version |-> 0]]
    /\ UNCHANGED <<log, projectionVars, snapshots, savesLeft>>

\* findManyFromReadModel then loads one contract after the other.
Rehydrate ==
    /\ \E i \in DOMAIN due :
          /\ due[i].version = 0 /\ \A j \in 1..(i - 1) : due[j].version # 0
          /\ due' = [due EXCEPT ![i].version = MaxVersion(FindByID(due[i].id))]
    /\ UNCHANGED <<log, projectionVars, snapshots, savesLeft>>

\* The batch (external) takes the next contract and renews it if, as it was
\* loaded, it is active and due; the next period ends after Now.  Save appends
\* at the loaded version, and conflicts if the stream went on.
NextPeriod == CHOOSE d \in Date : \A e \in Date : e <= d
DueAt(c, n) == StatusAt(c, n) = "active" /\ EndAt(c, n) # None /\ EndAt(c, n) <= Now
StillDue(c) == Past(c) # {} /\ DueAt(c, Len(log))

RenewedAt(c) == CHOOSE t \in Times(c) \ 1..(Now - 1) : \A u \in Times(c) \ 1..(Now - 1) : t <= u
RenewOne(c) ==
    log' = Append(log, NewEvent(c, Cardinality(Past(c)) + 1, "renewed", NextPeriod, RenewedAt(c)))

Renew ==
    /\ due # <<>> /\ due' = Tail(due)
    /\ \A i \in DOMAIN due : due[i].version # 0
    /\ LET c == Head(due).id
       IN  IF StillDue(c) /\ Head(due).version = Cardinality(Past(c)) THEN RenewOne(c) ELSE UNCHANGED log
    /\ UNCHANGED <<projectionVars, snapshots, savesLeft>>
-----------------------------------------------------------------------------
Next ==
    \/ ProjectionNext /\ UNCHANGED storeVars
    \/ \E c \in Contract : Save(c)
    \/ \E c \in Contract, created \in AsOfDates \union {0} : SaveSnapshot(c, created)
    \/ FindDueForRenewal \/ Rehydrate \/ Renew

Spec == Init /\ [][Next]_vars

\* The projection service is started again and keeps up, a rebuild ends, and
\* the scheduler runs the batch again and again.
Fairness ==
    /\ WF_vars(Start /\ UNCHANGED storeVars) /\ WF_vars(Project /\ UNCHANGED storeVars)
    /\ WF_vars(RebuildStep /\ UNCHANGED storeVars)
    /\ WF_vars(FindDueForRenewal) /\ WF_vars(Rehydrate) /\ WF_vars(Renew)

FairSpec == Spec /\ Fairness
-----------------------------------------------------------------------------
\* The read model, the snapshots and the batch hold values of their kind, and
\* a snapshot never runs ahead of its stream (postgres/contract_repo.go).
TypeOK ==
    /\ ProjectionTypeOK
    /\ \A s \in snapshots : /\ s.id \in Contract /\ s.created \in Nat
                            /\ s.version \in 1..Cardinality(Stream(s.id, Len(log)))
    /\ due \in Seq([id : Contract, version : Nat]) /\ savesLeft \in Nat

\* FindByIDAsOf answers with the events that had occurred by asOf, whatever
\* snapshots were saved, with whatever clock, also between its two reads.
AsOfIsPast ==
    \A c \in Contract, asOf \in AsOfDates, n \in 0..Len(log) :
        FindByIDAsOf(c, asOf, n) = LoadUntil(c, asOf, n)

\* Every contract due for renewal is renewed or stops being due, although the
\* batch finds contracts in a read model that lags, is rebuilt and starts over,
\* and takes only the first Limit of them at a time.
RenewalsDrain == \A c \in Contract : StillDue(c) ~> ~StillDue(c)
=============================================================================
