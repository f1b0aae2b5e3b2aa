----------------------------- MODULE Projection -----------------------------
(***************************************************************************)
(* The contract read model of both SQL adapters (contract_projector.go,    *)
(* projection_checkpoint.go): the events of the log become rows of         *)
(* contract_read_models, one event at a time as the core's projection      *)
(* service delivers them, or all at once when Rebuild replays the log.     *)
(*                                                                         *)
(* The log is read in position order (EventLog); a position is an index of *)
(* log here.  The projection service is external: it loads the checkpoint, *)
(* subscribes from it, projects each event and saves the position now or   *)
(* later, in a statement apart from the projection.                        *)
(*                                                                         *)
(* Rebuild runs while the projection service is stopped: it deletes the    *)
(* checkpoint that service has already loaded.                             *)
(***************************************************************************)
EXTENDS Integers, Sequences, FiniteSets

CONSTANTS Contract, NoRow,
          Date,      \* ends of periods and of trials, and occurred_at
          MaxFaults,    \* bound: crashes of the projection and failed rebuilds
          MaxRebuilds   \* bound: rebuilds

\* A value a payload or a nullable column lacks.
None == 0

ASSUME ProjectionAssumption == Date \subseteq Nat \ {None} /\ Date # {} /\ MaxFaults \in Nat /\ MaxRebuilds \in Nat

Types == {"created", "activated", "suspended", "resumed", "past_due", "recovered",
          "cancelled", "expired", "renewed", "trial_started", "trial_converted",
          "trial_lapsed", "payment_method_changed"}

\* until: the end of the period, or of the trial, the payload names.
Event == [id : Contract, version : Nat \ {0}, type : Types, until : Date \union {None},
          at : Date]

Status == {"draft", "active", "suspended", "past_due", "cancelled", "expired", "trialing"}

\* end_date and renewal_date are written together by every event.
Row == [status : Status, end : Date \union {None}, trial : Date \union {None},
        version : Nat \ {0}]

ASSUME NoRowAssumption == NoRow \notin Row

VARIABLES
    log,         \* the committed events in the order of global_position
    table,       \* contract_read_models as committed
    checkpoint,  \* projection_checkpoints; 0: no row
    running,     \* the projection service is subscribed
    cursor,      \* position of the last event it projected
    rebuild,     \* the transaction of a Rebuild: open, its rows and its scan
    faultsLeft,  \* failures and rebuilds the bounds still allow
    rebuildsLeft

projectorVars  == <<running, cursor>>
projectionVars == <<table, checkpoint, projectorVars, rebuild, faultsLeft,
                    rebuildsLeft>>

Empty == [c \in Contract |-> NoRow]
Closed == [open |-> FALSE, rows |-> Empty, from |-> 0, pos |-> 0, until |-> None]

ProjectionInit ==
    /\ log = <<>> /\ table = Empty /\ checkpoint = 0
    /\ running = FALSE /\ cursor = 0 /\ rebuild = Closed /\ faultsLeft = MaxFaults
    /\ rebuildsLeft = MaxRebuilds
-----------------------------------------------------------------------------
(***************************************************************************)
(* applyEvent: one statement per event                                     *)
(***************************************************************************)
\* The status an event of each type writes; the others leave it alone.
StatusOf ==
    [created |-> "draft", activated |-> "active", suspended |-> "suspended",
     resumed |-> "active", past_due |-> "past_due", recovered |-> "active",
     cancelled |-> "cancelled", expired |-> "expired", trial_started |-> "trialing",
     trial_converted |-> "active", trial_lapsed |-> "cancelled"]

Coalesce(new, old) == IF new = None THEN old ELSE new

\* The upsert of contract.created keeps the dates of a row it finds.
Created(row, e) ==
    [status |-> "draft", end |-> IF row = NoRow THEN None ELSE row.end,
     trial |-> IF row = NoRow THEN None ELSE row.trial, version |-> e.version]

\* The columns one UPDATE sets.
Updated(row, e) ==
    [status |-> IF e.type \in DOMAIN StatusOf THEN StatusOf[e.type] ELSE row.status,
     end |-> IF e.type \in {"activated", "renewed"} THEN Coalesce(e.until, row.end) ELSE row.end,
     trial |-> IF e.type = "trial_started" THEN e.until
               ELSE IF e.type \in {"trial_converted", "trial_lapsed"} THEN None ELSE row.trial,
     version |-> e.version]

\* An UPDATE of a row that is not there changes nothing.
Apply(rows, e) ==
    [rows EXCEPT ![e.id] = IF e.type = "created" THEN Created(@, e)
                           ELSE IF @ = NoRow THEN NoRow ELSE Updated(@, e)]
-----------------------------------------------------------------------------
(***************************************************************************)
(* The incremental projection                                              *)
(***************************************************************************)
\* The service loads the checkpoint and subscribes from it.
Start ==
    /\ ~running /\ ~rebuild.open
    /\ running' = TRUE /\ cursor' = checkpoint
    /\ UNCHANGED <<log, table, checkpoint, rebuild, faultsLeft, rebuildsLeft>>

Project ==
    /\ running /\ cursor < Len(log)
    /\ table' = Apply(table, log[cursor + 1])
    /\ cursor' = cursor + 1
    /\ UNCHANGED <<log, checkpoint, running, rebuild, faultsLeft, rebuildsLeft>>

SaveCheckpoint ==
    /\ running /\ checkpoint # cursor
    /\ checkpoint' = cursor
    /\ UNCHANGED <<log, table, projectorVars, rebuild, faultsLeft, rebuildsLeft>>

\* The process dies, or is stopped.
Crash ==
    /\ running /\ faultsLeft > 0 /\ faultsLeft' = faultsLeft - 1
    /\ running' = FALSE /\ cursor' = 0
    /\ UNCHANGED <<log, table, checkpoint, rebuild, rebuildsLeft>>
-----------------------------------------------------------------------------
(***************************************************************************)
(* Rebuild(until): one transaction                                         *)
(***************************************************************************)
\* DELETE FROM contract_read_models; Reset of the checkpoint.
RebuildBegin(until) ==
    /\ ~running /\ ~rebuild.open
    /\ rebuildsLeft > 0 /\ rebuildsLeft' = rebuildsLeft - 1
    /\ rebuild' = [open |-> TRUE, rows |-> Empty, from |-> Len(log), pos |-> 0, until |-> until]
    /\ UNCHANGED <<log, table, checkpoint, projectorVars, faultsLeft>>

InHorizon(e) == e.at <= rebuild.until

\* The scan projects the next event that LoadAll returned.  (Fault: it skips
\* an event past the horizon and goes on.)
RebuildSkips ==
    /\ rebuild.open /\ rebuild.pos < Len(log)
    /\ LET e == log[rebuild.pos + 1]
       IN  rebuild' = [rebuild EXCEPT !.pos = @ + 1,
                                      !.rows = IF InHorizon(e) THEN Apply(@, e) ELSE @]
    /\ UNCHANGED <<log, table, checkpoint, projectorVars, faultsLeft, rebuildsLeft>>
RebuildEvent ==
    /\ rebuild.open /\ rebuild.pos < Len(log)
    /\ LET e == log[rebuild.pos + 1]
       IN  /\ InHorizon(e)
           /\ rebuild' = [rebuild EXCEPT !.pos = @ + 1, !.rows = Apply(@, e)]
    /\ UNCHANGED <<log, table, checkpoint, projectorVars, faultsLeft, rebuildsLeft>>

\* The scan stops at the first event past the horizon, or at an empty page:
\* postgres reads the log as it is then, mysql as it was at its first page.
ScanStops ==
    \/ rebuild.pos >= rebuild.from
    \/ rebuild.pos < Len(log) /\ ~InHorizon(log[rebuild.pos + 1])

\* The position of the last projected event is saved and all is committed;
\* without one the checkpoint stays deleted.  (Fault: the next position.)
RebuildEndNext ==
    /\ rebuild.open /\ ScanStops
    /\ table' = rebuild.rows /\ checkpoint' = rebuild.pos + 1
    /\ rebuild' = Closed
    /\ UNCHANGED <<log, projectorVars, faultsLeft, rebuildsLeft>>
RebuildEnd ==
    /\ rebuild.open /\ ScanStops
    /\ table' = rebuild.rows /\ checkpoint' = rebuild.pos
    /\ rebuild' = Closed
    /\ UNCHANGED <<log, projectorVars, faultsLeft, rebuildsLeft>>

\* A statement or the commit fails, or the process dies: rolled back.
RebuildFails ==
    /\ rebuild.open /\ faultsLeft > 0 /\ faultsLeft' = faultsLeft - 1
    /\ rebuild' = Closed
    /\ UNCHANGED <<log, table, checkpoint, projectorVars, rebuildsLeft>>
-----------------------------------------------------------------------------
RebuildStep == RebuildEvent \/ RebuildEnd

ProjectionNext ==
    \/ Start \/ Project \/ SaveCheckpoint \/ Crash
    \/ \E until \in Date : RebuildBegin(until)
    \/ RebuildStep \/ RebuildFails
-----------------------------------------------------------------------------
\* The tables and the projector hold values of their kind
\* (postgres/contract_projector.go 64-143).
ProjectionTypeOK ==
    /\ log \in Seq(Event) /\ table \in [Contract -> Row \union {NoRow}]
    /\ checkpoint \in 0..Len(log) /\ cursor \in 0..Len(log) /\ running \in BOOLEAN
    /\ rebuild \in [open : BOOLEAN, rows : [Contract -> Row \union {NoRow}],
                    from : 0..Len(log), pos : 0..Len(log), until : Date \union {None}]
    /\ faultsLeft \in Nat /\ rebuildsLeft \in Nat

(***************************************************************************)
(* What a contract is after the first n events, by its last event of each  *)
(* kind (the aggregate of the core, as a reference).                       *)
(***************************************************************************)
Those(c, n, T) == {i \in 1..n : log[i].id = c /\ log[i].type \in T}
Latest(I) == CHOOSE i \in I : \A j \in I : j <= i
Known(I) == {i \in I : log[i].until # None}

LastOf(c, n, T) == LET I == Those(c, n, T) IN IF I = {} THEN "none" ELSE log[Latest(I)].type

StatusAt(c, n) == StatusOf[LastOf(c, n, DOMAIN StatusOf)]
EndAt(c, n) ==
    LET I == Known(Those(c, n, {"activated", "renewed"}))
    IN  IF I = {} THEN None ELSE log[Latest(I)].until
TrialAt(c, n) ==
    LET I == Those(c, n, {"trial_started", "trial_converted", "trial_lapsed"})
    IN  IF I = {} \/ log[Latest(I)].type # "trial_started" THEN None ELSE log[Latest(I)].until

ReadModelAt(n) ==
    [c \in Contract |->
        IF Those(c, n, Types) = {} THEN NoRow
        ELSE [status |-> StatusAt(c, n), end |-> EndAt(c, n), trial |-> TrialAt(c, n),
              version |-> Cardinality(Those(c, n, Types))]]

\* A projection that has read the whole log shows every contract as its events
\* leave it: after crashes that replay events, after rebuilds with any horizon
\* that were completed or rolled back, whatever was appended meanwhile.
CaughtUpMeansExact == (running /\ cursor = Len(log)) => table = ReadModelAt(Len(log))
=============================================================================
