---------------------------- MODULE EventAppend ----------------------------
(***************************************************************************)
(* EventStore.Append of both SQL adapters (postgres/eventstore.go and      *)
(* mysql/eventstore.go) as the database sees it: processes that append     *)
(* batches of events to streams, each in a transaction of its own or in    *)
(* the ambient transaction of a TxManager.RunInTx.                         *)
(*                                                                         *)
(* One action is one statement, so that the statements of concurrent       *)
(* transactions interleave.  The adapters run the same steps; where the    *)
(* two databases answer differently the constant Dialect tells them apart: *)
(* what a SELECT inside a transaction sees, what a failed INSERT does to   *)
(* its transaction, and which error a duplicate key becomes.               *)
(*                                                                         *)
(* The database is external: a transaction's rows are visible to others    *)
(* when it commits, a sequence value is consumed even if the transaction   *)
(* rolls back, and the append lock is held to the end of the transaction.  *)
(***************************************************************************)
EXTENDS Integers, Sequences, FiniteSets

CONSTANTS Proc, NoProc,      \* the callers
          Stream, Id, Key,   \* streams, event ids, contract idempotency keys
          NoKey,             \* an event that carries no such key
          Calls,             \* the Append calls made: stream, batch, expected version
          Dialect,           \* "postgres" or "mysql"
          Swallow,           \* a RunInTx callback may ignore the error of an Append
          MaxCalls           \* bound: Append calls in one behaviour

\* An event as the caller built it, and an Append call.
EventIn == [id : Id, version : Nat \ {0}, key : Key \union {NoKey}]
Call == [stream : Stream, batch : Seq(EventIn), expected : Nat]

\* A row of the events table, as far as its constraints and readers go.
Row == [id : Id, stream : Stream, version : Nat \ {0}, key : Key \union {NoKey},
        pos : Nat \ {0}]

ASSUME AppendAssumption ==
    /\ NoProc \notin Proc /\ NoKey \notin Key
    /\ Calls # {} /\ \A c \in Calls : c \in Call /\ Len(c.batch) > 0
    /\ Dialect \in {"postgres", "mysql"} /\ Swallow \in BOOLEAN
    /\ MaxCalls \in Nat

VARIABLES
    events,     \* the committed rows
    nextPos,    \* the global_position sequence
    lock,       \* the process whose transaction holds the append lock
    pc,         \* where a process is
    ambient,    \* its transaction is RunInTx's, not Append's own
    call,       \* the Append call it is in, or made last
    ins,        \* index in the batch of the next event to insert
    rows,       \* rows its open transaction inserted
    frozen,     \* mysql: its transaction has its read view,
    view,       \*        and this is what was committed then
    aborted,    \* postgres: a statement failed, only a rollback is possible
    result,     \* what its last Append or RunInTx returned
    callsLeft   \* calls the bound still allows

txVars == <<pc, ambient, call, ins, rows, frozen, view, aborted, result>>
vars == <<events, nextPos, lock, txVars, callsLeft>>

Phases == {"idle", "fn", "lock", "count", "insert", "commit", "rollback"}
Errors == {"version_conflict", "validation", "conflict", "infra", "rolled_back"}
Results == {"none", "ok", "unknown"} \union Errors

Init ==
    /\ events = {} /\ nextPos = 1 /\ lock = NoProc
    /\ pc = [p \in Proc |-> "idle"] /\ ambient = [p \in Proc |-> FALSE]
    /\ call = [p \in Proc |-> CHOOSE c \in Calls : TRUE] /\ ins = [p \in Proc |-> 1]
    /\ rows = [p \in Proc |-> {}]
    /\ frozen = [p \in Proc |-> FALSE] /\ view = [p \in Proc |-> {}]
    /\ aborted = [p \in Proc |-> FALSE] /\ result = [p \in Proc |-> "none"]
    /\ callsLeft = MaxCalls
-----------------------------------------------------------------------------
(***************************************************************************)
(* The database (external)                                                 *)
(***************************************************************************)
\* READ COMMITTED in postgres, a read view per transaction in mysql; a
\* transaction sees its own rows in both.
Visible(p) == (IF frozen[p] THEN view[p] ELSE events) \union rows[p]

\* The first consistent read of a mysql transaction fixes its read view.
TakeView(p) ==
    IF Dialect = "mysql" /\ ~frozen[p]
      THEN frozen' = [frozen EXCEPT ![p] = TRUE] /\ view' = [view EXCEPT ![p] = events]
      ELSE UNCHANGED <<frozen, view>>

\* The lock goes with the transaction.  (Fault: it stays with the session.)
LockKept(p) == lock
LockAfter(p) == IF lock = p THEN NoProc ELSE lock

\* The transaction of p is over, with the rows of R made visible.
EndTx(p, R) ==
    /\ events' = events \union R
    /\ lock' = LockAfter(p)
    /\ rows' = [rows EXCEPT ![p] = {}]
    /\ frozen' = [frozen EXCEPT ![p] = FALSE] /\ view' = [view EXCEPT ![p] = {}]
    /\ aborted' = [aborted EXCEPT ![p] = FALSE]
    /\ pc' = [pc EXCEPT ![p] = "idle"] /\ ambient' = [ambient EXCEPT ![p] = FALSE]

\* Rows that one of the unique indexes of the events table keeps apart: the
\* event id, (stream_id, version), and the idempotency key of a creation.
SameId(r, s) == r.id = s.id
SameVersion(r, s) == r.stream = s.stream /\ r.version = s.version
SameKey(r, s) == r.key = s.key /\ r.key # NoKey

\* (Fault: the index of migration 010 is missing.)
ClashWithoutKeys(r, s) == SameId(r, s) \/ SameVersion(r, s)
Clash(r, s) == SameId(r, s) \/ SameVersion(r, s) \/ SameKey(r, s)

\* What Append returns for the unique index that refused the row r.
InsertError(r, table) ==
    IF \E s \in table : SameId(r, s)
      THEN IF Dialect = "mysql" THEN "conflict" ELSE "infra"
      ELSE IF \E s \in table : SameVersion(r, s) THEN "version_conflict" ELSE "conflict"
-----------------------------------------------------------------------------
(***************************************************************************)
(* TxManager.RunInTx                                                       *)
(***************************************************************************)
\* RunInTx begins a transaction; the callback runs on it.  A nested RunInTx
\* finds it in the context and begins nothing.
RunInTx(p) ==
    /\ pc[p] = "idle"
    /\ pc' = [pc EXCEPT ![p] = "fn"] /\ ambient' = [ambient EXCEPT ![p] = TRUE]
    /\ result' = [result EXCEPT ![p] = "none"]
    /\ UNCHANGED <<events, nextPos, lock, call, ins, rows, frozen, view, aborted, callsLeft>>

\* The callback reads before it appends, as ContractRepository.FindByID does.
ReadInTx(p) ==
    /\ pc[p] = "fn" /\ Dialect = "mysql" /\ ~frozen[p]
    /\ TakeView(p)
    /\ UNCHANGED <<events, nextPos, lock, pc, ambient, call, ins, rows, aborted, result,
                   callsLeft>>

\* The callback returned nil and RunInTx commits.  A commit of an aborted
\* postgres transaction rolls it back and says so; the outcome of a commit
\* whose answer is lost is unknown to the caller.
CommitTx(p) ==
    /\ pc[p] = "fn" /\ (result[p] \in {"none", "ok"} \/ Swallow)
    /\ \/ /\ ~aborted[p] /\ EndTx(p, rows[p]) /\ UNCHANGED result
       \/ /\ ~aborted[p] /\ \E R \in {rows[p], {}} : EndTx(p, R)
          /\ result' = [result EXCEPT ![p] = "unknown"]
       \/ /\ aborted[p] /\ EndTx(p, {})
          /\ result' = [result EXCEPT ![p] = "rolled_back"]
    /\ UNCHANGED <<nextPos, call, ins, callsLeft>>

\* The callback returned an error, its own or an Append's.
RollbackTx(p) ==
    /\ pc[p] = "fn"
    /\ EndTx(p, {})
    /\ result' = [result EXCEPT ![p] = "rolled_back"]
    /\ UNCHANGED <<nextPos, call, ins, callsLeft>>

\* The process dies, or loses its connection: the server rolls back.
Crash(p) ==
    /\ pc[p] # "idle"
    /\ EndTx(p, {})
    /\ result' = [result EXCEPT ![p] = "unknown"]
    /\ UNCHANGED <<nextPos, call, ins, callsLeft>>
-----------------------------------------------------------------------------
(***************************************************************************)
(* Append.  An empty batch returns at once and is not modelled.            *)
(***************************************************************************)
\* Without an ambient transaction Append begins its own.
AppendCall(p, c) ==
    /\ pc[p] = "idle" \/ (pc[p] = "fn" /\ (result[p] \in {"none", "ok"} \/ Swallow))
    /\ callsLeft > 0 /\ callsLeft' = callsLeft - 1
    /\ call' = [call EXCEPT ![p] = c] /\ ins' = [ins EXCEPT ![p] = 1]
    /\ pc' = [pc EXCEPT ![p] = "lock"] /\ result' = [result EXCEPT ![p] = "none"]
    /\ UNCHANGED <<events, nextPos, lock, ambient, rows, frozen, view, aborted>>

\* appendInTx returns: Append ends its own transaction, an ambient one is
\* left to its owner.
Return(p, res) ==
    /\ result' = [result EXCEPT ![p] = res]
    /\ pc' = [pc EXCEPT ![p] = IF ambient[p] THEN "fn"
                               ELSE IF res = "ok" THEN "commit" ELSE "rollback"]

\* A statement on an aborted postgres transaction fails without running.  On
\* mysql the wait for the lock row times out and leaves the transaction open.
StatementFails(p) ==
    /\ pc[p] = "lock"
    /\ aborted[p] \/ (Dialect = "mysql" /\ lock \notin {NoProc, p})
    /\ Return(p, "infra")
    /\ UNCHANGED <<events, nextPos, lock, ambient, call, ins, rows, frozen, view, aborted,
                   callsLeft>>

\* pg_advisory_xact_lock, or FOR UPDATE of the event_append_lock row: both
\* are held until the transaction ends, and both are re-entrant in it.
\* (Fault: appends are not serialized.)
LockShared(p) == TRUE
LockFree(p) == lock \in {NoProc, p}

TakeLock(p) ==
    /\ pc[p] = "lock" /\ ~aborted[p] /\ LockFree(p)
    /\ lock' = p
    /\ pc' = [pc EXCEPT ![p] = "count"]
    /\ UNCHANGED <<events, nextPos, ambient, call, ins, rows, frozen, view, aborted, result,
                   callsLeft>>

\* The events of the stream that the COUNT(*) of p's transaction finds.
\* (Fault: the expected version is not compared with it.)
CountIgnored(p, s) == call[p].expected
Count(p, s) == Cardinality({r \in Visible(p) : r.stream = s})

Contiguous(c) == \A i \in DOMAIN c.batch : c.batch[i].version = c.expected + i

\* The optimistic check against COUNT(*), then the check of the versions
\* the caller stamped on the events.
CheckVersion(p) ==
    /\ pc[p] = "count"
    /\ TakeView(p)
    /\ \/ /\ Count(p, call[p].stream) # call[p].expected
          /\ Return(p, "version_conflict")
       \/ /\ Count(p, call[p].stream) = call[p].expected /\ ~Contiguous(call[p])
          /\ Return(p, "validation")
       \/ /\ Count(p, call[p].stream) = call[p].expected /\ Contiguous(call[p])
          /\ pc' = [pc EXCEPT ![p] = "insert"] /\ UNCHANGED result
    /\ UNCHANGED <<events, nextPos, lock, ambient, call, ins, rows, aborted, callsLeft>>

\* The row the i-th event of a call becomes.  (Fault: numbered from zero.)
RowFromZero(c, i, pos) ==
    [id |-> c.batch[i].id, stream |-> c.stream, version |-> c.expected + i - 1,
     key |-> c.batch[i].key, pos |-> pos]
RowOf(c, i, pos) ==
    [id |-> c.batch[i].id, stream |-> c.stream, version |-> c.expected + i,
     key |-> c.batch[i].key, pos |-> pos]

\* INSERT of the next event.  Its position is drawn from the sequence now,
\* whatever becomes of the statement; a clash with a row of another open
\* transaction waits for that transaction.
Insert(p) ==
    /\ pc[p] = "insert"
    /\ LET r == RowOf(call[p], ins[p], nextPos)
           table == events \union rows[p]
       IN  /\ \A q \in Proc \ {p} : \A s \in rows[q] : ~Clash(r, s)
           /\ \/ /\ \E s \in table : Clash(r, s)
                 /\ Return(p, InsertError(r, table))
                 /\ aborted' = [aborted EXCEPT ![p] = (Dialect = "postgres")]
                 /\ UNCHANGED <<rows, ins>>
              \/ /\ \A s \in table : ~Clash(r, s)
                 /\ rows' = [rows EXCEPT ![p] = @ \union {r}]
                 /\ ins' = [ins EXCEPT ![p] = @ + 1]
                 /\ IF ins[p] = Len(call[p].batch)
                      THEN Return(p, "ok")
                      ELSE UNCHANGED <<pc, result>>
                 /\ UNCHANGED aborted
    /\ nextPos' = nextPos + 1
    /\ UNCHANGED <<events, lock, ambient, call, frozen, view, callsLeft>>

\* Append commits its own transaction, or learns nothing of the outcome.
CommitAppend(p) ==
    /\ pc[p] = "commit"
    /\ \/ EndTx(p, rows[p]) /\ UNCHANGED result
       \/ /\ \E R \in {rows[p], {}} : EndTx(p, R)
          /\ result' = [result EXCEPT ![p] = "unknown"]
    /\ UNCHANGED <<nextPos, call, ins, callsLeft>>

\* The deferred Rollback.  (Fault: what was inserted so far is committed.)
NoRollback(p) ==
    /\ pc[p] = "rollback"
    /\ EndTx(p, rows[p])
    /\ UNCHANGED <<nextPos, call, ins, result, callsLeft>>

RollbackAppend(p) ==
    /\ pc[p] = "rollback"
    /\ EndTx(p, {})
    /\ UNCHANGED <<nextPos, call, ins, result, callsLeft>>
-----------------------------------------------------------------------------
\* The steps a process takes by itself once it is inside a transaction.
Step(p) ==
    \/ StatementFails(p) \/ CheckVersion(p) \/ Insert(p)
    \/ CommitAppend(p) \/ RollbackAppend(p)
    \/ CommitTx(p) \/ RollbackTx(p)

Next == \E p \in Proc :
    \/ RunInTx(p) \/ ReadInTx(p) \/ Crash(p)
    \/ \E c \in Calls : AppendCall(p, c)
    \/ TakeLock(p) \/ Step(p)

Spec == Init /\ [][Next]_vars

\* A started statement ends and a callback returns; the lock is granted in
\* the order it was asked for, so a waiter is not passed over for ever, and
\* need not time out.
Fairness == \A p \in Proc :
    /\ WF_vars(Step(p) /\ (pc[p] = "lock" => aborted[p]))
    /\ SF_vars(TakeLock(p))

FairSpec == Spec /\ Fairness
-----------------------------------------------------------------------------
(***************************************************************************)
(* Properties                                                              *)
(***************************************************************************)
\* Every variable holds a value of its kind (postgres/eventstore.go 193-322).
TypeOK ==
    /\ events \in SUBSET Row /\ nextPos \in Nat \ {0} /\ lock \in Proc \union {NoProc}
    /\ pc \in [Proc -> Phases] /\ ambient \in [Proc -> BOOLEAN]
    /\ call \in [Proc -> Calls] /\ ins \in [Proc -> Nat \ {0}]
    /\ rows \in [Proc -> SUBSET Row]
    /\ frozen \in [Proc -> BOOLEAN] /\ view \in [Proc -> SUBSET Row]
    /\ aborted \in [Proc -> BOOLEAN] /\ result \in [Proc -> Results]
    /\ callsLeft \in Nat

Versions(s) == {r.version : r \in {q \in events : q.stream = s}}

\* A committed stream is numbered 1..n with no hole and no duplicate, in the
\* order readers follow, however appends with stale, future or misnumbered
\* versions interleave.
StreamsContiguous ==
    /\ \A s \in Stream :
          LET n == Cardinality({r \in events : r.stream = s}) IN Versions(s) = 1..n
    /\ \A r, s \in events : r.stream = s.stream => (r.version < s.version <=> r.pos < s.pos)

\* At most one contract is created with an idempotency key (migration 010), and
\* the loser of a race for the key is not told of a version conflict, which it
\* would retry: a creation meets one only if its stream was created.
OneContractPerKey ==
    /\ \A r, s \in events : r.key = s.key => r.key = NoKey \/ r = s
    /\ \A p \in Proc : result[p] = "version_conflict" /\ call[p].expected = 0 =>
          \E r \in events \union rows[p] : r.stream = call[p].stream

\* The row r holds the i-th event of the call as the caller stamped it.
Holds(r, c, i) ==
    /\ r.stream = c.stream /\ r.id = c.batch[i].id
    /\ r.version = c.batch[i].version /\ r.key = c.batch[i].key

\* The batch of a call, whatever positions its rows have, is in R.
BatchIn(c, R) == \A i \in DOMAIN c.batch : \E r \in R : Holds(r, c, i)

\* A batch is visible as a whole or not at all (Append, lines 198-214), and as a
\* whole once the Append, or the RunInTx it was last in, reported success.
BatchAtomic ==
    /\ \A r \in events : \E c \in Calls :
          /\ \E i \in DOMAIN c.batch : Holds(r, c, i)
          /\ BatchIn(c, events)
    /\ \A p \in Proc : (pc[p] = "idle" /\ result[p] = "ok") => BatchIn(call[p], events)

\* Commit order equals position order (issue #60): a commit never makes a row
\* visible below one that readers may already have passed.
Log == INSTANCE EventLog WITH consumed <- {}
ImplementsLog == Log!LogSpec

\* An append that waits for the lock gets it: every transaction that holds it
\* ends, and a rolled-back or crashed one releases it.
LockGranted == \A p \in Proc : pc[p] = "lock" ~> pc[p] # "lock"
=============================================================================
