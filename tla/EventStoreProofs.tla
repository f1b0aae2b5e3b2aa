-------------------------- MODULE EventStoreProofs --------------------------
(***************************************************************************)
(* Theorems about EventAppend, for every set of callers, streams, events   *)
(* and calls and both dialects: its types, the uniqueness of idempotency   *)
(* keys, that the transactions implement the log of EventLog, that every   *)
(* stream is numbered without gaps and that batches are all or nothing.    *)
(* And about the appends and a subscription composed, PgEventStore and the *)
(* polling loop of mysql alike: they keep all this, lose no event, and the *)
(* consumer receives the log in order.                                     *)
(*                                                                         *)
(* The argument for the log: rows pend only in the transaction that holds  *)
(* the append lock (LockHeld), so when it commits nobody else's rows pend; *)
(* every position in use is behind the sequence (PositionsDrawn), so the   *)
(* rows inserted under the lock are behind everything committed            *)
(* (PendingLast).                                                          *)
(*                                                                         *)
(* For the streams: a caller inserts at the version it counted, and the    *)
(* count may be stale; the unique index on (stream, version) refuses the   *)
(* insert then, so versions stay dense (Dense), also within a transaction  *)
(* that holds rows of its own.                                             *)
(*                                                                         *)
(* For the batches: what a transaction holds is the whole batch of each    *)
(* call that was told of success and the first rows of the one in          *)
(* progress (Batches).  On mysql a caller that swallows an error and       *)
(* commits breaks this: the statement that failed is the only one undone.  *)
(*                                                                         *)
(* For the composition: the append side's commits are the publications     *)
(* the subscription assumes, so each side keeps its invariant under the    *)
(* steps of both.                                                          *)
(***************************************************************************)
EXTENDS PgEventStore, FiniteSetTheorems, TLAPS

\* While a call runs, ins points into its batch (appendInTx, lines 280-320).
InsInBatch ==
    \A p \in Proc : pc[p] \in {"lock", "count", "insert"} => ins[p] <= Len(call[p].batch)

\* Rows pend only in the transaction that holds the append lock.
LockHeld ==
    \A p \in Proc :
        (rows[p] # {} \/ pc[p] \in {"count", "insert"}) => lock = p

\* Every position in use was drawn from the sequence.
PositionsDrawn ==
    /\ \A r \in events : r.pos < nextPos
    /\ \A p \in Proc : \A r \in rows[p] : r.pos < nextPos

\* Pending rows are behind every committed row.
PendingLast == \A p \in Proc : \A r \in rows[p], s \in events : s.pos < r.pos

\* The rows of a transaction are finitely many, with a position each.
PendingBatch == \A p \in Proc : IsFiniteSet(rows[p]) /\ Log!Distinct(rows[p])

IInv == /\ TypeOK /\ InsInBatch
        /\ LockHeld /\ PositionsDrawn /\ PendingLast /\ PendingBatch
-----------------------------------------------------------------------------
\* A read view is a set of rows.
LEMMA TakeViewType ==
    ASSUME TypeOK, NEW p \in Proc, TakeView(p)
    PROVE  frozen' \in [Proc -> BOOLEAN] /\ view' \in [Proc -> SUBSET Row]
<1>1. /\ frozen \in [Proc -> BOOLEAN] /\ view \in [Proc -> SUBSET Row]
      /\ events \in SUBSET Row /\ TRUE \in BOOLEAN
  BY DEF TypeOK
<1>2. CASE UNCHANGED <<frozen, view>>
  BY <1>1, <1>2
<1>3. CASE frozen' = [frozen EXCEPT ![p] = TRUE] /\ view' = [view EXCEPT ![p] = events]
  BY <1>1, <1>3
<1> QED
  BY <1>2, <1>3 DEF TakeView

\* A transaction that ends leaves every variable in its type, when the rows
\* it publishes are its own or none.
LEMMA EndTxType ==
    ASSUME TypeOK, NEW p \in Proc, NEW R \in {rows[p], {}}, EndTx(p, R),
           nextPos' = nextPos, call' = call, ins' = ins, callsLeft' = callsLeft,
           result' \in [Proc -> Results]
    PROVE  TypeOK'
BY DEF TypeOK, EndTx, LockAfter, Phases

\* What Append's return leaves of the control state of p.
ReturnOf(p) ==
    /\ pc' \in [Proc -> Phases] /\ result' \in [Proc -> Results]
    /\ pc'[p] \in {"fn", "commit", "rollback"}
    /\ \A q \in Proc \ {p} : pc'[q] = pc[q]

\* Append's return moves its process and its result, nothing else.
LEMMA ReturnType ==
    ASSUME TypeOK, NEW p \in Proc, NEW res \in Results, Return(p, res)
    PROVE  ReturnOf(p)
BY DEF TypeOK, Return, Phases, ReturnOf

\* The row inserted for an event of a call is a row of the table.
LEMMA RowOfType ==
    ASSUME NEW c \in Calls, NEW i \in Nat \ {0}, i <= Len(c.batch), NEW pos \in Nat \ {0}
    PROVE  RowOf(c, i, pos) \in Row
<1>1. c \in Call
  BY AppendAssumption
<1>2. c.batch[i] \in EventIn /\ c.stream \in Stream /\ c.expected \in Nat
  BY <1>1 DEF Call
<1> QED
  BY <1>2 DEF RowOf, Row, EventIn

\* The initial states satisfy the invariant.
LEMMA InitInv == Init => IInv
<1> SUFFICES ASSUME Init PROVE IInv
  OBVIOUS
<1>1. (CHOOSE c \in Calls : TRUE) \in Calls
  BY AppendAssumption
<1>2. TypeOK
  BY <1>1, AppendAssumption DEF Init, TypeOK, Phases, Results
<1> QED
  BY <1>2, FS_EmptySet DEF IInv, Init, InsInBatch, LockHeld, PositionsDrawn, PendingLast,
                           PendingBatch, Log!Distinct
-----------------------------------------------------------------------------
\* The end of a transaction keeps the invariant: only the holder of the lock
\* has rows to publish, and nobody else has rows pending when it does.
LEMMA EndTxInv ==
    ASSUME IInv, NEW p \in Proc, NEW R \in {rows[p], {}}, EndTx(p, R),
           nextPos' = nextPos, call' = call, ins' = ins, callsLeft' = callsLeft,
           result' \in [Proc -> Results]
    PROVE  IInv'
<1>1. TypeOK'
  BY EndTxType DEF IInv
<1>2. InsInBatch'
  BY DEF IInv, InsInBatch, EndTx, LockAfter, TypeOK
<1>3. LockHeld'
  BY DEF IInv, LockHeld, EndTx, LockAfter, TypeOK
<1>4. PositionsDrawn'
  BY DEF IInv, PositionsDrawn, EndTx, LockAfter, TypeOK
<1>5. PendingLast'
  <2> SUFFICES ASSUME NEW q \in Proc, NEW r \in rows'[q], NEW s \in events'
               PROVE  s.pos < r.pos
    BY DEF PendingLast
  <2>1. q # p /\ r \in rows[q]
    BY DEF EndTx, LockAfter, IInv, TypeOK
  <2>2. R = {}
    BY <2>1 DEF IInv, LockHeld
  <2> QED
    BY <2>1, <2>2 DEF EndTx, LockAfter, IInv, PendingLast
<1>6. PendingBatch'
  BY FS_EmptySet DEF IInv, PendingBatch, Log!Distinct, EndTx, LockAfter, TypeOK
<1> QED
  BY <1>1, <1>2, <1>3, <1>4, <1>5, <1>6 DEF IInv

\* A step that neither inserts nor ends a transaction keeps the invariant
\* when it leaves the lock alone or takes it while nobody holds it.
LEMMA OtherInv ==
    ASSUME IInv, TypeOK', InsInBatch',
           UNCHANGED <<events, nextPos, rows>>,
           NEW p \in Proc, \A q \in Proc \ {p} : pc'[q] = pc[q],
           \/ lock' = lock /\ (pc'[p] \in {"count", "insert"} => lock = p)
           \/ lock \in {NoProc, p} /\ lock' = p
    PROVE  IInv'
<1>1. LockHeld'
  BY AppendAssumption DEF IInv, LockHeld
<1>2. PositionsDrawn' /\ PendingLast' /\ PendingBatch'
  BY DEF IInv, PositionsDrawn, PendingLast, PendingBatch, Log!Distinct
<1> QED
  BY <1>1, <1>2 DEF IInv

\* The insert of an event puts its row behind everything else.
LEMMA InsertInv ==
    ASSUME IInv, NEW p \in Proc, Insert(p)
    PROVE  IInv'
<1> DEFINE r == RowOf(call[p], ins[p], nextPos)
<1>1. r \in Row /\ r.pos = nextPos /\ lock = p
  BY RowOfType DEF Insert, IInv, TypeOK, InsInBatch, LockHeld, RowOf
<1>2. /\ pc[p] = "insert" /\ nextPos' = nextPos + 1
      /\ UNCHANGED <<events, lock, ambient, call, frozen, view, callsLeft>>
  BY DEF Insert
<1>3. CASE /\ \E s \in events \union rows[p] : Clash(r, s)
           /\ Return(p, InsertError(r, events \union rows[p]))
           /\ aborted' = [aborted EXCEPT ![p] = (Dialect = "postgres")]
           /\ UNCHANGED <<rows, ins>>
  <2>1. InsertError(r, events \union rows[p]) \in Results
    BY DEF InsertError, Results, Errors
  <2>2. ReturnOf(p)
    BY <1>3, <2>1, ReturnType DEF IInv
  <2>3. UNCHANGED <<rows, ins>>
    BY <1>3
  <2>4. aborted' \in [Proc -> BOOLEAN]
    <3>1. (Dialect = "postgres") \in BOOLEAN
      OBVIOUS
    <3> QED
      BY <1>3, <3>1, Zenon DEF IInv, TypeOK
  <2>5. TypeOK' /\ InsInBatch'
    BY <1>2, <2>2, <2>3, <2>4 DEF ReturnOf, IInv, TypeOK, InsInBatch
  <2>6. LockHeld' /\ PositionsDrawn' /\ PendingLast'
    BY <1>1, <1>2, <2>2, <2>3 DEF ReturnOf, IInv, TypeOK, LockHeld, PositionsDrawn,
                                  PendingLast, Row
  <2>7. PendingBatch'
    BY <2>3 DEF IInv, PendingBatch, Log!Distinct
  <2> QED
    BY <2>5, <2>6, <2>7 DEF IInv
<1>4. CASE /\ rows' = [rows EXCEPT ![p] = @ \union {r}]
           /\ ins' = [ins EXCEPT ![p] = @ + 1]
           /\ IF ins[p] = Len(call[p].batch) THEN Return(p, "ok")
                                             ELSE UNCHANGED <<pc, result>>
           /\ UNCHANGED aborted
  <2>1. /\ pc' \in [Proc -> Phases] /\ result' \in [Proc -> Results]
        /\ \A q \in Proc \ {p} : pc'[q] = pc[q]
        /\ pc'[p] \in {"lock", "count", "insert"} => ins[p] # Len(call[p].batch)
    <3>1. CASE ins[p] = Len(call[p].batch)
      BY <1>4, <3>1, ReturnType DEF IInv, Results, ReturnOf
    <3>2. CASE ins[p] # Len(call[p].batch)
      BY <1>4, <3>2 DEF IInv, TypeOK
    <3> QED
      BY <3>1, <3>2
  <2>2. TypeOK'
    <3> HIDE DEF r
    <3>1. rows' \in [Proc -> SUBSET Row]
      BY <1>1, <1>4 DEF IInv, TypeOK
    <3>2. ins' \in [Proc -> Nat \ {0}] /\ aborted' = aborted
      BY <1>4 DEF IInv, TypeOK
    <3> QED
      BY <1>2, <2>1, <3>1, <3>2 DEF IInv, TypeOK
  <2>3. call[p] \in Call
    BY AppendAssumption DEF IInv, TypeOK
  <2>4. InsInBatch'
    BY <1>2, <1>4, <2>1, <2>3 DEF IInv, TypeOK, InsInBatch, Call
  <2>5. LockHeld'
    BY <1>1, <1>2, <1>4, <2>1 DEF IInv, TypeOK, LockHeld
  <2>6. \A q \in Proc : \A t \in rows'[q] : t \in rows[q] \/ t = r
    <3> HIDE DEF r
    <3> QED
      BY <1>4 DEF IInv, TypeOK
  <2>7. PositionsDrawn'
    <3> HIDE DEF r
    <3> QED
      BY <1>1, <1>2, <2>6 DEF IInv, TypeOK, PositionsDrawn, Row
  <2>8. PendingLast'
    <3> HIDE DEF r
    <3> QED
      BY <1>1, <1>2, <2>6 DEF IInv, PositionsDrawn, PendingLast
  <2>9. PendingBatch'
    <3> HIDE DEF r
    <3> SUFFICES ASSUME NEW q \in Proc
                 PROVE  IsFiniteSet(rows'[q]) /\ Log!Distinct(rows'[q])
      BY DEF PendingBatch, Log!Distinct
    <3>1. rows'[q] = rows[q] \/ rows'[q] = rows[q] \union {r}
      BY <1>4 DEF IInv, TypeOK
    <3>2. IsFiniteSet(rows[q]) /\ IsFiniteSet(rows[q] \union {r})
      BY FS_AddElement DEF IInv, PendingBatch
    <3>3. \A t \in rows[q] : t.pos # r.pos
      BY <1>1 DEF IInv, PositionsDrawn, TypeOK, Row
    <3> QED
      BY <3>1, <3>2, <3>3 DEF IInv, PendingBatch, Log!Distinct
  <2> QED
    BY <2>2, <2>4, <2>5, <2>7, <2>8, <2>9 DEF IInv
<1> QED
  BY <1>3, <1>4 DEF Insert
-----------------------------------------------------------------------------
\* Every step of every process keeps the invariant.
LEMMA NextInv == IInv /\ [Next]_vars => IInv'
<1> SUFFICES ASSUME IInv, [Next]_vars PROVE IInv'
  OBVIOUS
<1>1. CASE UNCHANGED vars
  BY <1>1 DEF vars, txVars, IInv, TypeOK, InsInBatch, LockHeld, PositionsDrawn, PendingLast,
              PendingBatch, Log!Distinct
<1>2. ASSUME NEW p \in Proc, RunInTx(p)
      PROVE  IInv'
  <2>1. TypeOK' /\ InsInBatch'
    BY <1>2 DEF IInv, TypeOK, InsInBatch, RunInTx, Phases, Results
  <2> QED
    BY <1>2, <2>1, OtherInv DEF RunInTx, IInv, TypeOK
<1>3. ASSUME NEW p \in Proc, ReadInTx(p)
      PROVE  IInv'
  <2>1. TypeOK' /\ InsInBatch'
    BY <1>3 DEF IInv, TypeOK, InsInBatch, ReadInTx, TakeView
  <2> QED
    BY <1>3, <2>1, OtherInv DEF ReadInTx, IInv, TypeOK
<1>4. ASSUME NEW p \in Proc, Crash(p)
      PROVE  IInv'
  BY <1>4, EndTxInv DEF Crash, IInv, TypeOK, Results
<1>5. ASSUME NEW p \in Proc, NEW c \in Calls, AppendCall(p, c)
      PROVE  IInv'
  <2>1. Len(c.batch) > 0 /\ c \in Call
    BY AppendAssumption
  <2>2. TypeOK'
    BY <1>5 DEF IInv, TypeOK, AppendCall, Phases, Results
  <2>3. InsInBatch'
    BY <1>5, <2>1 DEF IInv, TypeOK, InsInBatch, AppendCall, Call
  <2> QED
    BY <1>5, <2>2, <2>3, OtherInv DEF AppendCall, IInv, TypeOK
<1>6. ASSUME NEW p \in Proc, TakeLock(p)
      PROVE  IInv'
  <2>1. TypeOK' /\ InsInBatch'
    BY <1>6 DEF IInv, TypeOK, InsInBatch, TakeLock, LockFree, Phases
  <2> QED
    BY <1>6, <2>1, OtherInv DEF TakeLock, LockFree, IInv, TypeOK
<1>7. ASSUME NEW p \in Proc, StatementFails(p)
      PROVE  IInv'
  <2>1. ReturnOf(p)
    BY <1>7, ReturnType DEF StatementFails, IInv, Results, Errors
  <2>2. TypeOK' /\ InsInBatch'
    BY <1>7, <2>1 DEF IInv, TypeOK, InsInBatch, StatementFails, ReturnOf
  <2> QED
    BY <1>7, <2>1, <2>2, OtherInv DEF StatementFails, IInv, TypeOK, ReturnOf
<1>8. ASSUME NEW p \in Proc, CheckVersion(p)
      PROVE  IInv'
  <2>1. /\ frozen' \in [Proc -> BOOLEAN] /\ view' \in [Proc -> SUBSET Row]
    BY <1>8, TakeViewType DEF CheckVersion, IInv
  <2>2. /\ pc' \in [Proc -> Phases] /\ result' \in [Proc -> Results]
        /\ pc'[p] # "lock" /\ \A q \in Proc \ {p} : pc'[q] = pc[q]
    <3>1. CASE Return(p, "version_conflict") \/ Return(p, "validation")
      BY <3>1, ReturnType DEF IInv, Results, Errors, ReturnOf
    <3>2. CASE pc' = [pc EXCEPT ![p] = "insert"] /\ UNCHANGED result
      BY <3>2 DEF IInv, TypeOK, Phases
    <3> QED
      BY <1>8, <3>1, <3>2 DEF CheckVersion
  <2>3. /\ pc[p] = "count"
        /\ UNCHANGED <<events, nextPos, lock, ambient, call, ins, rows, aborted, callsLeft>>
    BY <1>8 DEF CheckVersion
  <2>4. TypeOK' /\ InsInBatch'
    BY <2>1, <2>2, <2>3 DEF IInv, TypeOK, InsInBatch
  <2> QED
    BY <2>2, <2>3, <2>4, OtherInv DEF IInv, LockHeld
<1>9. ASSUME NEW p \in Proc, CommitAppend(p)
      PROVE  IInv'
  BY <1>9, EndTxInv DEF CommitAppend, IInv, TypeOK, Results
<1>10. ASSUME NEW p \in Proc, RollbackAppend(p)
       PROVE  IInv'
  BY <1>10, EndTxInv DEF RollbackAppend, IInv, TypeOK
<1>11. ASSUME NEW p \in Proc, CommitTx(p)
       PROVE  IInv'
  BY <1>11, EndTxInv DEF CommitTx, IInv, TypeOK, Results, Errors
<1>12. ASSUME NEW p \in Proc, RollbackTx(p)
       PROVE  IInv'
  BY <1>12, EndTxInv DEF RollbackTx, IInv, TypeOK, Results, Errors
<1> QED
  BY <1>1, <1>2, <1>3, <1>4, <1>5, <1>6, <1>7, <1>8, <1>9, <1>10, <1>11, <1>12, InsertInv
     DEF Next, Step

\* The invariant holds in every reachable state.
THEOREM Invariance == Spec => []IInv
BY InitInv, NextInv, PTL DEF Spec

\* Every variable of the appends holds a value of its kind, always.
THEOREM TypeCorrect == Spec => []TypeOK
<1>1. IInv => TypeOK
  BY DEF IInv
<1> QED
  BY Invariance, <1>1, PTL
-----------------------------------------------------------------------------
(***************************************************************************)
(* The log                                                                 *)
(***************************************************************************)
\* The end of a transaction publishes rows behind all others, or nothing.
LEMMA EndTxPublishes ==
    ASSUME IInv, NEW p \in Proc, NEW R \in {rows[p], {}}, EndTx(p, R)
    PROVE  events' = events \/ Log!Publish(events' \ events)
<1> SUFFICES ASSUME events' # events PROVE Log!Publish(events' \ events)
  OBVIOUS
<1>1. events' = events \union R /\ R = rows[p]
  BY DEF EndTx
<1>2. \A r \in R : r \in Row /\ \A s \in events : s.pos < r.pos
  BY <1>1 DEF IInv, TypeOK, PendingLast
<1>3. IsFiniteSet(R) /\ Log!Distinct(R)
  BY <1>1 DEF IInv, PendingBatch
<1>4. events' \ events = R
  <2>1. R \intersect events = {}
    BY <1>2 DEF Row
  <2> QED
    BY <1>1, <2>1
<1>5. R # {} /\ R \subseteq Row /\ Log!Above(R, events)
  BY <1>1, <1>2 DEF Log!Above
<1>6. Log!IsFiniteSet(R)
  BY <1>3 DEF IsFiniteSet, Log!IsFiniteSet
<1>7. Log!Publish(R)
  BY <1>1, <1>3, <1>5, <1>6 DEF Log!Publish
<1> QED
  BY <1>4, <1>7, Zenon

\* A step changes the committed rows by the end of a transaction only.
LEMMA StepPublishes ==
    ASSUME IInv, [Next]_vars
    PROVE  events' = events \/ Log!Publish(events' \ events)
<1>1. CASE UNCHANGED vars
  BY <1>1 DEF vars
<1>2. ASSUME NEW p \in Proc,
             Crash(p) \/ CommitAppend(p) \/ RollbackAppend(p) \/ CommitTx(p) \/ RollbackTx(p)
      PROVE  \E R \in {rows[p], {}} : EndTx(p, R)
  BY <1>2 DEF Crash, CommitAppend, RollbackAppend, CommitTx, RollbackTx
<1>3. ASSUME NEW p \in Proc,
             \/ RunInTx(p) \/ ReadInTx(p) \/ TakeLock(p) \/ StatementFails(p)
             \/ CheckVersion(p) \/ Insert(p) \/ \E c \in Calls : AppendCall(p, c)
      PROVE  events' = events
  BY <1>3 DEF RunInTx, ReadInTx, TakeLock, StatementFails, CheckVersion, Insert, AppendCall
<1> QED
  BY <1>1, <1>2, <1>3, EndTxPublishes DEF Next, Step

\* Transactions that append implement the log its readers rely on: whatever
\* the interleaving, rollbacks and crashes, rows become visible in the order
\* of global_position (issue #60).
THEOREM AppendImplementsLog == Spec => ImplementsLog
<1>1. Init => Log!LogInit
  BY DEF Init, Log!LogInit
<1>2. IInv /\ [Next]_vars => [Log!LogNext]_<<events, {}>>
  BY StepPublishes DEF Log!LogNext
<1> QED
  BY <1>1, <1>2, Invariance, PTL DEF Spec, ImplementsLog, Log!LogSpec, Log!logVars
-----------------------------------------------------------------------------
(***************************************************************************)
(* The unique indexes                                                      *)
(***************************************************************************)
\* They hold over the committed rows and those of every open transaction.
AllRows == events \union UNION {rows[p] : p \in Proc}
NoClash == \A r, s \in AllRows : Clash(r, s) => r = s

\* A step that brings no row keeps them.
LEMMA NoNewRows ==
    ASSUME NoClash, AllRows' \subseteq AllRows
    PROVE  NoClash'
BY DEF NoClash, Clash, SameId, SameVersion, SameKey

\* The end of a transaction brings none: it moves or drops rows.
LEMMA EndTxRows ==
    ASSUME TypeOK, NEW p \in Proc, NEW R \in {rows[p], {}}, EndTx(p, R)
    PROVE  AllRows' \subseteq AllRows
BY DEF AllRows, EndTx, LockAfter, TypeOK

\* The insert of an event checks its row against all others.
LEMMA InsertNoClash ==
    ASSUME TypeOK, NoClash, NEW p \in Proc, Insert(p)
    PROVE  NoClash'
<1> DEFINE r == RowOf(call[p], ins[p], nextPos)
<1>1. events' = events /\ \A q \in Proc \ {p} : \A s \in rows[q] : ~Clash(r, s)
  BY DEF Insert
<1>2. CASE rows' = rows
  BY <1>1, <1>2, NoNewRows DEF AllRows
<1>3. CASE /\ \A s \in events \union rows[p] : ~Clash(r, s)
           /\ rows' = [rows EXCEPT ![p] = @ \union {r}]
  <2> HIDE DEF r
  <2>1. \A s \in AllRows : ~Clash(r, s)
    BY <1>1, <1>3 DEF AllRows
  <2>2. AllRows' \subseteq AllRows \union {r}
    BY <1>1, <1>3 DEF AllRows, TypeOK
  <2>3. \A s, t : Clash(s, t) <=> Clash(t, s)
    BY DEF Clash, SameId, SameVersion, SameKey
  <2> SUFFICES ASSUME NEW s \in AllRows', NEW t \in AllRows', Clash(s, t)
               PROVE  s = t
    BY DEF NoClash, Clash, SameId, SameVersion, SameKey
  <2> QED
    BY <2>1, <2>2, <2>3 DEF NoClash
<1> QED
  BY <1>2, <1>3 DEF Insert

\* No two events share an id, a (stream, version) or an idempotency key, not
\* even while their transactions are open.
THEOREM UniqueRows == Spec => []NoClash
<1>1. Init => NoClash
  BY DEF Init, NoClash, AllRows
<1>2. TypeOK /\ NoClash /\ [Next]_vars => NoClash'
  <2> SUFFICES ASSUME TypeOK, NoClash, [Next]_vars PROVE NoClash'
    OBVIOUS
  <2>1. CASE UNCHANGED vars
    BY <2>1, NoNewRows DEF vars, txVars, AllRows
  <2>2. ASSUME NEW p \in Proc,
               \/ Crash(p) \/ CommitAppend(p) \/ RollbackAppend(p) \/ CommitTx(p)
               \/ RollbackTx(p)
        PROVE  NoClash'
    <3>1. \E R \in {rows[p], {}} : EndTx(p, R)
      BY <2>2 DEF Crash, CommitAppend, RollbackAppend, CommitTx, RollbackTx
    <3> QED
      BY <3>1, EndTxRows, NoNewRows
  <2>3. ASSUME NEW p \in Proc,
               \/ RunInTx(p) \/ ReadInTx(p) \/ TakeLock(p) \/ StatementFails(p)
               \/ CheckVersion(p) \/ \E c \in Calls : AppendCall(p, c)
        PROVE  NoClash'
    <3>1. events' = events /\ rows' = rows
      BY <2>3 DEF RunInTx, ReadInTx, TakeLock, StatementFails, CheckVersion, AppendCall
    <3> QED
      BY <3>1, NoNewRows DEF AllRows
  <2> QED
    BY <2>1, <2>2, <2>3, InsertNoClash DEF Next, Step
<1> QED
  BY <1>1, <1>2, TypeCorrect, PTL DEF Spec

-----------------------------------------------------------------------------
(***************************************************************************)
(* The numbering of streams                                                *)
(***************************************************************************)
\* Every row of T has the rows of lower versions of its stream before it.
Dense(T) ==
    \A r \in T : \A v \in 1..(r.version - 1) :
        \E q \in T : q.stream = r.stream /\ q.version = v /\ q.pos < r.pos

\* The transaction of p sees all versions that its next insert builds on: it
\* counted them (lines 262-272) and inserted the rest.
Reached(p) ==
    \A v \in 1..(call[p].expected + ins[p] - 1) :
        \E q \in Visible(p) : q.stream = call[p].stream /\ q.version = v

Counted(p) == /\ pc[p] \in {"lock", "count"} => ins[p] = 1
              /\ pc[p] = "insert" => Reached(p)

Numbered == /\ IsFiniteSet(events) /\ Dense(events)
            /\ \A p \in Proc : /\ view[p] \subseteq events /\ Dense(Visible(p))
                               /\ Counted(p)

LEMMA DenseUnion ==
    ASSUME NEW S, NEW T, Dense(S), Dense(T)
    PROVE  Dense(S \union T)
BY DEF Dense

LEMMA RowFields ==
    ASSUME NEW r \in Row
    PROVE  /\ r.version \in Nat \ {0} /\ r.pos \in Nat \ {0} /\ r.stream \in Stream
BY DEF Row

\* A dense set of rows with distinct versions is numbered 1..n, n its size.
LEMMA DenseCount ==
    ASSUME NEW T \in SUBSET Row, NEW s, IsFiniteSet(T), Dense(T),
           \A q, r \in T : SameVersion(q, r) => q = r
    PROVE  LET S == {r \in T : r.stream = s}
           IN  /\ Cardinality(S) \in Nat
               /\ {r.version : r \in S} = 1..Cardinality(S)
<1> DEFINE S == {r \in T : r.stream = s}
           V == {r.version : r \in S}
           f == [r \in S |-> r.version]
<1>1. IsFiniteSet(S)
  BY FS_Subset
<1>2. f \in Bijection(S, V)
  <2>1. f \in Surjection(S, V)
    BY DEF Surjection
  <2>2. f \in Injection(S, V)
    BY DEF Injection, IsInjective, SameVersion
  <2> QED
    BY <2>1, <2>2 DEF Bijection
<1>3. IsFiniteSet(V) /\ Cardinality(V) = Cardinality(S) /\ Cardinality(S) \in Nat
  BY <1>1, <1>2, FS_Bijection, FS_CardinalityType DEF ExistsBijection
<1>4. \A v \in V : v \in Nat \ {0} /\ 1..v \subseteq V
  <2> SUFFICES ASSUME NEW r \in S, NEW v \in 1..r.version
               PROVE  r.version \in Nat \ {0} /\ v \in V
    BY RowFields
  <2>1. r.version \in Nat \ {0}
    BY RowFields
  <2>2. CASE v = r.version
    BY <2>1, <2>2
  <2>3. CASE v # r.version
    <3>1. v \in 1..(r.version - 1)
      BY <2>1, <2>3
    <3>2. PICK q \in T : q.stream = r.stream /\ q.version = v
      BY <3>1 DEF Dense
    <3> QED
      BY <2>1, <3>2
  <2> QED
    BY <2>2, <2>3
<1> DEFINE n == Cardinality(S)
<1>5. V \subseteq 1..n
  <2> SUFFICES ASSUME NEW v \in V PROVE v <= n /\ v \in Nat \ {0}
    BY <1>3, <1>4
  <2>1. v \in Nat \ {0} /\ 1..v \subseteq V
    BY <1>4
  <2>2. Cardinality(1..v) = v
    BY <2>1, FS_Interval
  <2>3. Cardinality(1..v) <= n
    <3> HIDE DEF V, n, S
    <3>1. Cardinality(1..v) <= Cardinality(V)
      BY <1>3, <2>1, FS_Subset
    <3> QED
      BY <1>3, <3>1 DEF n
  <2> QED
    BY <2>1, <2>2, <2>3
<1>6. V = 1..n
  <2> HIDE DEF V, S
  <2>1. IsFiniteSet(1..n) /\ Cardinality(1..n) = n
    BY <1>3, FS_Interval
  <2> QED
    BY <1>3, <1>5, <2>1, FS_Subset
<1> QED
  BY <1>3, <1>6

\* The rows visible to p when nobody inserts and no transaction ends.
LEMMA QuietNumbered ==
    ASSUME TypeOK, Numbered, NEW p \in Proc, UNCHANGED <<events, rows>>,
           \A q \in Proc : Visible(q)' = Visible(q) /\ view'[q] \subseteq events,
           \A q \in Proc \ {p} : pc'[q] = pc[q] /\ call'[q] = call[q] /\ ins'[q] = ins[q],
           Counted(p)'
    PROVE  Numbered'
<1>1. \A q \in Proc : Dense(Visible(q))'
  BY DEF Numbered, Dense
<1>2. ASSUME NEW q \in Proc \ {p} PROVE Counted(q)'
  <2>1. /\ pc'[q] = pc[q] /\ call'[q] = call[q] /\ ins'[q] = ins[q]
        /\ Visible(q)' = Visible(q)
    OBVIOUS
  <2>2. Counted(q)
    BY DEF Numbered
  <2> QED
    BY <2>1, <2>2 DEF Counted, Reached
<1>3. IsFiniteSet(events)' /\ Dense(events)'
  BY DEF Numbered, Dense
<1> QED
  BY <1>1, <1>2, <1>3 DEF Numbered

\* The end of a transaction shows its rows to all, and they are dense together
\* with what was committed.
LEMMA EndTxNumbered ==
    ASSUME IInv, Numbered, NEW p \in Proc, NEW R \in {rows[p], {}}, EndTx(p, R),
           UNCHANGED <<call, ins>>
    PROVE  Numbered'
<1>1. Dense(events \union R)
  <2>1. Dense(events \union Visible(p))
    BY DenseUnion DEF Numbered
  <2>2. R = {} \/ events \union R = events \union Visible(p)
    BY DEF Numbered, Visible
  <2> QED
    BY <2>1, <2>2 DEF Numbered
<1>2. events' = events \union R /\ IsFiniteSet(events \union R)
  BY FS_Union, FS_EmptySet DEF EndTx, Numbered, IInv, PendingBatch
<1>3. /\ rows'[p] = {} /\ frozen'[p] = FALSE /\ view'[p] = {} /\ pc'[p] = "idle"
      /\ \A q \in Proc \ {p} : /\ rows'[q] = rows[q] /\ frozen'[q] = frozen[q]
                               /\ view'[q] = view[q] /\ pc'[q] = pc[q]
  BY DEF EndTx, IInv, TypeOK
<1>4. Visible(p)' = events \union R
  BY <1>2, <1>3 DEF Visible
<1>5. ASSUME NEW q \in Proc, q # p
      PROVE  Visible(q)' = Visible(q) \/ Visible(q)' = Visible(q) \union (events \union R)
  BY <1>2, <1>3, <1>5 DEF Visible
<1>6. ASSUME NEW q \in Proc PROVE Dense(Visible(q)')
  <2>1. CASE q = p
    BY <1>1, <1>4, <2>1
  <2>2. CASE q # p
    BY <1>1, <1>5, <2>2, DenseUnion DEF Numbered
  <2> QED
    BY <2>1, <2>2
<1>7. ASSUME NEW q \in Proc PROVE Counted(q)'
  <2>1. CASE q = p
    BY <1>3, <2>1 DEF Counted
  <2>2. CASE q # p
    <3>1. Visible(q) \subseteq Visible(q)'
      BY <1>5, <2>2
    <3> QED
      BY <1>3, <2>2, <3>1 DEF Numbered, Counted, Reached
  <2> QED
    BY <2>1, <2>2
<1>8. \A q \in Proc : view'[q] \subseteq events'
  BY <1>2, <1>3 DEF Numbered
<1>9. \A q \in Proc : Dense(Visible(q))'
  BY <1>6 DEF Dense
<1>10. IsFiniteSet(events)' /\ Dense(events)'
  BY <1>1, <1>2 DEF Dense
<1> QED
  BY <1>7, <1>8, <1>9, <1>10 DEF Numbered

\* The insert of an event puts its row on top of the versions that were
\* reached, behind them in position.
LEMMA InsertNumbered ==
    ASSUME IInv, Numbered, NEW p \in Proc, Insert(p)
    PROVE  Numbered'
<1> DEFINE r == RowOf(call[p], ins[p], nextPos)
<1>1. /\ pc[p] = "insert" /\ UNCHANGED <<events, call, frozen, view>>
  BY DEF Insert
<1>2. CASE /\ Return(p, InsertError(r, events \union rows[p])) /\ UNCHANGED <<rows, ins>>
  <2>1. InsertError(r, events \union rows[p]) \in Results
    BY DEF InsertError, Results, Errors
  <2>2. ReturnOf(p)
    BY <1>2, <2>1, ReturnType DEF IInv
  <2>3. \A q \in Proc : Visible(q)' = Visible(q) /\ view'[q] \subseteq events
    BY <1>1, <1>2 DEF Visible, Numbered
  <2>4. Counted(p)'
    BY <2>2 DEF Counted, ReturnOf
  <2> QED
    BY <1>1, <1>2, <2>2, <2>3, <2>4, QuietNumbered DEF IInv, ReturnOf
<1>3. CASE /\ rows' = [rows EXCEPT ![p] = @ \union {r}]
           /\ ins' = [ins EXCEPT ![p] = @ + 1]
           /\ IF ins[p] = Len(call[p].batch) THEN Return(p, "ok")
                                             ELSE UNCHANGED <<pc, result>>
  <2>1. /\ r \in Row /\ r.pos = nextPos /\ r.stream = call[p].stream
        /\ r.version = call[p].expected + ins[p]
    BY <1>1, RowOfType DEF IInv, TypeOK, InsInBatch, RowOf
  <2>2. /\ pc'[p] \in {"insert", "fn", "commit", "rollback"}
        /\ \A q \in Proc \ {p} : pc'[q] = pc[q]
    <3>1. CASE ins[p] = Len(call[p].batch)
      BY <1>3, <3>1, ReturnType DEF IInv, Results, ReturnOf
    <3>2. CASE ins[p] # Len(call[p].batch)
      BY <1>1, <1>3, <3>2 DEF IInv, TypeOK
    <3> QED
      BY <3>1, <3>2
  <2> HIDE DEF r
  <2>3. /\ rows'[p] = rows[p] \union {r} /\ ins'[p] = ins[p] + 1
        /\ \A q \in Proc \ {p} : rows'[q] = rows[q] /\ ins'[q] = ins[q]
    BY <1>3 DEF IInv, TypeOK
  <2>4. Visible(p)' = Visible(p) \union {r}
    BY <1>1, <2>3 DEF Visible
  <2>5. \A q \in Proc \ {p} : Visible(q)' = Visible(q)
    BY <1>1, <2>3 DEF Visible
  <2>6. call[p] \in Call /\ call[p].expected \in Nat /\ ins[p] \in Nat
    BY AppendAssumption DEF IInv, TypeOK, Call
  <2>7. \A q \in Visible(p) : q.pos < nextPos
    BY DEF IInv, PositionsDrawn, Visible, Numbered
  <2>8. Reached(p)
    BY <1>1 DEF Numbered, Counted
  <2>9. Dense(Visible(p) \union {r})
    <3>1. \A v \in 1..(r.version - 1) :
            \E q \in Visible(p) : q.stream = r.stream /\ q.version = v /\ q.pos < r.pos
      <4> SUFFICES ASSUME NEW v \in 1..(r.version - 1)
                   PROVE  \E q \in Visible(p) :
                             q.stream = r.stream /\ q.version = v /\ q.pos < r.pos
        OBVIOUS
      <4>1. v \in 1..(call[p].expected + ins[p] - 1)
        BY <2>1, <2>6
      <4>2. PICK q \in Visible(p) : q.stream = call[p].stream /\ q.version = v
        BY <2>8, <4>1 DEF Reached
      <4> QED
        BY <2>1, <2>7, <4>2
    <3> QED
      BY <3>1 DEF Numbered, Dense
  <2>10. Reached(p)'
    <3> SUFFICES ASSUME NEW v \in 1..(call[p].expected + ins'[p] - 1)
                 PROVE  \E q \in Visible(p)' : q.stream = call[p].stream /\ q.version = v
      BY <1>1 DEF Reached
    <3>1. CASE v = call[p].expected + ins[p]
      BY <2>1, <2>4, <3>1
    <3>2. CASE v # call[p].expected + ins[p]
      <4>1. v \in 1..(call[p].expected + ins[p] - 1)
        BY <2>3, <2>6, <3>2
      <4> QED
        BY <2>4, <2>8, <4>1 DEF Reached
    <3> QED
      BY <3>1, <3>2
  <2>11. Counted(p)'
    BY <2>2, <2>10 DEF Counted
  <2>12. \A q \in Proc \ {p} : Counted(q)'
    BY <1>1, <2>2, <2>3, <2>5 DEF Numbered, Counted, Reached
  <2>13. \A q \in Proc : Dense(Visible(q))' /\ view'[q] \subseteq events'
    <3>1. \A q \in Proc : Dense(Visible(q)')
      BY <2>4, <2>5, <2>9 DEF Numbered
    <3> QED
      BY <1>1, <3>1 DEF Dense, Numbered
  <2>14. IsFiniteSet(events)' /\ Dense(events)'
    BY <1>1 DEF Numbered, Dense
  <2> QED
    BY <2>11, <2>12, <2>13, <2>14 DEF Numbered
<1> QED
  BY <1>2, <1>3 DEF Insert

\* Counting says which versions are there.
LEMMA CheckNumbered ==
    ASSUME IInv, NoClash, Numbered, NEW p \in Proc, CheckVersion(p)
    PROVE  Numbered'
<1>1. /\ pc[p] = "count" /\ ins[p] = 1
      /\ UNCHANGED <<events, rows, call, ins>>
  BY DEF CheckVersion, Numbered, Counted
<1>2. ASSUME NEW q \in Proc PROVE Visible(q)' = Visible(q) /\ view'[q] \subseteq events
  <2>1. view[q] \subseteq events
    BY DEF Numbered
  <2>2. CASE UNCHANGED <<frozen, view>>
    BY <1>1, <2>1, <2>2 DEF Visible
  <2>3. CASE /\ ~frozen[p] /\ frozen' = [frozen EXCEPT ![p] = TRUE]
             /\ view' = [view EXCEPT ![p] = events]
    <3>1. frozen \in [Proc -> BOOLEAN] /\ DOMAIN view = Proc
      BY DEF IInv, TypeOK
    <3>2. CASE q = p
      BY <1>1, <2>3, <3>1, <3>2 DEF Visible
    <3>3. CASE q # p
      BY <1>1, <2>1, <2>3, <3>1, <3>3 DEF Visible
    <3> QED
      BY <3>2, <3>3
  <2> QED
    BY <2>2, <2>3 DEF CheckVersion, TakeView
<1>3. /\ pc'[p] \in {"fn", "commit", "rollback", "insert"}
      /\ \A q \in Proc \ {p} : pc'[q] = pc[q]
  <2>1. CASE Return(p, "version_conflict") \/ Return(p, "validation")
    BY <2>1, ReturnType DEF IInv, Results, Errors, ReturnOf
  <2>2. CASE pc' = [pc EXCEPT ![p] = "insert"]
    BY <2>2 DEF IInv, TypeOK
  <2> QED
    BY <2>1, <2>2 DEF CheckVersion
<1>4. ASSUME pc'[p] = "insert" PROVE Reached(p)
  <2>1. Count(p, call[p].stream) = call[p].expected
    <3>1. ~Return(p, "version_conflict")
      BY <1>4, ReturnType DEF IInv, Results, Errors, ReturnOf
    <3> QED
      BY <3>1 DEF CheckVersion
  <2>2. Visible(p) \in SUBSET Row /\ Visible(p) \subseteq AllRows /\ IsFiniteSet(Visible(p))
    <3>1. IsFiniteSet(view[p]) /\ IsFiniteSet(events) /\ IsFiniteSet(rows[p])
      BY FS_Subset DEF Numbered, IInv, PendingBatch
    <3>2. IsFiniteSet(view[p] \union rows[p]) /\ IsFiniteSet(events \union rows[p])
      BY <3>1, FS_Union
    <3> QED
      BY <3>2 DEF Visible, Numbered, IInv, TypeOK, AllRows
  <2>3. Dense(Visible(p)) /\ \A q, r \in Visible(p) : SameVersion(q, r) => q = r
    BY <2>2 DEF Numbered, NoClash, Clash
  <2>4. {r.version : r \in {q \in Visible(p) : q.stream = call[p].stream}}
          = 1..call[p].expected
    <3> DEFINE S == {q \in Visible(p) : q.stream = call[p].stream}
    <3>1. {r.version : r \in S} = 1..Cardinality(S)
      BY <2>2, <2>3, DenseCount
    <3>2. Cardinality(S) = call[p].expected
      BY <2>1 DEF Count
    <3> QED
      BY <3>1, <3>2
  <2>5. call[p].expected + ins[p] - 1 = call[p].expected
    BY <1>1, AppendAssumption DEF IInv, TypeOK, Call
  <2> SUFFICES ASSUME NEW v \in 1..call[p].expected
               PROVE  \E q \in Visible(p) : q.stream = call[p].stream /\ q.version = v
    BY <2>5 DEF Reached
  <2> QED
    BY <2>4
<1>5. Counted(p)'
  BY <1>1, <1>2, <1>3, <1>4 DEF Counted, Reached
<1> QED
  BY <1>1, <1>2, <1>3, <1>5, QuietNumbered DEF IInv

\* Every step of every process keeps the numbering.
LEMMA NextNumbered ==
    ASSUME IInv, NoClash, Numbered, [Next]_vars
    PROVE  Numbered'
<1>1. CASE UNCHANGED vars
  BY <1>1 DEF vars, txVars, Numbered, Dense, Visible, Counted, Reached
<1>2. ASSUME NEW p \in Proc,
             Crash(p) \/ CommitAppend(p) \/ RollbackAppend(p) \/ CommitTx(p) \/ RollbackTx(p)
      PROVE  Numbered'
  <2>1. PICK R \in {rows[p], {}} : EndTx(p, R)
    BY <1>2 DEF Crash, CommitAppend, RollbackAppend, CommitTx, RollbackTx
  <2>2. UNCHANGED <<call, ins>>
    BY <1>2 DEF Crash, CommitAppend, RollbackAppend, CommitTx, RollbackTx
  <2> QED
    BY <2>1, <2>2, EndTxNumbered
<1>3. ASSUME NEW p \in Proc, RunInTx(p)
      PROVE  Numbered'
  <2>1. Counted(p)'
    BY <1>3 DEF RunInTx, Counted, IInv, TypeOK
  <2> QED
    BY <1>3, <2>1, QuietNumbered DEF RunInTx, IInv, TypeOK, Visible, Numbered
<1>4. ASSUME NEW p \in Proc, ReadInTx(p)
      PROVE  Numbered'
  <2>1. Counted(p)'
    BY <1>4 DEF ReadInTx, Counted, IInv, TypeOK
  <2>2. \A q \in Proc : Visible(q)' = Visible(q) /\ view'[q] \subseteq events
    BY <1>4 DEF ReadInTx, TakeView, Visible, Numbered, IInv, TypeOK
  <2> QED
    BY <1>4, <2>1, <2>2, QuietNumbered DEF ReadInTx, IInv
<1>5. ASSUME NEW p \in Proc, NEW c \in Calls, AppendCall(p, c)
      PROVE  Numbered'
  <2>1. Counted(p)'
    BY <1>5 DEF AppendCall, Counted, IInv, TypeOK
  <2> QED
    BY <1>5, <2>1, QuietNumbered DEF AppendCall, IInv, TypeOK, Visible, Numbered
<1>6. ASSUME NEW p \in Proc, TakeLock(p)
      PROVE  Numbered'
  <2>1. Counted(p)'
    BY <1>6 DEF TakeLock, Numbered, Counted, IInv, TypeOK
  <2> QED
    BY <1>6, <2>1, QuietNumbered DEF TakeLock, IInv, TypeOK, Visible, Numbered
<1>7. ASSUME NEW p \in Proc, StatementFails(p)
      PROVE  Numbered'
  <2>1. ReturnOf(p)
    BY <1>7, ReturnType DEF StatementFails, IInv, Results, Errors
  <2>2. Counted(p)'
    BY <2>1 DEF ReturnOf, Counted
  <2> QED
    BY <1>7, <2>1, <2>2, QuietNumbered DEF StatementFails, ReturnOf, IInv, Visible, Numbered
<1> QED
  BY <1>1, <1>2, <1>3, <1>4, <1>5, <1>6, <1>7, CheckNumbered, InsertNumbered DEF Next, Step

\* A dense table without duplicates is what readers of a stream expect.
LEMMA NumberedStreams == ASSUME TypeOK, NoClash, Numbered PROVE StreamsContiguous
<1>1. events \in SUBSET Row /\ IsFiniteSet(events) /\ Dense(events)
  BY DEF TypeOK, Numbered
<1>2. \A q, r \in events : SameVersion(q, r) => q = r
  BY DEF NoClash, AllRows, Clash
<1>3. ASSUME NEW s \in Stream
      PROVE  Versions(s) = 1..Cardinality({r \in events : r.stream = s})
  BY <1>1, <1>2, DenseCount DEF Versions
<1>4. ASSUME NEW r \in events, NEW s \in events, r.stream = s.stream, r.version < s.version
      PROVE  r.pos < s.pos
  <2>1. r.version \in 1..(s.version - 1)
    BY <1>1, <1>4, RowFields
  <2>2. PICK q \in events : q.stream = s.stream /\ q.version = r.version /\ q.pos < s.pos
    BY <1>1, <2>1 DEF Dense
  <2>3. q = r
    BY <1>2, <1>4, <2>2 DEF SameVersion
  <2> QED
    BY <2>2, <2>3
<1>5. ASSUME NEW r \in events, NEW s \in events, r.stream = s.stream, r.pos < s.pos
      PROVE  r.version < s.version
  <2>1. /\ r.version \in Nat /\ s.version \in Nat /\ r.pos \in Nat /\ s.pos \in Nat
    BY <1>1, RowFields
  <2>2. r.version # s.version
    BY <1>2, <1>5, <2>1 DEF SameVersion
  <2>3. ~(s.version < r.version)
    BY <1>4, <1>5, <2>1
  <2> QED
    BY <2>1, <2>2, <2>3
<1> QED
  BY <1>3, <1>4, <1>5 DEF StreamsContiguous

\* A committed stream is numbered from one without a hole, in the order its
\* readers follow, in both dialects: what a caller counted in its snapshot may
\* be stale, and then the unique index on (stream_id, version) refuses it.
THEOREM ContiguousStreams == Spec => []StreamsContiguous
<1>1. Init => Numbered
  BY FS_EmptySet DEF Init, Numbered, Dense, Visible, Counted
<1>2. IInv /\ NoClash /\ Numbered /\ [Next]_vars => Numbered'
  BY NextNumbered
<1>3. IInv /\ NoClash /\ Numbered => StreamsContiguous
  BY NumberedStreams DEF IInv
<1> QED
  BY <1>1, <1>2, <1>3, Invariance, UniqueRows, PTL DEF Spec
-----------------------------------------------------------------------------
(***************************************************************************)
(* Idempotency keys                                                        *)
(***************************************************************************)
\* What the transaction of p holds, when Append began it: rows of the call in
\* progress, below the version that is inserted next.
OwnRows(p) ==
    /\ pc[p] = "idle" => rows[p] = {}
    /\ pc[p] = "fn" => ambient[p]
    /\ pc[p] \in {"commit", "rollback"} => ~ambient[p]
    /\ ~ambient[p] /\ pc[p] \in {"lock", "count"} => rows[p] = {}
    /\ ~ambient[p] /\ pc[p] = "insert" =>
          \A s \in rows[p] : s.version < call[p].expected + ins[p]

\* The stream of p's call has an event, which a rollback by Append leaves.
Created(p) ==
    \/ \E r \in events : r.stream = call[p].stream
    \/ ambient[p] /\ \E r \in rows[p] : r.stream = call[p].stream

Loser(p) ==
    /\ OwnRows(p)
    /\ result[p] = "version_conflict" /\ call[p].expected = 0 => Created(p)

Losers == \A p \in Proc : Loser(p)

\* A step of p, which takes no event away, leaves the others as they were.
LEMMA LocalLosers ==
    ASSUME Losers, NEW p \in Proc, events \subseteq events', Loser(p)',
           \A q \in Proc \ {p} :
              /\ pc'[q] = pc[q] /\ ambient'[q] = ambient[q] /\ rows'[q] = rows[q]
              /\ call'[q] = call[q] /\ ins'[q] = ins[q] /\ result'[q] = result[q]
    PROVE  Losers'
<1> SUFFICES ASSUME NEW q \in Proc, q # p PROVE Loser(q)'
  BY DEF Losers
<1>1. /\ pc'[q] = pc[q] /\ ambient'[q] = ambient[q] /\ rows'[q] = rows[q]
      /\ call'[q] = call[q] /\ ins'[q] = ins[q] /\ result'[q] = result[q]
  OBVIOUS
<1>2. Loser(q)
  BY DEF Losers
<1>3. OwnRows(q)'
  BY <1>1, <1>2 DEF Loser, OwnRows
<1>4. Created(q) => Created(q)'
  BY <1>1 DEF Created
<1> QED
  BY <1>1, <1>2, <1>3, <1>4 DEF Loser

\* The end of the transaction of p: it was told of a conflict before only if
\* its rows are published or the witness is not among them.
LEMMA EndTxLosers ==
    ASSUME TypeOK, Losers, NEW p \in Proc, NEW R \in {rows[p], {}}, EndTx(p, R),
           call' = call, ins' = ins, NEW res \in Results,
           result' = [result EXCEPT ![p] = res],
           res = "version_conflict" => res = result[p] /\ (R = rows[p] \/ ~ambient[p])
    PROVE  Losers'
<1>1. /\ events' = events \union R /\ pc'[p] = "idle" /\ rows'[p] = {}
      /\ result'[p] = res
      /\ \A q \in Proc \ {p} : /\ pc'[q] = pc[q] /\ ambient'[q] = ambient[q]
                               /\ rows'[q] = rows[q] /\ result'[q] = result[q]
  BY DEF TypeOK, EndTx
<1>2. OwnRows(p)'
  BY <1>1 DEF OwnRows
<1>3. ASSUME res = "version_conflict", call[p].expected = 0
      PROVE  Created(p)'
  <2>1. Created(p) /\ (R = rows[p] \/ ~ambient[p])
    BY <1>3 DEF Losers, Loser
  <2> QED
    BY <1>1, <2>1 DEF Created
<1>4. Loser(p)'
  BY <1>1, <1>2, <1>3 DEF Loser
<1> QED
  BY <1>1, <1>4, LocalLosers

\* Append returns: the control state, and what p is told.
LEMMA ReturnLosers ==
    ASSUME TypeOK, Losers, NEW p \in Proc, NEW res \in Results, Return(p, res),
           UNCHANGED <<events, ambient, call>>,
           \A q \in Proc \ {p} : rows'[q] = rows[q] /\ ins'[q] = ins[q],
           res = "version_conflict" /\ call[p].expected = 0 => Created(p)'
    PROVE  Losers'
<1>1. /\ pc'[p] = IF ambient[p] THEN "fn" ELSE IF res = "ok" THEN "commit" ELSE "rollback"
      /\ result'[p] = res
      /\ \A q \in Proc \ {p} : pc'[q] = pc[q] /\ result'[q] = result[q]
  BY DEF TypeOK, Return
<1>2. OwnRows(p)'
  BY <1>1 DEF OwnRows
<1>3. Loser(p)'
  BY <1>1, <1>2 DEF Loser
<1> QED
  BY <1>1, <1>3, LocalLosers

LEMMA CheckLosers ==
    ASSUME TypeOK, Numbered, Losers, NEW p \in Proc, CheckVersion(p)
    PROVE  Losers'
<1>1. /\ pc[p] = "count" /\ UNCHANGED <<events, ambient, call, ins, rows>>
  BY DEF CheckVersion
<1>2. Visible(p) \subseteq events \union rows[p]
  BY DEF Visible, Numbered
<1>3. ~ambient[p] => rows[p] = {}
  BY <1>1 DEF Losers, Loser, OwnRows
<1>4. CASE Count(p, call[p].stream) # call[p].expected /\ Return(p, "version_conflict")
  <2>1. ASSUME call[p].expected = 0 PROVE Created(p)'
    <3>1. {r \in Visible(p) : r.stream = call[p].stream} # {}
      BY <1>4, <2>1, FS_EmptySet DEF Count
    <3>2. PICK r \in Visible(p) : r.stream = call[p].stream
      BY <3>1
    <3> QED
      BY <1>1, <1>2, <1>3, <3>2 DEF Created
  <2>2. "version_conflict" \in Results
    BY DEF Results, Errors
  <2> QED
    BY <1>1, <1>4, <2>1, <2>2, ReturnLosers
<1>5. CASE Return(p, "validation")
  <2>1. "validation" \in Results
    BY DEF Results, Errors
  <2> QED
    BY <1>1, <1>5, <2>1, ReturnLosers
<1>6. CASE pc' = [pc EXCEPT ![p] = "insert"] /\ UNCHANGED result
  <2>1. pc'[p] = "insert" /\ \A q \in Proc \ {p} : pc'[q] = pc[q]
    BY <1>6 DEF TypeOK
  <2>2. OwnRows(p)'
    BY <1>1, <1>3, <2>1 DEF OwnRows
  <2>3. Loser(p)'
    BY <1>1, <1>6, <2>2 DEF Losers, Loser, Created
  <2> QED
    BY <1>1, <1>6, <2>1, <2>3, LocalLosers
<1> QED
  BY <1>4, <1>5, <1>6 DEF CheckVersion

LEMMA InsertLosers ==
    ASSUME IInv, Losers, NEW p \in Proc, Insert(p)
    PROVE  Losers'
<1> DEFINE r == RowOf(call[p], ins[p], nextPos)
<1>1. /\ pc[p] = "insert" /\ UNCHANGED <<events, ambient, call>> /\ TypeOK
  BY DEF Insert, IInv
<1>2. /\ r.stream = call[p].stream /\ r.version = call[p].expected + ins[p]
  BY DEF RowOf
<1>3. /\ call[p].expected \in Nat /\ ins[p] \in Nat
  BY <1>1, AppendAssumption DEF TypeOK, Call
<1>4. ~ambient[p] => \A s \in rows[p] : s.version < call[p].expected + ins[p]
  BY <1>1 DEF Losers, Loser, OwnRows
<1> HIDE DEF r
<1>5. CASE /\ Return(p, InsertError(r, events \union rows[p])) /\ UNCHANGED <<rows, ins>>
  <2> DEFINE res == InsertError(r, events \union rows[p])
  <2>1. res \in Results
    BY DEF InsertError, Results, Errors
  <2>2. ASSUME res = "version_conflict" PROVE Created(p)'
    <3>1. PICK s \in events \union rows[p] : SameVersion(r, s)
      BY <2>2 DEF InsertError
    <3>2. s.stream = call[p].stream /\ s.version = call[p].expected + ins[p]
      BY <1>2, <3>1 DEF SameVersion
    <3>3. s \in rows[p] => ambient[p]
      BY <1>3, <1>4, <3>2
    <3> QED
      BY <1>1, <1>5, <3>2, <3>3 DEF Created
  <2> HIDE DEF res
  <2> QED
    BY <1>1, <1>5, <2>1, <2>2, ReturnLosers DEF res
<1>6. CASE /\ rows' = [rows EXCEPT ![p] = @ \union {r}]
           /\ ins' = [ins EXCEPT ![p] = @ + 1]
           /\ IF ins[p] = Len(call[p].batch) THEN Return(p, "ok")
                                             ELSE UNCHANGED <<pc, result>>
  <2>1. /\ rows'[p] = rows[p] \union {r} /\ ins'[p] = ins[p] + 1
        /\ \A q \in Proc \ {p} : rows'[q] = rows[q] /\ ins'[q] = ins[q]
    BY <1>1, <1>6 DEF TypeOK
  <2>2. CASE Return(p, "ok")
    <3>1. "ok" \in Results
      BY DEF Results
    <3> QED
      BY <1>1, <2>1, <2>2, <3>1, ReturnLosers
  <2>3. CASE UNCHANGED <<pc, result>>
    <3>1. ASSUME ~ambient[p], NEW s \in rows'[p]
          PROVE  s.version < call[p].expected + ins'[p]
      <4>1. CASE s = r
        BY <1>2, <1>3, <2>1, <4>1
      <4>2. CASE s \in rows[p]
        <5>1. s.version < call[p].expected + ins[p]
          BY <1>4, <3>1, <4>2
        <5>2. s.version \in Nat
          BY <1>1, <4>2, RowFields DEF TypeOK
        <5> QED
          BY <1>3, <2>1, <5>1, <5>2
      <4> QED
        BY <2>1, <3>1, <4>1, <4>2
    <3>2. OwnRows(p)'
      BY <1>1, <2>3, <3>1 DEF OwnRows
    <3>3. Created(p) => Created(p)'
      BY <1>1, <2>1 DEF Created
    <3>4. Loser(p)'
      BY <1>1, <2>3, <3>2, <3>3 DEF Losers, Loser
    <3> QED
      BY <1>1, <2>1, <2>3, <3>4, LocalLosers
  <2> QED
    BY <1>6, <2>2, <2>3
<1> QED
  BY <1>5, <1>6 DEF Insert, r

LEMMA NextLosers ==
    ASSUME IInv, Numbered, Losers, [Next]_vars
    PROVE  Losers'
<1>0. TypeOK
  BY DEF IInv
<1>1. CASE UNCHANGED vars
  BY <1>1 DEF vars, txVars, Losers, Loser, OwnRows, Created
<1>2. ASSUME NEW p \in Proc, Crash(p) \/ CommitAppend(p) \/ RollbackAppend(p)
                             \/ CommitTx(p) \/ RollbackTx(p)
      PROVE  Losers'
  <2>1. /\ call' = call /\ ins' = ins /\ result[p] \in Results
        /\ {"unknown", "rolled_back"} \subseteq Results
    BY <1>0, <1>2 DEF Crash, CommitAppend, RollbackAppend, CommitTx, RollbackTx, TypeOK,
                      Results, Errors
  <2>2. result = [result EXCEPT ![p] = result[p]]
    BY <1>0 DEF TypeOK
  <2>3. pc[p] = "rollback" => ~ambient[p]
    BY DEF Losers, Loser, OwnRows
  <2>4. \E R \in {rows[p], {}}, res \in Results :
          /\ EndTx(p, R) /\ result' = [result EXCEPT ![p] = res]
          /\ res = "version_conflict" => res = result[p] /\ (R = rows[p] \/ ~ambient[p])
    <3>1. CASE Crash(p) \/ RollbackTx(p)
      BY <2>1, <3>1 DEF Crash, RollbackTx
    <3>2. CASE RollbackAppend(p)
      BY <2>1, <2>2, <2>3, <3>2 DEF RollbackAppend
    <3>3. CASE CommitAppend(p) \/ CommitTx(p)
      BY <2>1, <2>2, <3>3 DEF CommitAppend, CommitTx
    <3> QED
      BY <1>2, <3>1, <3>2, <3>3
  <2> QED
    BY <1>0, <2>1, <2>4, EndTxLosers
<1>3. ASSUME NEW p \in Proc, RunInTx(p)
      PROVE  Losers'
  <2>1. /\ pc'[p] = "fn" /\ ambient'[p] /\ result'[p] = "none" /\ events' = events
        /\ rows' = rows /\ call' = call /\ ins' = ins
        /\ \A q \in Proc \ {p} : /\ pc'[q] = pc[q] /\ ambient'[q] = ambient[q]
                                 /\ result'[q] = result[q]
    BY <1>0, <1>3 DEF RunInTx, TypeOK
  <2>2. Loser(p)'
    BY <2>1 DEF Loser, OwnRows
  <2> QED
    BY <2>1, <2>2, LocalLosers
<1>4. ASSUME NEW p \in Proc, ReadInTx(p)
      PROVE  Losers'
  BY <1>4 DEF ReadInTx, Losers, Loser, OwnRows, Created
<1>5. ASSUME NEW p \in Proc, NEW c \in Calls, AppendCall(p, c)
      PROVE  Losers'
  <2>1. /\ pc'[p] = "lock" /\ result'[p] = "none" /\ events' = events
        /\ rows' = rows /\ ambient' = ambient
        /\ \A q \in Proc \ {p} : /\ pc'[q] = pc[q] /\ result'[q] = result[q]
                                 /\ call'[q] = call[q] /\ ins'[q] = ins[q]
    BY <1>0, <1>5 DEF AppendCall, TypeOK
  <2>2. pc[p] \in {"idle", "fn"}
    BY <1>5 DEF AppendCall
  <2>3. rows[p] = {} \/ ambient[p]
    BY <2>2 DEF Losers, Loser, OwnRows
  <2>4. Loser(p)'
    BY <2>1, <2>3 DEF Loser, OwnRows
  <2> QED
    BY <2>1, <2>4, LocalLosers
<1>6. ASSUME NEW p \in Proc, TakeLock(p)
      PROVE  Losers'
  <2>1. /\ pc[p] = "lock" /\ pc'[p] = "count"
        /\ UNCHANGED <<events, rows, ambient, call, ins, result>>
        /\ \A q \in Proc \ {p} : pc'[q] = pc[q]
    BY <1>0, <1>6 DEF TakeLock, TypeOK
  <2>2. Loser(p)'
    BY <2>1 DEF Losers, Loser, OwnRows, Created
  <2> QED
    BY <2>1, <2>2, LocalLosers
<1>7. ASSUME NEW p \in Proc, StatementFails(p)
      PROVE  Losers'
  <2>1. "infra" \in Results
    BY DEF Results, Errors
  <2> QED
    BY <1>0, <1>7, <2>1, ReturnLosers DEF StatementFails
<1> QED
  BY <1>0, <1>1, <1>2, <1>3, <1>4, <1>5, <1>6, <1>7, CheckLosers, InsertLosers DEF Next, Step

\* At most one contract is ever created with an idempotency key, whatever
\* creations race, and the loser of the race is not told of a version conflict
\* (isContractIdempotencyKeyConflict, lines 304-317).
THEOREM OneContract == Spec => []OneContractPerKey
<1>1. Init => Losers /\ Numbered
  BY FS_EmptySet DEF Init, Losers, Loser, OwnRows, Numbered, Dense, Visible, Counted
<1>2. IInv /\ NoClash /\ Numbered /\ Losers /\ [Next]_vars => Numbered' /\ Losers'
  BY NextNumbered, NextLosers
<1>3. NoClash /\ Losers => OneContractPerKey
  BY DEF NoClash, AllRows, OneContractPerKey, Clash, SameKey, Losers, Loser, Created
<1> QED
  BY <1>1, <1>2, <1>3, Invariance, UniqueRows, PTL DEF Spec
-----------------------------------------------------------------------------
(***************************************************************************)
(* Batches                                                                 *)
(***************************************************************************)
\* The row r belongs to a batch that is in R as a whole.
From(r, R) == \E c \in Calls : (\E i \in DOMAIN c.batch : Holds(r, c, i)) /\ BatchIn(c, R)
Whole(R) == \A r \in R : From(r, R)

\* The transaction of p may still commit: no statement of it failed on postgres,
\* and its owner has not been told to roll back.
Clean(p) == ~aborted[p] /\ (pc[p] = "fn" => result[p] \in {"none", "ok"} \/ Swallow)

\* What the results of p say of its transaction.
Answered(p) ==
    /\ pc[p] \in {"idle", "count", "insert", "commit"} => ~aborted[p]
    /\ pc[p] = "idle" => rows[p] = {}
    /\ pc[p] \in {"lock", "count", "insert"} => result[p] = "none"
    /\ pc[p] = "commit" => result[p] = "ok"
    /\ pc[p] = "rollback" => result[p] # "ok"
    /\ pc[p] \in {"fn", "commit"} /\ result[p] = "ok" => BatchIn(call[p], rows[p])

\* The rows of p are batches, but for the first events of the one it inserts.
Inserted(p) ==
    /\ Contiguous(call[p])
    /\ \A i \in 1..(ins[p] - 1) : \E r \in rows[p] : Holds(r, call[p], i)
    /\ \A r \in rows[p] : From(r, rows[p]) \/ \E i \in 1..(ins[p] - 1) : Holds(r, call[p], i)

Batched(p) ==
    /\ Answered(p)
    /\ pc[p] \in {"fn", "lock", "count", "commit"} /\ Clean(p) => Whole(rows[p])
    /\ pc[p] = "insert" => Inserted(p)

Told(p) == (pc[p] = "idle" /\ result[p] = "ok") => BatchIn(call[p], events)

Batches == Whole(events) /\ \A p \in Proc : Batched(p) /\ Told(p)

LEMMA WholeUnion ==
    ASSUME NEW S, NEW T, Whole(S), Whole(T)
    PROVE  Whole(S \union T)
BY DEF Whole, From, BatchIn

\* A step of p that is not the end of its transaction.
LEMMA LocalBatches ==
    ASSUME Batches, NEW p \in Proc, events' = events, Batched(p)', pc'[p] # "idle",
           \A q \in Proc \ {p} : /\ pc'[q] = pc[q] /\ call'[q] = call[q] /\ ins'[q] = ins[q]
                                 /\ rows'[q] = rows[q] /\ aborted'[q] = aborted[q]
                                 /\ result'[q] = result[q]
    PROVE  Batches'
<1>1. Whole(events)'
  BY DEF Batches, Whole, From, BatchIn
<1>2. ASSUME NEW q \in Proc PROVE Batched(q)' /\ Told(q)'
  <2>1. CASE q = p
    BY <2>1 DEF Told
  <2>2. CASE q # p
    <3>1. Batched(q) /\ Told(q)
      BY DEF Batches
    <3>2. /\ pc'[q] = pc[q] /\ call'[q] = call[q] /\ ins'[q] = ins[q]
          /\ rows'[q] = rows[q] /\ aborted'[q] = aborted[q] /\ result'[q] = result[q]
      BY <2>2
    <3> QED
      BY <3>1, <3>2 DEF Batched, Told, Answered, Inserted, Clean, Whole, From, BatchIn,
                        Contiguous
  <2> QED
    BY <2>1, <2>2
<1> QED
  BY <1>1, <1>2 DEF Batches

\* The end of a transaction shows batches, and all of the last one when it
\* reports success.
LEMMA EndTxBatches ==
    ASSUME TypeOK, Batches, NEW p \in Proc, NEW R, EndTx(p, R), Whole(R),
           UNCHANGED <<call, ins>>, \A q \in Proc \ {p} : result'[q] = result[q],
           result'[p] = "ok" => BatchIn(call[p], R)
    PROVE  Batches'
<1>1. /\ events' = events \union R
      /\ rows'[p] = {} /\ pc'[p] = "idle" /\ aborted'[p] = FALSE
      /\ \A q \in Proc \ {p} : /\ rows'[q] = rows[q] /\ aborted'[q] = aborted[q]
                               /\ pc'[q] = pc[q]
  BY DEF EndTx, TypeOK
<1>2. Whole(events')
  BY <1>1, WholeUnion DEF Batches
<1>3. Batched(p)' /\ Told(p)'
  BY <1>1 DEF Batched, Answered, Told, BatchIn
<1>4. ASSUME NEW q \in Proc, q # p PROVE Batched(q)' /\ Told(q)'
  <2>1. Batched(q) /\ Told(q)
    BY DEF Batches
  <2>2. /\ pc'[q] = pc[q] /\ call'[q] = call[q] /\ ins'[q] = ins[q]
        /\ rows'[q] = rows[q] /\ aborted'[q] = aborted[q] /\ result'[q] = result[q]
    BY <1>1, <1>4
  <2>3. Batched(q)'
    BY <2>1, <2>2 DEF Batched, Answered, Inserted, Clean, Whole, From, BatchIn, Contiguous
  <2>4. Told(q)'
    BY <1>1, <2>1, <2>2 DEF Told, BatchIn
  <2> QED
    BY <2>3, <2>4
<1>5. Whole(events)'
  BY <1>2 DEF Whole, From, BatchIn
<1> QED
  BY <1>3, <1>4, <1>5 DEF Batches

\* The row of an event holds it, once the versions of the batch were checked.
LEMMA RowHolds ==
    ASSUME NEW c \in Calls, Contiguous(c), NEW i \in DOMAIN c.batch, NEW pos
    PROVE  Holds(RowOf(c, i, pos), c, i)
BY DEF Contiguous, Holds, RowOf

\* What a return leaves: the owner of an ambient transaction goes on, one of
\* Append's own ends.
LEMMA ReturnTells ==
    ASSUME TypeOK, NEW p \in Proc, NEW res \in Results, Return(p, res)
    PROVE  /\ result'[p] = res /\ pc'[p] \in {"fn", "commit", "rollback"}
           /\ pc'[p] = "commit" => res = "ok"
           /\ pc'[p] = "rollback" => res # "ok"
           /\ \A q \in Proc \ {p} : result'[q] = result[q] /\ pc'[q] = pc[q]
BY DEF TypeOK, Return

\* A statement that fails leaves batches where the transaction may commit.
LEMMA FailedBatches ==
    ASSUME TypeOK, Batches, NEW p \in Proc, NEW res \in Errors, Return(p, res),
           UNCHANGED <<events, rows, call, ins>>,
           \A q \in Proc \ {p} : aborted'[q] = aborted[q],
           pc'[p] = "fn" /\ Clean(p)' => Whole(rows[p])
    PROVE  Batches'
<1>1. /\ result'[p] = res /\ res \in Results /\ res # "ok"
      /\ pc'[p] \in {"fn", "rollback"}
      /\ \A q \in Proc \ {p} : result'[q] = result[q] /\ pc'[q] = pc[q]
  BY ReturnTells DEF Results, Errors
<1>2. Answered(p)'
  BY <1>1 DEF Answered
<1>3. Batched(p)'
  BY <1>1, <1>2 DEF Batched, Whole, From, BatchIn
<1> QED
  BY <1>1, <1>3, LocalBatches

\* The insert of the next event of a batch.
LEMMA InsertBatches ==
    ASSUME Dialect = "postgres" \/ ~Swallow,
           IInv, Batches, NEW p \in Proc, Insert(p)
    PROVE  Batches'
<1> DEFINE r == RowOf(call[p], ins[p], nextPos)
<1>1. /\ pc[p] = "insert" /\ UNCHANGED <<events, call>>
  BY DEF Insert
<1>2. Inserted(p) /\ Answered(p) /\ ~aborted[p] /\ result[p] = "none"
  BY <1>1 DEF Batches, Batched, Answered
<1>3. CASE /\ Return(p, InsertError(r, events \union rows[p])) /\ UNCHANGED <<rows, ins>>
           /\ aborted' = [aborted EXCEPT ![p] = (Dialect = "postgres")]
  <2>1. PICK res \in Errors : res = InsertError(r, events \union rows[p])
    BY DEF InsertError, Errors
  <2>2. /\ \A q \in Proc \ {p} : aborted'[q] = aborted[q]
        /\ Dialect = "postgres" => aborted'[p]
    BY <1>3 DEF IInv, TypeOK
  <2>3. Return(p, res) /\ res \in Results /\ res \notin {"none", "ok"}
    BY <1>3, <2>1 DEF Results, Errors
  <2>4. ~(pc'[p] = "fn" /\ Clean(p)')
    <3>1. CASE Dialect = "postgres"
      BY <2>2, <3>1 DEF Clean
    <3>2. CASE ~Swallow
      <4>1. result'[p] = res
        BY <2>3, ReturnTells DEF IInv
      <4> QED
        BY <2>3, <3>2, <4>1 DEF Clean
    <3> QED
      BY <3>1, <3>2
  <2> QED
    BY <1>1, <1>3, <2>2, <2>3, <2>4, FailedBatches DEF IInv
<1>4. CASE /\ rows' = [rows EXCEPT ![p] = @ \union {r}]
           /\ ins' = [ins EXCEPT ![p] = @ + 1]
           /\ IF ins[p] = Len(call[p].batch) THEN Return(p, "ok")
                                             ELSE UNCHANGED <<pc, result>>
           /\ UNCHANGED aborted
  <2>1. /\ call[p] \in Calls /\ call[p] \in Call /\ ins[p] \in Nat \ {0}
        /\ ins[p] <= Len(call[p].batch)
    BY <1>1, AppendAssumption DEF IInv, TypeOK, InsInBatch
  <2>2. ins[p] \in DOMAIN call[p].batch /\ DOMAIN call[p].batch = 1..Len(call[p].batch)
    BY <2>1 DEF Call
  <2>3. Holds(r, call[p], ins[p])
    BY <1>2, <2>1, <2>2, RowHolds DEF Inserted
  <2> HIDE DEF r
  <2>4. /\ rows'[p] = rows[p] \union {r} /\ ins'[p] = ins[p] + 1
        /\ \A q \in Proc \ {p} : rows'[q] = rows[q] /\ ins'[q] = ins[q]
    BY <1>4 DEF IInv, TypeOK
  <2>5. \A i \in 1..ins[p] : \E s \in rows'[p] : Holds(s, call[p], i)
    <3> SUFFICES ASSUME NEW i \in 1..ins[p]
                 PROVE  \E s \in rows'[p] : Holds(s, call[p], i)
      OBVIOUS
    <3>1. i = ins[p] \/ i \in 1..(ins[p] - 1)
      BY <2>1
    <3> QED
      BY <1>2, <2>3, <2>4, <3>1 DEF Inserted
  <2>6. \A s \in rows'[p] : From(s, rows'[p]) \/ \E i \in 1..ins[p] : Holds(s, call[p], i)
    <3> SUFFICES ASSUME NEW s \in rows'[p]
                 PROVE  From(s, rows'[p]) \/ \E i \in 1..ins[p] : Holds(s, call[p], i)
      OBVIOUS
    <3>1. CASE s = r
      BY <2>1, <2>3, <3>1
    <3>2. CASE s \in rows[p]
      <4>1. From(s, rows[p]) => From(s, rows'[p])
        BY <2>4 DEF From, BatchIn
      <4>2. 1..(ins[p] - 1) \subseteq 1..ins[p]
        BY <2>1
      <4> QED
        BY <1>2, <3>2, <4>1, <4>2 DEF Inserted
    <3> QED
      BY <2>4, <3>1, <3>2
  <2>7. CASE ins[p] = Len(call[p].batch)
    <3>1. /\ result'[p] = "ok" /\ pc'[p] \in {"fn", "commit"}
          /\ \A q \in Proc \ {p} : result'[q] = result[q] /\ pc'[q] = pc[q]
      BY <1>4, <2>7, ReturnTells DEF IInv, Results
    <3>2. BatchIn(call[p], rows'[p])
      BY <2>2, <2>5, <2>7 DEF BatchIn
    <3>3. Whole(rows'[p])
      <4> SUFFICES ASSUME NEW s \in rows'[p], \E i \in 1..ins[p] : Holds(s, call[p], i)
                   PROVE  From(s, rows'[p])
        BY <2>6 DEF Whole
      <4> QED
        BY <2>1, <2>2, <2>7, <3>2 DEF From
    <3>4. Answered(p)'
      BY <1>1, <1>2, <1>4, <3>1, <3>2 DEF Answered, BatchIn
    <3>5. Batched(p)'
      BY <3>1, <3>3, <3>4 DEF Batched, Whole, From, BatchIn
    <3> QED
      BY <1>1, <1>4, <2>4, <3>1, <3>5, LocalBatches
  <2>8. CASE ins[p] # Len(call[p].batch)
    <3>1. pc' = pc /\ result' = result /\ aborted' = aborted
      BY <1>4, <2>8
    <3>2. Answered(p)'
      BY <1>1, <1>2, <3>1 DEF Answered
    <3>3. ins'[p] - 1 = ins[p]
      BY <2>1, <2>4
    <3>4. Inserted(p)'
      BY <1>1, <1>2, <2>5, <2>6, <3>3 DEF Inserted, From, BatchIn, Contiguous
    <3>5. Batched(p)'
      BY <1>1, <3>1, <3>2, <3>4 DEF Batched
    <3> QED
      BY <1>1, <2>4, <3>1, <3>5, LocalBatches
  <2> QED
    BY <2>7, <2>8
<1> QED
  BY <1>3, <1>4 DEF Insert

\* What p may commit is batches, and all of the last one when it was told ok.
LEMMA CommitBatches ==
    ASSUME TypeOK, Batches, NEW p \in Proc, CommitTx(p) \/ CommitAppend(p)
    PROVE  Batches'
<1>1. /\ UNCHANGED <<call, ins>>
      /\ \A q \in Proc \ {p} : result'[q] = result[q]
      /\ result'[p] = result[p] \/ result'[p] # "ok"
  BY DEF CommitTx, CommitAppend, TypeOK
<1>2. Whole({})
  BY DEF Whole
<1>3. ~aborted[p] => Whole(rows[p])
  BY DEF CommitTx, CommitAppend, Batches, Batched, Clean
<1>4. result[p] = "ok" => BatchIn(call[p], rows[p])
  BY DEF CommitTx, CommitAppend, Batches, Batched, Answered
<1>5. PICK R : EndTx(p, R) /\ Whole(R) /\ (result'[p] = "ok" => R = rows[p])
  <2>1. CASE CommitTx(p)
    BY <1>2, <1>3, <2>1 DEF CommitTx, TypeOK
  <2>2. CASE CommitAppend(p)
    <3>1. ~aborted[p]
      BY <2>2 DEF CommitAppend, Batches, Batched, Answered
    <3> QED
      BY <1>2, <1>3, <2>2, <3>1 DEF CommitAppend, TypeOK
  <2> QED
    BY <2>1, <2>2
<1>6. result'[p] = "ok" => BatchIn(call[p], R)
  BY <1>1, <1>4, <1>5
<1> QED
  BY <1>1, <1>5, <1>6, EndTxBatches

\* Every step of every process keeps batches whole.
LEMMA NextBatches ==
    ASSUME Dialect = "postgres" \/ ~Swallow,
           IInv, Numbered, Batches, [Next]_vars
    PROVE  Batches'
<1>1. CASE UNCHANGED vars
  BY <1>1 DEF vars, txVars, Batches, Batched, Told, Answered, Inserted, Clean, Whole, From,
              BatchIn, Contiguous
<1>2. ASSUME NEW p \in Proc, Crash(p) \/ RollbackAppend(p) \/ RollbackTx(p)
      PROVE  Batches'
  <2>1. /\ EndTx(p, {}) /\ UNCHANGED <<call, ins>>
        /\ \A q \in Proc \ {p} : result'[q] = result[q]
    BY <1>2 DEF Crash, RollbackAppend, RollbackTx, IInv, TypeOK
  <2>2. result'[p] # "ok"
    BY <1>2 DEF Crash, RollbackAppend, RollbackTx, IInv, TypeOK, Batches, Batched, Answered
  <2>3. Whole({})
    BY DEF Whole
  <2> QED
    BY <2>1, <2>2, <2>3, EndTxBatches DEF IInv
<1>3. ASSUME NEW p \in Proc, RunInTx(p)
      PROVE  Batches'
  <2>1. /\ pc'[p] = "fn" /\ result'[p] = "none"
        /\ UNCHANGED <<events, call, ins, rows, aborted>>
        /\ \A q \in Proc \ {p} : pc'[q] = pc[q] /\ result'[q] = result[q]
    BY <1>3 DEF RunInTx, IInv, TypeOK
  <2>2. rows[p] = {}
    BY <1>3 DEF RunInTx, Batches, Batched, Answered
  <2>3. Batched(p)'
    BY <2>1, <2>2 DEF Batched, Answered, Whole
  <2> QED
    BY <2>1, <2>3, LocalBatches
<1>4. ASSUME NEW p \in Proc, ReadInTx(p)
      PROVE  Batches'
  <2>1. pc[p] = "fn" /\ UNCHANGED <<events, call, ins, rows, aborted, pc, result>>
    BY <1>4 DEF ReadInTx
  <2>2. Batched(p)'
    BY <2>1 DEF Batches, Batched, Answered, Clean, Whole, From, BatchIn
  <2> QED
    BY <2>1, <2>2, LocalBatches
<1>5. ASSUME NEW p \in Proc, NEW c \in Calls, AppendCall(p, c)
      PROVE  Batches'
  <2>1. /\ pc'[p] = "lock" /\ result'[p] = "none" /\ UNCHANGED <<events, rows, aborted>>
        /\ \A q \in Proc \ {p} : /\ pc'[q] = pc[q] /\ result'[q] = result[q]
                                 /\ call'[q] = call[q] /\ ins'[q] = ins[q]
    BY <1>5 DEF AppendCall, IInv, TypeOK
  <2>2. ~aborted[p] => Whole(rows[p])
    <3>1. CASE pc[p] = "idle"
      BY <3>1 DEF Batches, Batched, Answered, Whole
    <3>2. CASE pc[p] = "fn" /\ (result[p] \in {"none", "ok"} \/ Swallow)
      BY <3>2 DEF Batches, Batched, Clean
    <3> QED
      BY <1>5, <3>1, <3>2 DEF AppendCall
  <2>3. Batched(p)'
    BY <2>1, <2>2 DEF Batched, Answered, Clean, Whole, From, BatchIn
  <2> QED
    BY <2>1, <2>3, LocalBatches
<1>6. ASSUME NEW p \in Proc, TakeLock(p)
      PROVE  Batches'
  <2>1. /\ pc[p] = "lock" /\ ~aborted[p] /\ pc'[p] = "count"
        /\ UNCHANGED <<events, rows, aborted, call, ins, result>>
        /\ \A q \in Proc \ {p} : pc'[q] = pc[q]
    BY <1>6 DEF TakeLock, IInv, TypeOK
  <2>2. Whole(rows[p]) /\ result[p] = "none"
    BY <2>1 DEF Batches, Batched, Answered, Clean
  <2>3. Batched(p)'
    BY <2>1, <2>2 DEF Batched, Answered, Whole, From, BatchIn
  <2> QED
    BY <2>1, <2>3, LocalBatches
<1>7. ASSUME NEW p \in Proc, StatementFails(p)
      PROVE  Batches'
  <2>1. pc[p] = "lock" /\ Return(p, "infra") /\ UNCHANGED <<events, rows, aborted, call, ins>>
    BY <1>7 DEF StatementFails
  <2>2. Clean(p)' => Whole(rows[p])
    BY <2>1 DEF Batches, Batched, Clean
  <2> QED
    BY <2>1, <2>2, FailedBatches DEF IInv, Errors
<1>8. ASSUME NEW p \in Proc, CheckVersion(p)
      PROVE  Batches'
  <2>1. pc[p] = "count" /\ UNCHANGED <<events, rows, aborted, call, ins>>
    BY <1>8 DEF CheckVersion
  <2>2. /\ ~aborted[p] /\ Whole(rows[p]) /\ result[p] = "none" /\ ins[p] = 1
    BY <2>1 DEF Batches, Batched, Answered, Clean, Numbered, Counted
  <2>3. CASE Return(p, "version_conflict") \/ Return(p, "validation")
    BY <2>1, <2>2, <2>3, FailedBatches DEF IInv, Errors
  <2>4. CASE Contiguous(call[p]) /\ pc' = [pc EXCEPT ![p] = "insert"] /\ UNCHANGED result
    <3>1. pc'[p] = "insert" /\ \A q \in Proc \ {p} : pc'[q] = pc[q]
      BY <2>4 DEF IInv, TypeOK
    <3>2. Inserted(p)'
      BY <2>1, <2>2, <2>4 DEF Inserted, Whole, From, BatchIn, Contiguous
    <3>3. Batched(p)'
      BY <2>1, <2>2, <2>4, <3>1, <3>2 DEF Batched, Answered
    <3> QED
      BY <2>1, <2>4, <3>1, <3>3, LocalBatches
  <2> QED
    BY <1>8, <2>3, <2>4 DEF CheckVersion
<1> QED
  BY <1>1, <1>2, <1>3, <1>4, <1>5, <1>6, <1>7, <1>8, InsertBatches, CommitBatches
     DEF Next, Step, IInv

\* A batch is visible as a whole or not at all, and as a whole when Append or
\* RunInTx reported success.  On mysql, where a failed INSERT leaves the rows
\* before it in the transaction, that is so because no callback ignores it.
THEOREM WholeBatches ==
    ASSUME Dialect = "postgres" \/ ~Swallow
    PROVE  Spec => []BatchAtomic
<1>1. Init => Numbered /\ Batches
  BY FS_EmptySet DEF Init, Numbered, Dense, Visible, Counted, Batches, Batched, Told, Answered,
                     Whole
<1>2. IInv /\ NoClash /\ Numbered /\ Batches /\ [Next]_vars => Numbered' /\ Batches'
  BY NextNumbered, NextBatches
<1>3. Batches => BatchAtomic
  BY DEF Batches, Whole, From, Told, BatchAtomic
<1> QED
  BY <1>1, <1>2, <1>3, Invariance, UniqueRows, PTL DEF Spec
-----------------------------------------------------------------------------
(***************************************************************************)
(* The event store of postgres as a whole                                  *)
(***************************************************************************)
Reader == INSTANCE PgSubscriptionProofs

\* The invariants of the two sides, on the table they share.
StoreInv == IInv /\ Reader!IInv
-----------------------------------------------------------------------------
\* The reader's assumptions hold of this store's rows and parameters.
LEMMA ReaderAssumptions == Reader!RowAssumption /\ Reader!SubAssumption
BY ReaderAssumption DEF Row, Reader!RowAssumption, Reader!SubAssumption

\* A commit of the append side is a commit as the subscription knows it.
LEMMA AppendSideCommits ==
    ASSUME IInv, AppendSide
    PROVE  \/ UNCHANGED <<events, notes, readerVars>>
           \/ events' \ events \in SUBSET Row /\ Reader!Commit(events' \ events)
<1>1. CASE events' = events
  BY <1>1 DEF AppendSide
<1>2. CASE events' # events
  <2> DEFINE R == events' \ events
  <2>1. Log!Publish(R)
    BY <1>2, StepPublishes DEF AppendSide
  <2>2. Reader!Notify /\ UNCHANGED readerVars
    BY <1>2 DEF AppendSide, Sub!Notify, Reader!Notify, Sub!Listening, Reader!Listening
  <2>3. Reader!IsFiniteSet(R)
    BY <2>1 DEF Log!Publish, Log!IsFiniteSet, Reader!IsFiniteSet
  <2>4. Reader!Publish(R)
    BY <2>1, <2>2, <2>3 DEF Log!Publish, Log!Distinct, Log!Above, Reader!Publish,
                            Reader!Distinct, Reader!Above, readerVars
  <2>5. R \in SUBSET Row
    BY <2>1 DEF Log!Publish
  <2> QED
    BY <2>2, <2>4, <2>5 DEF Reader!Commit, readerVars, Reader!pageVars, Reader!loopVars,
                            Reader!envVars
<1> QED
  BY <1>1, <1>2

\* PgEventStore's subscription is the one the theorems are about.
LEMMA SameReader ==
    /\ Sub!Init => Reader!Init
    /\ Sub!SubNext => Reader!SubNext
    /\ Sub!NothingSkipped <=> Reader!NothingSkipped
    /\ \A R : Reader!Commit(R) => Sub!Commit(R)
<1>1. Sub!Init => Reader!Init
  BY DEF Sub!Init, Reader!Init, Sub!LogInit, Reader!LogInit
<1>2. Sub!SubNext => Reader!SubNext
  <2>1. /\ (Sub!Acquire => Reader!Acquire)
        /\ (Sub!Listen => Reader!Listen)
        /\ (Sub!PageDone => Reader!PageDone)
    BY DEF Sub!Acquire, Reader!Acquire, Sub!Listen, Reader!Listen, Sub!PageDone,
           Reader!PageDone, Sub!pageVars, Reader!pageVars, Sub!connVars,
           Reader!connVars, Sub!loopVars, Reader!loopVars, Sub!envVars, Reader!envVars,
           Sub!consumerVars, Reader!consumerVars
  <2>2. Sub!LoadPage => Reader!LoadPage
    BY DEF Sub!LoadPage, Reader!LoadPage, Sub!After, Reader!After, Sub!FirstRows,
           Reader!FirstRows, Sub!Cardinality, Reader!Cardinality, Sub!pageVars,
           Reader!pageVars, Sub!connVars, Reader!connVars, Sub!loopVars,
           Reader!loopVars, Sub!envVars, Reader!envVars, Sub!consumerVars,
           Reader!consumerVars
  <2>3. Sub!Send => Reader!Send
    BY DEF Sub!Send, Reader!Send, Sub!pageVars, Reader!pageVars, Sub!connVars,
           Reader!connVars, Sub!loopVars, Reader!loopVars, Sub!envVars, Reader!envVars,
           Sub!consumerVars, Reader!consumerVars
  <2>4. /\ (Sub!WaitForNotification => Reader!WaitForNotification)
        /\ (Sub!StayUp => Reader!StayUp)
    BY DEF Sub!WaitForNotification, Reader!WaitForNotification, Sub!StayUp,
           Reader!StayUp, Sub!Listening, Reader!Listening, Sub!pageVars,
           Reader!pageVars, Sub!connVars, Reader!connVars, Sub!loopVars,
           Reader!loopVars, Sub!envVars, Reader!envVars, Sub!consumerVars,
           Reader!consumerVars
  <2>5. (Sub!EndCycle => Reader!EndCycle) /\ (Sub!Reconnect => Reader!Reconnect)
    BY DEF Sub!EndCycle, Reader!EndCycle, Sub!Reconnect, Reader!Reconnect, Sub!Healthy,
           Reader!Healthy, Sub!NextBackoff, Reader!NextBackoff, Sub!MaxStreak,
           Reader!MaxStreak, Sub!Reported, Reader!Reported, Sub!Smaller, Reader!Smaller,
           Sub!pageVars, Reader!pageVars, Sub!connVars, Reader!connVars, Sub!loopVars,
           Reader!loopVars, Sub!envVars, Reader!envVars, Sub!consumerVars,
           Reader!consumerVars
  <2>6. (Sub!Stop => Reader!Stop) /\ (Sub!Cancel => Reader!Cancel)
    BY DEF Sub!Stop, Reader!Stop, Sub!StopsIn, Reader!StopsIn, Sub!Cancel, Reader!Cancel, Sub!pageVars,
           Reader!pageVars, Sub!connVars, Reader!connVars, Sub!loopVars,
           Reader!loopVars, Sub!envVars, Reader!envVars, Sub!consumerVars,
           Reader!consumerVars
  <2>7. (Sub!Consume => Reader!Consume) /\ (Sub!Resubscribe => Reader!Resubscribe)
    BY DEF Sub!Consume, Reader!Consume, Sub!Resubscribe, Reader!Resubscribe,
           Sub!Subscribe, Reader!Subscribe, Sub!pageVars, Reader!pageVars, Sub!connVars,
           Reader!connVars, Sub!loopVars, Reader!loopVars, Sub!envVars, Reader!envVars,
           Sub!consumerVars, Reader!consumerVars
  <2>8. \A kind : Sub!Fail(kind) => Reader!Fail(kind)
    BY DEF Sub!Fail, Reader!Fail, Sub!pageVars, Reader!pageVars, Sub!connVars,
           Reader!connVars, Sub!loopVars, Reader!loopVars, Sub!envVars, Reader!envVars,
           Sub!consumerVars, Reader!consumerVars
  <2> QED
    BY <2>1, <2>2, <2>3, <2>4, <2>5, <2>6, <2>7, <2>8
       DEF Sub!SubNext, Reader!SubNext, Sub!CycleStep, Reader!CycleStep,
           Sub!LoopStep, Reader!LoopStep
<1>3. Sub!NothingSkipped <=> Reader!NothingSkipped
  BY DEF Sub!NothingSkipped, Reader!NothingSkipped
<1>4. \A R : Reader!Commit(R) => Sub!Commit(R)
  BY DEF Sub!Commit, Reader!Commit, Sub!Publish, Reader!Publish, Sub!Distinct,
         Reader!Distinct, Sub!Above, Reader!Above, Sub!IsFiniteSet, Reader!IsFiniteSet,
         Sub!Notify, Reader!Notify, Sub!Listening, Reader!Listening, Sub!pageVars,
         Reader!pageVars, Sub!loopVars, Reader!loopVars, Sub!envVars, Reader!envVars
<1> QED
  BY <1>1, <1>2, <1>3, <1>4

\* Every step of either side keeps the invariants of both.
LEMMA StoreNextInv == StoreInv /\ [StoreNext]_storeVars => StoreInv'
<1> SUFFICES ASSUME IInv, Reader!IInv, [StoreNext]_storeVars PROVE IInv' /\ Reader!IInv'
  BY DEF StoreInv
<1>1. ASSUME UNCHANGED <<events, notes, readerVars>>
      PROVE  Reader!IInv'
  <2>1. UNCHANGED Reader!vars
    BY <1>1 DEF readerVars, Reader!vars, Reader!pageVars, Reader!connVars, Reader!loopVars,
                Reader!envVars, Reader!consumerVars
  <2> QED
    BY <2>1, Reader!NextInv, ReaderAssumptions
<1>2. CASE UNCHANGED storeVars
  <2>1. UNCHANGED vars /\ UNCHANGED <<events, notes, readerVars>>
    BY <1>2 DEF storeVars, vars
  <2> QED
    BY <1>1, <2>1, NextInv
<1>3. CASE AppendSide
  <2>1. IInv'
    BY <1>3, NextInv DEF AppendSide
  <2> QED
    BY <1>1, <1>3, <2>1, AppendSideCommits, Reader!CommitInv, ReaderAssumptions
<1>4. CASE ReadSide
  <2>1. Reader!SubNext /\ UNCHANGED <<nextPos, lock, txVars, callsLeft>>
    BY <1>4, SameReader DEF ReadSide
  <2>2. events' = events
    BY <2>1, Reader!SubNextReads, ReaderAssumptions
  <2>3. UNCHANGED vars
    BY <2>1, <2>2 DEF vars
  <2>4. Reader!IInv'
    BY <2>1, Reader!NextInv, ReaderAssumptions DEF Reader!Next
  <2> QED
    BY <2>3, <2>4, NextInv
<1> QED
  BY <1>2, <1>3, <1>4 DEF StoreNext

\* While appends race each other, roll back and crash, no event is lost to a
\* subscription: neither to the gap between a position drawn and the commit
\* that shows it (issue #60), nor between LISTEN and the catch-up.
THEOREM StoreLosesNothing == StoreSpec => []NoEventLost
<1>1. StoreInit => StoreInv
  BY InitInv, Reader!InitInv, SameReader, ReaderAssumptions DEF StoreInit, StoreInv
<1>2. StoreInv => NoEventLost
  BY SameReader DEF StoreInv, Reader!IInv, Reader!Reading, NoEventLost
<1> QED
  BY <1>1, <1>2, StoreNextInv, PTL DEF StoreSpec

\* The two modules compose: what PgSubscription assumes of its environment,
\* rows published in position order, is what the transactions of EventAppend
\* do, and a rollback, a crash or a waiting append does not touch the reader.
THEOREM StoreMeetsSubscription == StoreSpec => AppendMeetsSubscription
<1>1. StoreInit => StoreInv /\ Sub!Init
  BY InitInv, Reader!InitInv, SameReader, ReaderAssumptions DEF StoreInit, StoreInv
<1>2. StoreInv /\ [StoreNext]_storeVars
        => [Sub!Commit(events' \ events) \/ Sub!SubNext]_Sub!vars
  <2> SUFFICES ASSUME IInv, [StoreNext]_storeVars
               PROVE  [Sub!Commit(events' \ events) \/ Sub!SubNext]_Sub!vars
    BY DEF StoreInv
  <2>1. UNCHANGED <<events, notes, readerVars>> => UNCHANGED Sub!vars
    BY DEF readerVars, Sub!vars, Sub!pageVars, Sub!connVars, Sub!loopVars, Sub!envVars,
           Sub!consumerVars
  <2>2. CASE UNCHANGED storeVars
    BY <2>1, <2>2 DEF storeVars, vars
  <2>3. CASE AppendSide
    BY <2>1, <2>3, AppendSideCommits, SameReader
  <2>4. CASE ReadSide
    BY <2>4 DEF ReadSide
  <2> QED
    BY <2>2, <2>3, <2>4 DEF StoreNext
<1> QED
  BY <1>1, <1>2, StoreNextInv, PTL DEF StoreSpec, AppendMeetsSubscription

\* To the appending transactions a subscription is invisible: the store does
\* what EventAppend does, so everything proved of the appends holds in it.
THEOREM StoreAppends == StoreSpec => Spec
<1>1. [StoreNext]_storeVars => [Next]_vars
  <2> SUFFICES ASSUME [StoreNext]_storeVars PROVE [Next]_vars
    OBVIOUS
  <2>1. CASE UNCHANGED storeVars
    BY <2>1 DEF storeVars
  <2>2. CASE AppendSide
    BY <2>2 DEF AppendSide
  <2>3. CASE ReadSide
    <3>1. Reader!SubNext /\ UNCHANGED <<nextPos, lock, txVars, callsLeft>>
      BY <2>3, SameReader DEF ReadSide
    <3>2. events' = events
      BY <3>1, Reader!SubNextReads, ReaderAssumptions
    <3> QED
      BY <3>1, <3>2 DEF vars
  <2> QED
    BY <2>1, <2>2, <2>3 DEF StoreNext
<1> QED
  BY <1>1, PTL DEF StoreSpec, StoreInit, Spec

\* So in the whole store, on postgres, streams are contiguous, contracts are
\* created once and batches are atomic, whatever a callback makes of errors.
THEOREM StoreKeepsBatches ==
    ASSUME Dialect = "postgres"
    PROVE  StoreSpec => [](StreamsContiguous /\ OneContractPerKey /\ BatchAtomic)
<1>1. Spec => []BatchAtomic
  BY WholeBatches
<1> QED
  BY <1>1, StoreAppends, ContiguousStreams, OneContract, PTL
-----------------------------------------------------------------------------
\* To the subscription the appending transactions are its environment: the
\* whole store does what PgSubscription does, so everything proved of the
\* subscription holds in it, with rows that come from racing transactions.
THEOREM StoreSubscribes == StoreSpec => Reader!Spec
<1>1. StoreInit => StoreInv /\ Reader!Init
  BY InitInv, Reader!InitInv, SameReader, ReaderAssumptions DEF StoreInit, StoreInv
<1>2. StoreInv /\ [StoreNext]_storeVars => [Reader!Next]_(Reader!vars)
  <2> SUFFICES ASSUME IInv, [StoreNext]_storeVars
               PROVE  [Reader!Next]_(Reader!vars)
    BY DEF StoreInv
  <2>1. UNCHANGED <<events, notes, readerVars>> => UNCHANGED Reader!vars
    BY DEF readerVars, Reader!vars, Reader!pageVars, Reader!connVars, Reader!loopVars,
           Reader!envVars, Reader!consumerVars
  <2>2. CASE UNCHANGED storeVars
    BY <2>1, <2>2 DEF storeVars, vars
  <2>3. CASE AppendSide
    BY <2>1, <2>3, AppendSideCommits DEF Reader!Next
  <2>4. CASE ReadSide
    BY <2>4, SameReader DEF ReadSide, Reader!Next
  <2> QED
    BY <2>2, <2>3, <2>4 DEF StoreNext
<1> QED
  BY <1>1, <1>2, StoreNextInv, PTL DEF StoreSpec, Reader!Spec

\* From the Append of one process to the consumer of another: whatever races,
\* rolls back, crashes, disconnects or restarts, the consumer receives the
\* committed events from the front and in order, and the outages are counted.
THEOREM StoreReadsLog == StoreSpec => Reader!LogSpec /\ []Reader!OutageCounted
<1>1. Reader!Spec => Reader!LogSpec
  BY Reader!SubscriptionReadsLog, ReaderAssumptions
<1>2. Reader!Spec => []Reader!OutageCounted
  BY Reader!OutagesCounted, ReaderAssumptions
<1> QED
  BY <1>1, <1>2, StoreSubscribes, PTL
-----------------------------------------------------------------------------
(***************************************************************************)
(* The event store of mysql as a whole: the same transactions of           *)
(* EventAppend, and a subscription that polls the table they write.        *)
(***************************************************************************)
pollerVars == <<phase, ch, position, page, fullPage, cancelled, faultsLeft, consumed,
                checkpoint, restartsLeft>>

MySqlStoreInit == Init /\ Reader!My!Init

WriteSide == Next /\ UNCHANGED pollerVars

PollSide ==
    /\ \/ Reader!My!LoopStep \/ Reader!My!PollFails \/ Reader!My!Cancel
       \/ Reader!My!Consume \/ Reader!My!Resubscribe
    /\ UNCHANGED <<nextPos, lock, txVars, callsLeft>>

MySqlStoreSpec ==
    MySqlStoreInit /\ [][WriteSide \/ PollSide]_<<vars, pollerVars>>

\* A commit of the append side is a commit as the polling loop knows it.
LEMMA WriteSideCommits ==
    ASSUME IInv, WriteSide
    PROVE  \/ UNCHANGED <<events, pollerVars>>
           \/ \E R \in SUBSET Row : Reader!My!Commit(R)
<1>1. CASE events' = events
  BY <1>1 DEF WriteSide
<1>2. CASE events' # events
  <2> DEFINE R == events' \ events
  <2>1. Log!Publish(R) /\ UNCHANGED pollerVars
    BY <1>2, StepPublishes DEF WriteSide
  <2>2. Reader!My!IsFiniteSet(R)
    BY <2>1 DEF Log!Publish, Log!IsFiniteSet, Reader!My!IsFiniteSet
  <2>3. Reader!My!Publish(R)
    BY <2>1, <2>2 DEF Log!Publish, Log!Distinct, Log!Above, Reader!My!Publish,
                      Reader!My!Distinct, Reader!My!Above, pollerVars
  <2>4. R \in SUBSET Row
    BY <2>1 DEF Log!Publish
  <2>5. Reader!My!Commit(R)
    BY <2>1, <2>3 DEF Reader!My!Commit, Reader!My!pollVars, pollerVars
  <2> QED
    BY <2>4, <2>5
<1> QED
  BY <1>1, <1>2

\* A poll, a send or a restart leaves the table alone.
LEMMA PollSideReads == PollSide => UNCHANGED vars
BY DEF PollSide, Reader!My!LoopStep, Reader!My!Poll, Reader!My!Send, Reader!My!BatchDone,
       Reader!My!Tick, Reader!My!Stop, Reader!My!PollFails, Reader!My!Cancel,
       Reader!My!Consume, Reader!My!Resubscribe, vars

\* To the appending transactions the polling loop is invisible.
LEMMA MySqlStoreStep ==
    [WriteSide \/ PollSide]_<<vars, pollerVars>> => [Next]_vars
BY PollSideReads DEF WriteSide

\* The mysql store does what EventAppend does, and to the polling loop the
\* transactions are its environment: whatever was proved of either side alone
\* holds of the store.
THEOREM MySqlStoreComposes == MySqlStoreSpec => Spec /\ Reader!My!Spec
<1>1. MySqlStoreInit => IInv /\ Init /\ Reader!My!Init
  BY InitInv DEF MySqlStoreInit
<1>2. IInv /\ [Next]_vars => IInv'
  BY NextInv
<1>3. IInv /\ [WriteSide \/ PollSide]_<<vars, pollerVars>>
        => [Reader!My!Next]_(Reader!My!vars)
  <2> SUFFICES ASSUME IInv, [WriteSide \/ PollSide]_<<vars, pollerVars>>
               PROVE  [Reader!My!Next]_(Reader!My!vars)
    OBVIOUS
  <2>1. UNCHANGED <<events, pollerVars>> => UNCHANGED Reader!My!vars
    BY DEF pollerVars, Reader!My!vars, Reader!My!pollVars, Reader!My!consumerVars
  <2>2. CASE UNCHANGED <<vars, pollerVars>>
    BY <2>1, <2>2 DEF vars
  <2>3. CASE WriteSide
    BY <2>1, <2>3, WriteSideCommits DEF Reader!My!Next
  <2>4. CASE PollSide
    BY <2>4 DEF PollSide, Reader!My!Next
  <2> QED
    BY <2>2, <2>3, <2>4
<1> QED
  BY <1>1, <1>2, <1>3, MySqlStoreStep, PTL DEF MySqlStoreSpec, Spec, Reader!My!Spec

\* The commit that AUTO_INCREMENT and overlapping transactions could show too
\* late (issue #60) is not lost to the polling loop either, and the consumer
\* receives the committed events from the front and in order.
THEOREM MySqlStoreReadsLog ==
    MySqlStoreSpec => Reader!LogSpec /\ []Reader!NothingSkipped
<1>1. Reader!My!Spec => Reader!LogSpec
  BY Reader!PollingReadsLog, ReaderAssumptions
<1>2. Reader!My!Spec => []Reader!NothingSkipped
  BY Reader!PollingLossless, ReaderAssumptions
<1> QED
  BY <1>1, <1>2, MySqlStoreComposes, PTL

\* In the whole mysql store streams are contiguous and contracts are created
\* once; batches are whole where no callback commits over a failed append.
THEOREM MySqlStoreKeepsBatches ==
    /\ MySqlStoreSpec => [](StreamsContiguous /\ OneContractPerKey)
    /\ ~Swallow => (MySqlStoreSpec => []BatchAtomic)
<1>1. ASSUME ~Swallow PROVE Spec => []BatchAtomic
  BY <1>1, WholeBatches
<1>2. MySqlStoreSpec => [](StreamsContiguous /\ OneContractPerKey)
  BY MySqlStoreComposes, ContiguousStreams, OneContract, PTL
<1>3. ASSUME ~Swallow PROVE MySqlStoreSpec => []BatchAtomic
  BY <1>1, <1>3, MySqlStoreComposes, PTL
<1> QED
  BY <1>2, <1>3
=============================================================================
