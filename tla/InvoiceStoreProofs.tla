------------------------- MODULE InvoiceStoreProofs -------------------------
(***************************************************************************)
(* Theorems about InvoiceStore, for any callers, versions and clocks and   *)
(* either database: its types, that the history is complete, and that no   *)
(* update is lost before an entity kept over a rollback is saved (never,   *)
(* if no caller keeps one), and that recorded history is never rewritten.  *)
(*                                                                         *)
(* The argument has two parts.  A transaction that wrote holds the row     *)
(* lock (Locked), so the row and the history it started from are still the *)
(* committed ones when it commits, and its own history is complete like    *)
(* theirs (Histories).  And an entity never expects a lock_version ahead   *)
(* of the row's; expecting just the row's, it was made from the row as it  *)
(* is (Lineage), because every committed save raises lock_version          *)
(* (Raised).  Both fail once a kept entity is saved, which is what         *)
(* KeptSaved excuses.                                                      *)
(***************************************************************************)
EXTENDS InvoiceStore, TLAPS

\* H holds one row per version up to v, each closed when the next begins.
Complete(H, v) ==
    /\ \A h \in H : h.ver <= v
    /\ \A n \in 1..v : \E h \in H : h.ver = n
    /\ \A h, g \in H : h.ver = g.ver => h = g
    /\ \A h \in H : (h.to = Open) <=> (h.ver = v)
    /\ \A h, g \in H : g.ver = h.ver + 1 => h.to = g.from

\* No row of H begins in the future; on mysql none ends before it begins.
Timely(H) ==
    \A h \in H : h.from <= clock /\ (dialect = "mysql" => h.from <= h.to)

KeptSaved(H) == \E g \in H : g.kept

\* Rows of H that overwrote what they had not seen come after a kept save.
Seen(H) == \A h \in H : h.base = h.ver - 1 \/ \E g \in H : g.kept /\ g.ver <= h.ver

Sound(H, v) == Complete(H, v) /\ Timely(H) /\ Seen(H)

\* The committed history and those of the open transactions.
Histories ==
    /\ Sound(history, row.ver)
    /\ \A p \in Proc : wrote[p] => /\ Sound(ownHist[p], ownRow[p].ver)
                                   /\ ownRow[p].ver > 0 /\ ownRow[p].ver >= row.ver
                                   /\ KeptSaved(history) => KeptSaved(ownHist[p])

\* A transaction that wrote holds the row lock, and its entity.
Locked ==
    \A p \in Proc : wrote[p] => /\ locker = p /\ pc[p] \in {"tx", "saved"}
                                /\ entity[p].held
                                /\ entity[p].loaded = ownRow[p].lockVersion

\* A new invoice has one holder until it is stored.
OneHolder ==
    row.ver = 0 => \A p, q \in Proc : entity[p].held /\ entity[q].held => p = q

\* An entity outside a transaction that wrote was made from an earlier row, or
\* from the row that is, and a change of it raises its version.
Grounded(e) ==
    /\ e.base <= row.ver
    /\ row.ver > 0 => /\ e.loaded <= row.lockVersion
                      /\ e.loaded = row.lockVersion => e.base = row.ver
                      /\ e.changed => e.loaded < e.version

Lineage ==
    KeptSaved(history) \/
    \A p \in Proc : entity[p].held /\ ~entity[p].kept /\ ~wrote[p] => Grounded(entity[p])

\* What a transaction wrote has a higher lock_version than what it will replace.
Raised ==
    \A p \in Proc : wrote[p] /\ row.ver > 0
        => KeptSaved(ownHist[p]) \/ row.lockVersion < ownRow[p].lockVersion

\* What any entity and any transaction is.
Versions == \A p \in Proc : /\ entity[p].loaded <= entity[p].version
                            /\ entity[p].changed => entity[p].held
                            /\ began[p] <= clock

IInv == TypeOK /\ Histories /\ Locked /\ OneHolder /\ Lineage /\ Raised /\ Versions
-----------------------------------------------------------------------------
(***************************************************************************)
(* Rows, entities and histories                                            *)
(***************************************************************************)
LEMMA EntityFields ==
    ASSUME NEW x \in Entity
    PROVE  /\ x.version \in Nat /\ x.loaded \in Nat /\ x.base \in Nat
           /\ x.held \in BOOLEAN /\ x.changed \in BOOLEAN /\ x.kept \in BOOLEAN
BY DEF Entity

LEMMA RowFields ==
    ASSUME NEW r \in InvoiceRow
    PROVE  r.ver \in Nat /\ r.lockVersion \in Nat
BY DEF InvoiceRow

LEMMA HistoryFields ==
    ASSUME NEW h \in HistoryRow
    PROVE  /\ h.ver \in Nat \ {0} /\ h.base \in Nat /\ h.kept \in BOOLEAN
           /\ h.from \in Time /\ h.to \in Time \union {Open}
BY DEF HistoryRow

LEMMA Times ==
    ASSUME NEW t \in Time
    PROVE  t \in Nat /\ t < Open /\ t # Open /\ Open \in Nat
BY InvoiceAssumption DEF Time, Open

LEMMA LoadedFields ==
    ASSUME NEW r \in InvoiceRow
    PROVE  /\ Loaded(r) \in Entity /\ Loaded(r).held /\ ~Loaded(r).kept
           /\ Loaded(r).version = r.lockVersion /\ Loaded(r).loaded = r.lockVersion
           /\ Loaded(r).base = r.ver /\ ~Loaded(r).changed
BY DEF InvoiceRow, Entity, Loaded

LEMMA SetVersionFields ==
    ASSUME NEW x \in Entity
    PROVE  /\ SetVersion(x) \in Entity /\ SetVersion(x).loaded = x.version
           /\ SetVersion(x).version = x.version /\ SetVersion(x).held = x.held
           /\ SetVersion(x).changed = x.changed
BY DEF Entity, SetVersion

\* What Close does to one row.
CloseRow(h, now) == IF h.to = Open THEN [h EXCEPT !.to = now] ELSE h

LEMMA ClosedFields ==
    ASSUME NEW h \in HistoryRow, NEW now \in Time
    PROVE  LET c == CloseRow(h, now)
           IN  /\ c \in HistoryRow
               /\ c.ver = h.ver /\ c.base = h.base /\ c.from = h.from /\ c.kept = h.kept
               /\ c.to = IF h.to = Open THEN now ELSE h.to
BY DEF HistoryRow, CloseRow

\* A history written on is as sound as it was, and kept saves stay in it.
LEMMA WrittenSound ==
    ASSUME NEW H \in SUBSET HistoryRow, NEW v \in Nat, Sound(H, v),
           NEW now \in Time, clock \in Time, now <= clock,
           dialect = "mysql" => now = clock,
           NEW n \in HistoryRow, n.ver = v + 1, n.from = now, n.to = Open,
           n.base = v \/ KeptSaved(H) \/ n.kept
    PROVE  LET W == Close(H, now) \union {n}
           IN  /\ W \in SUBSET HistoryRow /\ Sound(W, v + 1)
               /\ KeptSaved(H) \/ n.kept => KeptSaved(W)
<1> DEFINE W == Close(H, now) \union {n}
<1>1. W = {CloseRow(h, now) : h \in H} \union {n}
  BY DEF Close, CloseRow
<1>2. \A w \in W : w = n \/ \E h \in H : w = CloseRow(h, now)
  BY <1>1
<1>3. n \in W /\ \A h \in H : CloseRow(h, now) \in W
  BY <1>1
<1> HIDE DEF W
<1>4. W \in SUBSET HistoryRow
  BY <1>2, ClosedFields
<1>5. \A h \in H : h.ver \in Nat /\ h.ver <= v /\ h.ver # n.ver
  BY HistoryFields DEF Sound, Complete
<1>6. KeptSaved(H) \/ n.kept => KeptSaved(W)
  BY <1>3, ClosedFields DEF KeptSaved
<1>7. Complete(W, v + 1)
  <2>1. \A w \in W : w.ver <= v + 1
    BY <1>2, <1>5, ClosedFields
  <2>2. ASSUME NEW i \in 1..(v + 1) PROVE \E w \in W : w.ver = i
    <3>1. CASE i = v + 1
      BY <3>1, <1>3
    <3>2. CASE i # v + 1
      <4>1. i \in 1..v
        BY <3>2
      <4>2. PICK h \in H : h.ver = i
        BY <4>1 DEF Sound, Complete
      <4> QED
        BY <4>2, <1>3, ClosedFields
    <3> QED
      BY <3>1, <3>2
  <2>3. ASSUME NEW w \in W, NEW u \in W, w.ver = u.ver PROVE w = u
    <3>1. CASE w = n \/ u = n
      BY <3>1, <2>3, <1>2, <1>5, ClosedFields
    <3>2. CASE ~(w = n \/ u = n)
      <4>1. PICK h \in H : w = CloseRow(h, now)
        BY <3>2, <1>2
      <4>2. PICK g \in H : u = CloseRow(g, now)
        BY <3>2, <1>2
      <4>3. h.ver = g.ver
        BY <4>1, <4>2, <2>3, ClosedFields
      <4> QED
        BY <4>1, <4>2, <4>3 DEF Sound, Complete
    <3> QED
      BY <3>1, <3>2
  <2>4. ASSUME NEW w \in W PROVE (w.to = Open) <=> (w.ver = v + 1)
    <3>1. CASE w = n
      BY <3>1
    <3>2. CASE w # n
      <4>1. PICK h \in H : w = CloseRow(h, now)
        BY <3>2, <1>2
      <4>2. w.to # Open /\ w.ver = h.ver
        BY <4>1, ClosedFields, Times
      <4> QED
        BY <4>2, <1>5
    <3> QED
      BY <3>1, <3>2
  <2>5. ASSUME NEW w \in W, NEW u \in W, u.ver = w.ver + 1 PROVE w.to = u.from
    <3>1. w # n
      BY <2>5, <1>2, <1>5, ClosedFields
    <3>2. PICK h \in H : w = CloseRow(h, now)
      BY <3>1, <1>2
    <3>3. w.ver = h.ver /\ w.to = IF h.to = Open THEN now ELSE h.to
      BY <3>2, ClosedFields
    <3>4. CASE u = n
      <4>1. h.ver = v
        BY <3>4, <3>3, <2>5, <1>5
      <4> QED
        BY <4>1, <3>3, <3>4 DEF Sound, Complete
    <3>5. CASE u # n
      <4>1. PICK g \in H : u = CloseRow(g, now)
        BY <3>5, <1>2
      <4>2. g.ver = h.ver + 1 /\ u.from = g.from
        BY <4>1, <3>3, <2>5, ClosedFields
      <4>3. h.to = g.from
        BY <4>2 DEF Sound, Complete
      <4>4. h.to # Open
        BY <4>3, HistoryFields, Times
      <4> QED
        BY <4>2, <4>3, <4>4, <3>3
    <3> QED
      BY <3>4, <3>5
  <2> QED
    BY <2>1, <2>2, <2>3, <2>4, <2>5 DEF Complete
<1>8. Timely(W)
  <2> SUFFICES ASSUME NEW w \in W
      PROVE  w.from <= clock /\ (dialect = "mysql" => w.from <= w.to)
    BY DEF Timely
  <2>1. CASE w = n
    BY <2>1, Times
  <2>2. CASE w # n
    <3>1. PICK h \in H : w = CloseRow(h, now)
      BY <2>2, <1>2
    <3>2. h.from <= clock /\ (dialect = "mysql" => h.from <= h.to)
      BY DEF Sound, Timely
    <3> QED
      BY <3>1, <3>2, ClosedFields
  <2> QED
    BY <2>1, <2>2
<1>9. Seen(W)
  <2> SUFFICES ASSUME NEW w \in W
      PROVE  w.base = w.ver - 1 \/ \E g \in W : g.kept /\ g.ver <= w.ver
    BY DEF Seen
  <2>1. CASE w = n
    <3>1. CASE n.base = v
      BY <2>1, <3>1
    <3>2. CASE KeptSaved(H)
      <4>1. PICK g \in H : g.kept
        BY <3>2 DEF KeptSaved
      <4> QED
        BY <4>1, <2>1, <1>3, <1>5, ClosedFields
    <3>3. CASE n.kept
      BY <2>1, <3>3, <1>3
    <3> QED
      BY <3>1, <3>2, <3>3
  <2>2. CASE w # n
    <3>1. PICK h \in H : w = CloseRow(h, now)
      BY <2>2, <1>2
    <3>2. w.base = h.base /\ w.ver = h.ver
      BY <3>1, ClosedFields
    <3>3. CASE h.base = h.ver - 1
      BY <3>2, <3>3
    <3>4. CASE \E g \in H : g.kept /\ g.ver <= h.ver
      BY <3>2, <3>4, <1>3, ClosedFields
    <3> QED
      BY <3>3, <3>4 DEF Sound, Seen
  <2> QED
    BY <2>1, <2>2
<1> QED
  BY <1>4, <1>6, <1>7, <1>8, <1>9 DEF Sound, W
-----------------------------------------------------------------------------
LEMMA InitInv == Init => IInv
<1> SUFFICES ASSUME Init PROVE IInv
  OBVIOUS
<1>1. TypeOK
  BY InvoiceAssumption DEF Init, TypeOK, InvoiceRow, Entity, NoEntity, Time
<1>2. Sound(history, row.ver)
  BY DEF Init, Sound, Complete, Timely, Seen
<1>3. Histories /\ Locked /\ OneHolder /\ Raised
  BY <1>2 DEF Init, Histories, Locked, OneHolder, Raised, NoEntity
<1>4. Lineage /\ Versions
  BY DEF Init, Lineage, Versions, NoEntity
<1> QED
  BY <1>1, <1>3, <1>4 DEF IInv

\* What the other processes have, p leaves alone.
Others(p) ==
    \A q \in Proc \ {p} :
        /\ entity'[q] = entity[q] /\ pc'[q] = pc[q] /\ began'[q] = began[q]
        /\ wrote'[q] = wrote[q] /\ ownRow'[q] = ownRow[q] /\ ownHist'[q] = ownHist[q]
        /\ locker = q => locker' = q

\* A step after which p holds the entity x and its transaction, if it goes
\* on, has what it had.
LEMMA HoldInv ==
    ASSUME IInv, TypeOK', NEW p \in Proc, Others(p), NEW x \in Entity, entity'[p] = x,
           UNCHANGED <<dialect, row, history, clock>>,
           began'[p] <= clock, x.loaded <= x.version, x.changed => x.held,
           wrote'[p] => /\ wrote[p] /\ ownRow'[p] = ownRow[p] /\ ownHist'[p] = ownHist[p]
                        /\ locker' = p /\ pc'[p] \in {"tx", "saved"}
                        /\ x.held /\ x.loaded = ownRow[p].lockVersion,
           row.ver = 0 /\ x.held => entity[p].held \/ \A q \in Proc : ~entity[q].held,
           KeptSaved(history) \/ (x.held /\ ~x.kept /\ ~wrote'[p] => Grounded(x))
    PROVE  IInv'
<1>1. Histories'
  BY DEF IInv, Histories, Sound, Timely, Others
<1>2. Locked'
  BY DEF IInv, Locked, Others
<1>3. OneHolder'
  BY DEF IInv, OneHolder, Others
<1>4. Lineage'
  <2> SUFFICES ASSUME ~KeptSaved(history), NEW q \in Proc,
                      entity'[q].held, ~entity'[q].kept, ~wrote'[q]
      PROVE  Grounded(entity[q])'
    BY DEF Lineage
  <2>1. CASE q = p
    BY <2>1 DEF Grounded
  <2>2. CASE q # p
    BY <2>2 DEF IInv, Lineage, Others, Grounded
  <2> QED
    BY <2>1, <2>2
<1>5. Raised'
  BY DEF IInv, Raised, Others
<1>6. Versions'
  BY DEF IInv, Versions, Others
<1> QED
  BY <1>1, <1>2, <1>3, <1>4, <1>5, <1>6 DEF IInv

\* Steps that change only what p holds in memory, and may lock the row.
Takes(p, x) ==
    /\ entity' = [entity EXCEPT ![p] = x]
    /\ locker' = locker \/ (locker \in {NoProc, p} /\ locker' = p)
    /\ UNCHANGED <<dialect, row, history, clock, pc, began, ownRow, ownHist, wrote>>

\* The entity x may be what p holds.
Fits(p, x) ==
    /\ x \in Entity /\ x.loaded <= x.version /\ (x.changed => x.held)
    /\ wrote[p] => x.held /\ x.loaded = ownRow[p].lockVersion
    /\ row.ver = 0 /\ x.held => entity[p].held \/ \A q \in Proc : ~entity[q].held
    /\ KeptSaved(history) \/ (x.held /\ ~x.kept /\ ~wrote[p] => Grounded(x))

LEMMA MemoryInv ==
    ASSUME IInv, NEW p \in Proc, NEW x, Takes(p, x), Fits(p, x)
    PROVE  IInv'
<1> USE DEF Takes, Fits
<1>1. TypeOK'
  BY DEF IInv, TypeOK
<1>2. \A q \in Proc : entity'[q] = IF q = p THEN x ELSE entity[q]
  BY DEF IInv, TypeOK
<1>3. Others(p)
  BY <1>2, InvoiceAssumption DEF Others
<1>4. began'[p] <= clock
  BY DEF IInv, Versions
<1>5. wrote'[p] => locker' = p /\ pc'[p] \in {"tx", "saved"}
  BY DEF IInv, Locked
<1> QED
  BY <1>1, <1>2, <1>3, <1>4, <1>5, HoldInv

LEMMA NewInv == ASSUME IInv, NEW p \in Proc, New(p), dialect' = dialect PROVE IInv'
<1> DEFINE x == [NoEntity EXCEPT !.held = TRUE, !.changed = TRUE]
<1>1. /\ x \in Entity /\ x.base = 0 /\ x.loaded = 0 /\ x.version = 0 /\ x.held
      /\ entity' = [entity EXCEPT ![p] = x]
  BY DEF Entity, NoEntity, New
<1>2. Grounded(x)
  BY <1>1 DEF New, Grounded
<1>3. ~wrote[p]
  BY DEF New, IInv, Locked
<1>4. Takes(p, x)
  BY <1>1 DEF New, Takes
<1>5. Fits(p, x)
  BY <1>1, <1>2, <1>3 DEF New, Fits
<1> QED
  BY <1>4, <1>5, MemoryInv

LEMMA FindByIDInv == ASSUME IInv, NEW p \in Proc, FindByID(p), dialect' = dialect PROVE IInv'
<1> DEFINE x == Loaded(row)
<1>1. row \in InvoiceRow /\ row.ver \in Nat /\ row.lockVersion \in Nat
  BY RowFields DEF IInv, TypeOK
<1>2. /\ x \in Entity /\ x.loaded <= x.version /\ ~x.changed /\ Grounded(x)
      /\ entity' = [entity EXCEPT ![p] = x]
  BY <1>1, LoadedFields DEF FindByID, Grounded
<1>3. ~wrote[p]
  BY DEF FindByID, IInv, Locked
<1>4. Takes(p, x)
  BY <1>2 DEF FindByID, Takes
<1>5. Fits(p, x)
  BY <1>2, <1>3 DEF FindByID, Fits
<1> QED
  BY <1>4, <1>5, MemoryInv

LEMMA FindByIDForUpdateInv ==
    ASSUME IInv, NEW p \in Proc, FindByIDForUpdate(p), dialect' = dialect PROVE IInv'
<1> DEFINE r == Current(p)
           x == Loaded(r)
<1>1. r \in InvoiceRow /\ r.ver \in Nat /\ r.lockVersion \in Nat
  BY RowFields DEF IInv, TypeOK, Current
<1>2. /\ x \in Entity /\ x.loaded <= x.version /\ ~x.changed /\ x.held
      /\ x.loaded = r.lockVersion /\ entity' = [entity EXCEPT ![p] = x]
  BY <1>1, LoadedFields DEF FindByIDForUpdate
<1>3. wrote[p] => r = ownRow[p] /\ entity[p].held
  BY DEF Current, IInv, Locked
<1>4. ~wrote[p] => Grounded(x) /\ row.ver > 0
  BY <1>1, LoadedFields DEF Current, FindByIDForUpdate, Grounded
<1>5. Takes(p, x)
  BY <1>2 DEF FindByIDForUpdate, Takes
<1> HIDE DEF r, x
<1>6. Fits(p, x)
  BY <1>2, <1>3, <1>4 DEF Fits
<1> QED
  BY <1>5, <1>6, MemoryInv

\* A mutated entity.
Mutated(x, version) == [x EXCEPT !.version = version, !.changed = TRUE]

LEMMA MutatedFields ==
    ASSUME NEW x \in Entity, NEW version \in Nat
    PROVE  LET y == Mutated(x, version)
           IN  /\ y \in Entity /\ y.version = version
               /\ y.loaded = x.loaded /\ y.base = x.base
               /\ y.held = x.held /\ y.kept = x.kept
BY DEF Entity, Mutated

LEMMA MutateInv == ASSUME IInv, NEW p \in Proc, Mutate(p), dialect' = dialect PROVE IInv'
<1>0. entity[p] \in Entity
  BY DEF IInv, TypeOK
<1> PICK d \in Entity : d = entity[p]
  BY <1>0
<1> DEFINE x == Mutated(d, d.version + 1)
<1>1. entity' = [entity EXCEPT ![p] = x]
  <2>1. entity' = [entity EXCEPT ![p] = [entity[p] EXCEPT !.version = @ + 1,
                                                          !.changed = TRUE]]
    BY Zenon DEF Mutate, IInv, TypeOK
  <2> QED
    BY <2>1 DEF Mutated
<1>2. /\ d.held /\ d.loaded <= d.version /\ d.version \in Nat /\ d.loaded \in Nat
      /\ wrote[p] => d.loaded = ownRow[p].lockVersion
      /\ KeptSaved(history) \/ (~d.kept /\ ~wrote[p] => Grounded(d))
  BY EntityFields DEF Mutate, IInv, Versions, Locked, Lineage
<1>3. /\ x \in Entity /\ x.version = d.version + 1 /\ x.loaded = d.loaded
      /\ x.base = d.base /\ x.held = d.held /\ x.kept = d.kept
  <2>1. d.version + 1 \in Nat
    BY <1>2
  <2> QED
    BY <2>1, MutatedFields
<1> HIDE DEF x
<1>4. Takes(p, x)
  BY <1>1 DEF Mutate, Takes
<1>5. Grounded(d) => Grounded(x)
  BY <1>2, <1>3 DEF Grounded
<1>6. Fits(p, x)
  BY <1>2, <1>3, <1>5 DEF Fits
<1> QED
  BY <1>4, <1>6, MemoryInv

LEMMA BeginInv ==
    ASSUME IInv, NEW p \in Proc, NEW kind \in {"tx", "save"}, Begin(p, kind),
           dialect' = dialect
    PROVE  IInv'
<1>1. TypeOK'
  BY DEF IInv, TypeOK, Begin
<1>2. Others(p) /\ began'[p] = clock /\ clock \in Nat
  BY Times DEF IInv, TypeOK, Begin, Others
<1>3. ~wrote[p]
  BY DEF IInv, Locked, Begin
<1>4. entity[p] \in Entity
  BY DEF IInv, TypeOK
<1> PICK x \in Entity : x = entity[p]
  BY <1>4
<1>5. /\ x.loaded <= x.version /\ (x.changed => x.held)
      /\ KeptSaved(history) \/ (x.held /\ ~x.kept => Grounded(x))
  BY <1>3 DEF IInv, Versions, Lineage
<1>6. entity'[p] = x /\ wrote'[p] = wrote[p] /\ UNCHANGED <<dialect, row, history, clock>>
  BY DEF Begin
<1> QED
  BY <1>1, <1>2, <1>3, <1>5, <1>6, HoldInv

\* The end of a transaction that changes nothing that is committed.
LEMMA EndInv ==
    ASSUME IInv, NEW p \in Proc, NEW x \in Entity, EndTx(p, x),
           UNCHANGED <<dialect, row, history>>,
           x.loaded <= x.version, x.changed => x.held, x.held => entity[p].held,
           KeptSaved(history) \/ (x.held /\ ~x.kept => Grounded(x))
    PROVE  IInv'
<1>1. TypeOK'
  BY InvoiceAssumption DEF IInv, TypeOK, EndTx, InvoiceRow, Time
<1>2. Others(p) /\ entity'[p] = x
  BY InvoiceAssumption DEF IInv, TypeOK, EndTx, Others
<1>3. ~wrote'[p] /\ began'[p] <= clock /\ clock' = clock
  BY Times DEF IInv, TypeOK, EndTx
<1> QED
  BY <1>1, <1>2, <1>3, HoldInv

LEMMA NobodyHolds ==
    ASSUME IInv, NEW p \in Proc, EndTx(p, NoEntity), UNCHANGED <<dialect, row, history>>
    PROVE  IInv'
<1>1. /\ NoEntity \in Entity /\ NoEntity.loaded <= NoEntity.version
      /\ ~NoEntity.held /\ ~NoEntity.changed
  BY DEF Entity, NoEntity
<1> QED
  BY <1>1, EndInv

LEMMA VersionConflictInv ==
    ASSUME IInv, NEW p \in Proc, VersionConflict(p), dialect' = dialect PROVE IInv'
BY NobodyHolds DEF VersionConflict

\* An entity kept over a rollback.
Kept(x, base, kept) == [x EXCEPT !.base = base, !.kept = kept]

LEMMA KeptFields ==
    ASSUME NEW x \in Entity, NEW base \in Nat, NEW kept \in BOOLEAN
    PROVE  LET y == Kept(x, base, kept)
           IN  /\ y \in Entity /\ y.version = x.version /\ y.loaded = x.loaded
               /\ y.held = x.held /\ y.changed = x.changed
               /\ y.base = base /\ y.kept = kept
BY DEF Entity, Kept

LEMMA RollbackInv == ASSUME IInv, NEW p \in Proc, Rollback(p), dialect' = dialect PROVE IInv'
<1>1. CASE EndTx(p, NoEntity)
  BY <1>1, NobodyHolds DEF Rollback
<1>2. CASE EndTx(p, [entity[p] EXCEPT !.base = Smaller(@, row.ver), !.kept = @ \/ wrote[p]])
  <2>1. entity[p] \in Entity
    BY DEF IInv, TypeOK
  <2> PICK d \in Entity : d = entity[p]
    BY <2>1
  <2> DEFINE base == Smaller(d.base, row.ver)
             kept == d.kept \/ wrote[p]
             x == Kept(d, base, kept)
  <2>2. EndTx(p, x)
    <3>1. x = [entity[p] EXCEPT !.base = Smaller(@, row.ver), !.kept = @ \/ wrote[p]]
      BY Zenon DEF Kept
    <3> QED
      BY <1>2, <3>1
  <2>3. d.base \in Nat /\ row.ver \in Nat /\ base \in Nat /\ base <= row.ver
    BY EntityFields, RowFields DEF Smaller, IInv, TypeOK
  <2>4. kept \in BOOLEAN
    BY Zenon
  <2> HIDE DEF base, kept
  <2>5. /\ x \in Entity /\ x.version = d.version /\ x.loaded = d.loaded
        /\ x.held = d.held /\ x.changed = d.changed /\ x.base = base /\ x.kept = kept
    BY <2>3, <2>4, KeptFields
  <2> HIDE DEF x
  <2>6. d.loaded <= d.version /\ (d.changed => d.held)
    BY DEF IInv, Versions
  <2>7. ASSUME x.held, ~x.kept, ~KeptSaved(history) PROVE Grounded(x)
    <3>1. ~d.kept /\ ~wrote[p]
      BY <2>5, <2>7 DEF kept
    <3>2. Grounded(d)
      BY <3>1, <2>5, <2>7 DEF IInv, Lineage
    <3>3. base = d.base
      BY <3>2, <2>3 DEF Grounded, Smaller, base
    <3> QED
      BY <3>2, <3>3, <2>5 DEF Grounded
  <2> QED
    BY <2>2, <2>5, <2>6, <2>7, EndInv DEF Rollback
<1> QED
  BY <1>1, <1>2 DEF Rollback

\* The history row that p's save writes.
LEMMA NewHistoryFields ==
    ASSUME NEW p \in Proc, NEW v \in Nat \ {0}, NEW now \in Time, TypeOK
    PROVE  LET n == NewHistory(p, v, now)
           IN  /\ n \in HistoryRow /\ n.ver = v /\ n.from = now /\ n.to = Open
               /\ n.base = IF wrote[p] THEN v - 1 ELSE entity[p].base
               /\ n.kept = entity[p].kept
<1>1. entity[p] \in Entity
  BY DEF TypeOK
<1>2. entity[p].base \in Nat /\ entity[p].kept \in BOOLEAN /\ v - 1 \in Nat
  BY <1>1, EntityFields
<1> QED
  BY <1>2 DEF NewHistory, HistoryRow

\* A save writes a sound history, of the version after the one it replaces.
LEMMA SavedHistory ==
    ASSUME IInv, NEW p \in Proc, SaveOn(p)
    PROVE  LET v == Current(p).ver + 1
               W == WriteHistory(p, v, HistoryTime(p))
           IN  /\ W \in SUBSET HistoryRow /\ Sound(W, v)
               /\ KeptSaved(CurrentHistory(p)) \/ entity[p].kept => KeptSaved(W)
<1> DEFINE r == Current(p)
           H == CurrentHistory(p)
           now == HistoryTime(p)
           n == NewHistory(p, r.ver + 1, now)
<1>1. r \in InvoiceRow /\ r.ver \in Nat /\ H \in SUBSET HistoryRow
  BY RowFields DEF IInv, TypeOK, Current, CurrentHistory
<1>2. Sound(H, r.ver)
  BY DEF IInv, Histories, Current, CurrentHistory
<1>3. /\ now \in Time /\ clock \in Time /\ now <= clock
      /\ dialect = "mysql" => now = clock
  BY Times DEF IInv, TypeOK, Versions, HistoryTime, PgHistoryTime, MySqlHistoryTime
<1>4. /\ n \in HistoryRow /\ n.ver = r.ver + 1 /\ n.from = now /\ n.to = Open
      /\ n.base = IF wrote[p] THEN r.ver ELSE entity[p].base
      /\ n.kept = entity[p].kept
  BY <1>1, <1>3, NewHistoryFields DEF IInv
<1>5. n.base = r.ver \/ KeptSaved(H) \/ n.kept
  <2> SUFFICES ASSUME ~wrote[p], ~KeptSaved(history), ~entity[p].kept
      PROVE  entity[p].base = row.ver
    BY <1>4 DEF Current, CurrentHistory
  <2>1. entity[p].held /\ Grounded(entity[p])
    BY DEF SaveOn, IInv, Versions, Lineage
  <2>2. row.ver = 0 \/ row.lockVersion = entity[p].loaded
    BY DEF SaveOn, GuardPasses, Current
  <2>3. entity[p] \in Entity /\ entity[p].base \in Nat /\ row.ver \in Nat
    BY EntityFields, RowFields DEF IInv, TypeOK
  <2> QED
    BY <2>1, <2>2, <2>3 DEF Grounded
<1> HIDE DEF n, H, r, now
<1>6. LET W == Close(H, now) \union {n}
      IN  /\ W \in SUBSET HistoryRow /\ Sound(W, r.ver + 1)
          /\ KeptSaved(H) \/ n.kept => KeptSaved(W)
  BY <1>1, <1>2, <1>3, <1>4, <1>5, WrittenSound
<1> QED
  BY <1>4, <1>6 DEF WriteHistory, n, H, r, now

LEMMA SaveOnInv == ASSUME IInv, NEW p \in Proc, SaveOn(p), dialect' = dialect PROVE IInv'
<1>0. entity[p] \in Entity
  BY DEF IInv, TypeOK
<1> PICK d \in Entity : d = entity[p]
  BY <1>0
<1>1. Current(p) \in InvoiceRow /\ CurrentHistory(p) \in SUBSET HistoryRow
  BY DEF IInv, TypeOK, Current, CurrentHistory
<1> PICK r \in InvoiceRow : r = Current(p)
  BY <1>1
<1> DEFINE v == r.ver + 1
           x == SetVersion(d)
           new == [ver |-> v, lockVersion |-> d.version]
<1>2. WriteHistory(p, v, HistoryTime(p)) \in SUBSET HistoryRow
  BY SavedHistory
<1> PICK W \in SUBSET HistoryRow : W = WriteHistory(p, v, HistoryTime(p))
  BY <1>2
<1>3. /\ Sound(W, v)
      /\ KeptSaved(CurrentHistory(p)) \/ d.kept => KeptSaved(W)
  BY SavedHistory
<1>4. r.ver \in Nat /\ r.lockVersion \in Nat /\ v \in Nat /\ d.version \in Nat
  BY RowFields, EntityFields
<1>5. /\ new \in InvoiceRow /\ new.ver = v /\ new.lockVersion = d.version
  BY <1>4 DEF InvoiceRow
<1>6. /\ x \in Entity /\ x.loaded = d.version /\ x.version = d.version
      /\ x.held = d.held /\ x.changed = d.changed
  BY SetVersionFields
<1> HIDE DEF new, x
<1>7. /\ ownRow' = [ownRow EXCEPT ![p] = new] /\ ownHist' = [ownHist EXCEPT ![p] = W]
      /\ entity' = [entity EXCEPT ![p] = x] /\ wrote' = [wrote EXCEPT ![p] = TRUE]
      /\ pc' = [pc EXCEPT ![p] = IF pc[p] = "save" THEN "saved" ELSE pc[p]]
  BY DEF SaveOn, new, x, IInv, TypeOK
<1>8. /\ locker' = p /\ locker \in {NoProc, p} /\ pc[p] \in {"tx", "save"}
      /\ UNCHANGED <<dialect, row, history, clock, began>>
  BY DEF SaveOn
<1>9. TypeOK'
  BY <1>5, <1>6, <1>7, <1>8 DEF IInv, TypeOK
<1>10. /\ entity'[p] = x /\ wrote'[p] /\ ownRow'[p] = new /\ ownHist'[p] = W
       /\ pc'[p] \in {"tx", "saved"}
  BY <1>7, <1>8 DEF IInv, TypeOK
<1>11. \A q \in Proc \ {p} : /\ entity'[q] = entity[q] /\ pc'[q] = pc[q]
                             /\ wrote'[q] = wrote[q] /\ ~wrote[q]
  BY <1>7, <1>8, InvoiceAssumption DEF IInv, TypeOK, Locked
<1>12. d.held /\ d.loaded \in Nat /\ d.loaded <= d.version
  BY EntityFields DEF SaveOn, IInv, Versions
<1>13. Histories'
  <2>1. Sound(history, row.ver)' /\ Sound(W, v)'
    BY <1>3, <1>8 DEF IInv, Histories, Sound, Timely
  <2>2. v > 0 /\ v >= row.ver /\ row.ver \in Nat
    BY <1>4, RowFields DEF IInv, TypeOK, Histories, Current
  <2>3. KeptSaved(history) => KeptSaved(W)
    BY <1>3 DEF IInv, Histories, CurrentHistory
  <2> QED
    BY <2>1, <2>2, <2>3, <1>5, <1>8, <1>10, <1>11 DEF Histories
<1>14. Locked'
  BY <1>5, <1>6, <1>8, <1>10, <1>11, <1>12 DEF Locked
<1>15. OneHolder'
  BY <1>6, <1>8, <1>10, <1>11, <1>12 DEF IInv, OneHolder
<1>16. Lineage'
  <2> SUFFICES ASSUME ~KeptSaved(history), NEW q \in Proc,
                      entity'[q].held, ~entity'[q].kept, ~wrote'[q]
      PROVE  Grounded(entity[q])'
    BY <1>8 DEF Lineage
  <2>1. q # p /\ entity'[q] = entity[q] /\ ~wrote[q]
    BY <1>10, <1>11
  <2>2. Grounded(entity[q])
    BY <2>1 DEF IInv, Lineage
  <2> QED
    BY <2>1, <2>2, <1>8 DEF Grounded
<1>17. Raised'
  <2> SUFFICES ASSUME row.ver > 0, ~KeptSaved(W)
      PROVE  row.lockVersion < d.version
    BY <1>5, <1>8, <1>10, <1>11 DEF Raised
  <2>1. row.lockVersion \in Nat /\ row.ver \in Nat
    BY RowFields DEF IInv, TypeOK
  <2>2. ~d.kept /\ ~KeptSaved(CurrentHistory(p))
    BY <1>3
  <2>3. CASE wrote[p]
    <3>1. ownRow[p] = r /\ d.loaded = r.lockVersion /\ row.lockVersion < r.lockVersion
      BY <2>2, <2>3 DEF IInv, Locked, Raised, Current, CurrentHistory
    <3> QED
      BY <3>1, <2>1, <1>4, <1>12
  <2>4. CASE ~wrote[p]
    <3>1. Grounded(d)
      BY <2>2, <2>4, <1>12 DEF IInv, Lineage, CurrentHistory
    <3>2. d.changed /\ d.loaded = row.lockVersion
      BY <2>1, <2>4 DEF SaveOn, GuardPasses, Current
    <3> QED
      BY <3>1, <3>2 DEF Grounded
  <2> QED
    BY <2>3, <2>4
<1>18. Versions'
  <2> SUFFICES ASSUME NEW q \in Proc
      PROVE  /\ entity'[q].loaded <= entity'[q].version
             /\ entity'[q].changed => entity'[q].held
             /\ began'[q] <= clock'
    BY DEF Versions
  <2>1. began'[q] <= clock'
    BY <1>8 DEF IInv, Versions
  <2>2. CASE q = p
    <3>1. x.loaded <= x.version /\ x.held
      BY <1>4, <1>6, <1>12
    <3>2. entity'[q] = x
      BY <2>2, <1>10
    <3> QED
      BY <3>1, <3>2, <2>1
  <2>3. CASE q # p
    BY <2>1, <2>3, <1>11 DEF IInv, Versions
  <2> QED
    BY <2>2, <2>3
<1> QED
  BY <1>9, <1>13, <1>14, <1>15, <1>16, <1>17, <1>18 DEF IInv

\* What a committed entity is.
Committed(x, ver) == [x EXCEPT !.base = ver, !.changed = FALSE, !.kept = FALSE]

LEMMA CommittedFields ==
    ASSUME NEW x \in Entity, NEW ver \in Nat
    PROVE  LET y == Committed(x, ver)
           IN  /\ y \in Entity /\ y.version = x.version /\ y.loaded = x.loaded
               /\ y.held = x.held /\ ~y.changed /\ y.base = ver
BY DEF Entity, Committed

LEMMA CommitInv == ASSUME IInv, NEW p \in Proc, Commit(p), dialect' = dialect PROVE IInv'
<1>0. entity[p] \in Entity /\ ownRow[p] \in InvoiceRow /\ ownHist[p] \in SUBSET HistoryRow
  BY DEF IInv, TypeOK
<1> PICK d \in Entity : d = entity[p]
  BY <1>0
<1>1. d.loaded <= d.version /\ (d.changed => d.held)
  BY DEF IInv, Versions
<1>2. CASE ~wrote[p]
  <2>1. EndTx(p, d) /\ row' = row /\ history' = history
    BY <1>2 DEF Commit, Current, CurrentHistory
  <2>2. KeptSaved(history) \/ (d.held /\ ~d.kept => Grounded(d))
    BY <1>2 DEF IInv, Lineage
  <2> QED
    BY <2>1, <2>2, <1>1, EndInv
<1>3. CASE wrote[p]
  <2> DEFINE x == Committed(d, ownRow[p].ver)
  <2> PICK r \in InvoiceRow : r = ownRow[p]
    BY <1>0
  <2> PICK H \in SUBSET HistoryRow : H = ownHist[p]
    BY <1>0
  <2>1. r.ver \in Nat /\ r.lockVersion \in Nat
    BY RowFields
  <2>2. /\ x \in Entity /\ x.version = d.version /\ x.loaded = d.loaded
        /\ x.held = d.held /\ ~x.changed /\ x.base = r.ver
    BY <2>1, CommittedFields
  <2>3. EndTx(p, x)
    <3>1. x = [entity[p] EXCEPT !.base = ownRow[p].ver, !.changed = FALSE, !.kept = FALSE]
      BY Zenon DEF Committed
    <3> QED
      BY <1>3, <3>1 DEF Commit
  <2> HIDE DEF x
  <2>4. row' = r /\ history' = H /\ clock' = clock
    BY <1>3 DEF Commit, Current, CurrentHistory, EndTx
  <2>5. /\ Sound(H, r.ver) /\ r.ver > 0 /\ r.ver >= row.ver
        /\ KeptSaved(history) => KeptSaved(H)
    BY <1>3 DEF IInv, Histories
  <2>6. /\ locker = p /\ d.held /\ d.loaded = r.lockVersion
        /\ row.ver > 0 => KeptSaved(H) \/ row.lockVersion < r.lockVersion
    BY <1>3 DEF IInv, Locked, Raised
  <2>7. TypeOK'
    BY <2>2, <2>3, <2>4, InvoiceAssumption DEF IInv, TypeOK, EndTx, InvoiceRow, Time
  <2>8. entity'[p] = x /\ ~wrote'[p] /\ began'[p] <= clock
    BY <2>2, <2>3, Times DEF IInv, TypeOK, EndTx
  <2>9. \A q \in Proc \ {p} : /\ entity'[q] = entity[q] /\ began'[q] = began[q]
                              /\ ~wrote[q] /\ ~wrote'[q]
    BY <2>3, <2>6 DEF IInv, TypeOK, Locked, EndTx
  <2>10. Histories' /\ Locked' /\ OneHolder' /\ Raised'
    <3>1. Sound(H, r.ver)'
      BY <2>4, <2>5 DEF Sound, Timely
    <3> QED
      BY <2>1, <2>4, <2>5, <2>8, <2>9, <3>1 DEF Histories, Locked, OneHolder, Raised
  <2>11. Lineage'
    <3> SUFFICES ASSUME ~KeptSaved(H), NEW q \in Proc, entity'[q].held, ~entity'[q].kept
        PROVE  Grounded(entity[q])'
      BY <2>4 DEF Lineage
    <3>1. CASE q = p
      BY <3>1, <2>1, <2>2, <2>4, <2>6, <2>8 DEF Grounded
    <3>2. CASE q # p
      <4>1. entity'[q] = entity[q] /\ entity[q] \in Entity /\ ~wrote[q]
        BY <3>2, <2>9 DEF IInv, TypeOK
      <4> PICK e \in Entity : e = entity[q]
        BY <4>1
      <4>2. Grounded(e)
        BY <4>1, <2>5 DEF IInv, Lineage
      <4>3. row.ver \in Nat /\ row.lockVersion \in Nat
        BY RowFields DEF IInv, TypeOK
      <4>4. row.ver > 0
        BY <3>2, <4>1, <4>3, <2>6 DEF IInv, OneHolder
      <4>5. e.loaded < r.lockVersion /\ (e.changed => e.loaded < e.version) /\ e.base <= r.ver
        BY <4>2, <4>3, <4>4, <2>1, <2>5, <2>6, EntityFields DEF Grounded
      <4>6. Grounded(e)'
        BY <4>5, <2>1, <2>4, EntityFields DEF Grounded
      <4> QED
        BY <4>1, <4>6 DEF Grounded
    <3> QED
      BY <3>1, <3>2
  <2>12. Versions'
    <3> SUFFICES ASSUME NEW q \in Proc
        PROVE  /\ entity'[q].loaded <= entity'[q].version
               /\ entity'[q].changed => entity'[q].held
               /\ began'[q] <= clock'
      BY DEF Versions
    <3>1. CASE q = p
      BY <3>1, <1>1, <2>2, <2>4, <2>8
    <3>2. CASE q # p
      BY <3>2, <2>4, <2>9 DEF IInv, Versions
    <3> QED
      BY <3>1, <3>2
  <2> QED
    BY <2>7, <2>10, <2>11, <2>12 DEF IInv
<1> QED
  BY <1>2, <1>3

LEMMA TickInv == ASSUME IInv, Tick, dialect' = dialect PROVE IInv'
<1>1. TypeOK'
  BY InvoiceAssumption DEF IInv, TypeOK, Tick, Time
<1>2. clock \in Nat /\ clock' = clock + 1
  BY Times DEF IInv, TypeOK, Tick
<1>3. ASSUME NEW H \in SUBSET HistoryRow, NEW v, Sound(H, v) PROVE Sound(H, v)'
  <2>1. Timely(H)'
    <3> SUFFICES ASSUME NEW h \in H
        PROVE  h.from <= clock' /\ (dialect' = "mysql" => h.from <= h.to)
      BY DEF Timely
    <3>1. h.from \in Nat /\ h.from <= clock /\ (dialect = "mysql" => h.from <= h.to)
      BY <1>3, HistoryFields, Times DEF Sound, Timely
    <3> QED
      BY <3>1, <1>2
  <2> QED
    BY <1>3, <2>1 DEF Sound
<1>4. Histories'
  <2>1. Sound(history, row.ver)'
    <3>1. history \in SUBSET HistoryRow /\ Sound(history, row.ver)
      BY DEF IInv, TypeOK, Histories
    <3> PICK H \in SUBSET HistoryRow, v \in {row.ver} : H = history
      BY <3>1
    <3>2. Sound(H, v)'
      BY <3>1, <1>3
    <3> QED
      BY <3>2 DEF Tick, Sound, Timely
  <2>2. ASSUME NEW p \in Proc, wrote[p] PROVE Sound(ownHist[p], ownRow[p].ver)'
    <3>1. ownHist[p] \in SUBSET HistoryRow /\ Sound(ownHist[p], ownRow[p].ver)
      BY <2>2 DEF IInv, TypeOK, Histories
    <3> PICK H \in SUBSET HistoryRow, v \in {ownRow[p].ver} : H = ownHist[p]
      BY <3>1
    <3>2. Sound(H, v)'
      BY <3>1, <1>3
    <3> QED
      BY <3>2 DEF Tick, Sound, Timely
  <2> QED
    BY <2>1, <2>2 DEF IInv, Histories, Tick
<1>5. Locked' /\ OneHolder' /\ Raised'
  BY DEF IInv, Locked, OneHolder, Raised, Tick
<1>6. Lineage'
  BY DEF IInv, Lineage, Grounded, Tick
<1>7. Versions'
  <2>1. \A p \in Proc : began[p] \in Nat
    BY Times DEF IInv, TypeOK
  <2> QED
    BY <2>1, <1>2 DEF IInv, Versions, Tick
<1> QED
  BY <1>1, <1>4, <1>5, <1>6, <1>7 DEF IInv

LEMMA StutterInv == ASSUME IInv, UNCHANGED vars PROVE IInv'
<1> USE DEF vars
<1>1. TypeOK'
  BY DEF IInv, TypeOK
<1>2. Histories'
  BY DEF IInv, Histories, Sound, Timely
<1>3. Locked' /\ OneHolder' /\ Raised' /\ Versions'
  BY DEF IInv, Locked, OneHolder, Raised, Versions
<1>4. Lineage'
  BY DEF IInv, Lineage, Grounded
<1> QED
  BY <1>1, <1>2, <1>3, <1>4 DEF IInv

LEMMA NextInv == IInv /\ [Next /\ UNCHANGED dialect]_vars => IInv'
<1> SUFFICES ASSUME IInv, [Next /\ UNCHANGED dialect]_vars PROVE IInv'
  OBVIOUS
<1>1. CASE Tick /\ dialect' = dialect
  BY <1>1, TickInv
<1>2. ASSUME NEW p \in Proc, dialect' = dialect,
             \/ New(p) \/ FindByID(p) \/ FindByIDForUpdate(p) \/ Mutate(p)
             \/ \E kind \in {"tx", "save"} : Begin(p, kind)
             \/ SaveOn(p) \/ VersionConflict(p) \/ Commit(p) \/ Rollback(p)
      PROVE  IInv'
  BY <1>2, NewInv, FindByIDInv, FindByIDForUpdateInv, MutateInv, BeginInv, SaveOnInv,
     VersionConflictInv, CommitInv, RollbackInv
<1>3. CASE UNCHANGED vars
  BY <1>3, StutterInv
<1> QED
  BY <1>1, <1>2, <1>3 DEF Next

LEMMA SpecInv == Spec => []IInv
<1> QED
  BY InitInv, NextInv, PTL DEF Spec
-----------------------------------------------------------------------------
\* The variables hold values of their types in every reachable state.
THEOREM TypeCorrect == Spec => []TypeOK
<1>1. IInv => TypeOK
  BY DEF IInv
<1> QED
  BY <1>1, SpecInv, PTL

\* The history is complete after every save and every rollback (saveOn of both
\* adapters), whatever the transactions do and wherever their clocks stand.
THEOREM HistoryIsComplete == Spec => []HistoryComplete
<1>1. ASSUME IInv PROVE HistoryComplete
  <2>1. /\ Complete(history, row.ver) /\ Timely(history) /\ row.ver \in Nat
        /\ history \in SUBSET HistoryRow /\ clock \in Nat /\ clock < Open
    BY <1>1, RowFields, Times DEF IInv, TypeOK, Histories, Sound
  <2>2. {h.ver : h \in history} = 1..row.ver
    <3>1. ASSUME NEW h \in history PROVE h.ver \in 1..row.ver
      BY <2>1, HistoryFields DEF Complete
    <3>2. ASSUME NEW n \in 1..row.ver PROVE \E h \in history : h.ver = n
      BY <2>1 DEF Complete
    <3> QED
      BY <3>1, <3>2
  <2>3. /\ \A h, g \in history : h.ver = g.ver => h = g
        /\ \A h \in history : (h.to = Open) <=> (h.ver = row.ver)
        /\ \A h, g \in history : g.ver = h.ver + 1 => h.to = g.from
        /\ dialect = "mysql" => WindowsRunForward
    BY <2>1 DEF Complete, Timely, WindowsRunForward
  <2>4. ASSUME row.ver > 0 PROVE {h.ver : h \in AsOf(clock)} = {row.ver}
    <3>1. row.ver \in 1..row.ver
      BY <2>1, <2>4
    <3>2. PICK n \in history : n.ver = row.ver
      BY <2>1, <3>1 DEF Complete
    <3>3. n.to = Open /\ n.from <= clock
      BY <2>1, <3>2 DEF Complete, Timely
    <3>4. \A g \in history : g.ver \in Nat /\ g.ver <= n.ver
      BY <2>1, <3>2, HistoryFields DEF Complete
    <3>5. n \in AsOf(clock)
      BY <3>3, <3>4 DEF AsOf
    <3>6. ASSUME NEW h \in AsOf(clock) PROVE h.ver = n.ver
      <4>1. h \in history /\ n.ver <= h.ver
        BY <3>3, <3>6 DEF AsOf
      <4> QED
        BY <4>1, <3>2, <3>4
    <3> QED
      BY <3>2, <3>5, <3>6
  <2> QED
    BY <2>2, <2>3, <2>4 DEF HistoryComplete
<1> QED
  BY <1>1, SpecInv, PTL

\* Until an entity kept over a rollback is saved, no save loses an update: the
\* guard on lock_version in saveOn.
THEOREM LostOnlyAfterKept == Spec => []LostOnlyAfterKeptSave
<1>1. IInv => LostOnlyAfterKeptSave
  BY DEF IInv, Histories, Sound, Seen, LostOnlyAfterKeptSave
<1> QED
  BY <1>1, SpecInv, PTL
-----------------------------------------------------------------------------
\* No entity was kept over a rollback, so no row was saved from one.
Unkept ==
    /\ \A p \in Proc : ~entity[p].kept
    /\ ~KeptSaved(history) /\ \A p \in Proc : ~KeptSaved(ownHist[p])

\* Closing rows and adding one that is not of a kept entity makes none kept.
LEMMA WrittenUnkept ==
    ASSUME NEW H \in SUBSET HistoryRow, ~KeptSaved(H), NEW now \in Time,
           NEW n, ~n.kept
    PROVE  ~KeptSaved(Close(H, now) \union {n})
<1>1. \A w \in Close(H, now) \union {n} : w = n \/ \E h \in H : w = CloseRow(h, now)
  BY DEF Close, CloseRow
<1> QED
  BY <1>1, ClosedFields DEF KeptSaved

LEMMA UnkeptNext ==
    ASSUME ~KeepEntity, IInv, Unkept, [Next /\ UNCHANGED dialect]_vars
    PROVE  Unkept'
<1>1. ASSUME NEW p \in Proc, NEW x, ~x.kept, entity' = [entity EXCEPT ![p] = x],
             UNCHANGED <<history, ownHist>>
      PROVE  Unkept'
  BY <1>1 DEF IInv, TypeOK, Unkept
<1>2. ASSUME NEW p \in Proc, NEW x, ~x.kept, EndTx(p, x),
             history' = history \/ history' = CurrentHistory(p)
      PROVE  Unkept'
  <2>1. \A q \in Proc : /\ entity'[q] = IF q = p THEN x ELSE entity[q]
                        /\ ownHist'[q] = IF q = p THEN {} ELSE ownHist[q]
    BY <1>2 DEF IInv, TypeOK, EndTx
  <2>2. ~KeptSaved(history') /\ ~KeptSaved({})
    BY <1>2 DEF Unkept, CurrentHistory, KeptSaved
  <2> QED
    BY <1>2, <2>1, <2>2 DEF Unkept
<1>3. ASSUME NEW p \in Proc PROVE ~entity[p].kept /\ entity[p] \in Entity
  BY DEF Unkept, IInv, TypeOK
<1>4. ASSUME NEW p \in Proc, New(p) \/ FindByID(p) \/ FindByIDForUpdate(p) \/ Mutate(p)
      PROVE  Unkept'
  <2>1. CASE New(p)
    <3>1. ~[NoEntity EXCEPT !.held = TRUE, !.changed = TRUE].kept
      BY DEF NoEntity
    <3> QED
      BY <2>1, <3>1, <1>1 DEF New
  <2>2. CASE FindByID(p) \/ FindByIDForUpdate(p)
    <3>1. ~Loaded(row).kept /\ ~Loaded(Current(p)).kept
      BY DEF Loaded
    <3> QED
      BY <2>2, <3>1, <1>1 DEF FindByID, FindByIDForUpdate
  <2>3. CASE Mutate(p)
    <3>1. entity' = [entity EXCEPT ![p] = Mutated(entity[p], entity[p].version + 1)]
      BY <2>3, Zenon DEF Mutate, Mutated
    <3>2. ~Mutated(entity[p], entity[p].version + 1).kept
      <4>1. entity[p].version + 1 \in Nat
        BY <1>3, EntityFields
      <4> QED
        BY <4>1, <1>3, MutatedFields
    <3> QED
      BY <2>3, <3>1, <3>2, <1>1 DEF Mutate
  <2> QED
    BY <1>4, <2>1, <2>2, <2>3
<1>5. ASSUME NEW p \in Proc, SaveOn(p) PROVE Unkept'
  <2> DEFINE n == NewHistory(p, Current(p).ver + 1, HistoryTime(p))
             W == Close(CurrentHistory(p), HistoryTime(p)) \union {n}
             x == SetVersion(entity[p])
  <2>1. ~n.kept
    BY <1>3 DEF NewHistory
  <2>2. HistoryTime(p) \in Time /\ CurrentHistory(p) \in SUBSET HistoryRow
    BY DEF IInv, TypeOK, HistoryTime, PgHistoryTime, MySqlHistoryTime, CurrentHistory
  <2>3. ~KeptSaved(CurrentHistory(p))
    BY DEF Unkept, CurrentHistory
  <2> HIDE DEF n
  <2>4. ~KeptSaved(W)
    BY <2>1, <2>2, <2>3, WrittenUnkept
  <2>5. ~x.kept
    BY <1>3 DEF SetVersion, Entity
  <2>6. /\ ownHist' = [ownHist EXCEPT ![p] = W] /\ entity' = [entity EXCEPT ![p] = x]
        /\ history' = history
    BY <1>5 DEF SaveOn, WriteHistory, n, IInv, TypeOK
  <2> HIDE DEF W, x
  <2>7. \A q \in Proc : /\ entity'[q] = IF q = p THEN x ELSE entity[q]
                        /\ ownHist'[q] = IF q = p THEN W ELSE ownHist[q]
    BY <2>6 DEF IInv, TypeOK
  <2> QED
    BY <2>4, <2>5, <2>6, <2>7 DEF Unkept
<1>6. ASSUME NEW p \in Proc, VersionConflict(p) \/ Commit(p) \/ Rollback(p)
      PROVE  Unkept'
  <2>1. CASE VersionConflict(p) \/ Rollback(p)
    <3>1. EndTx(p, NoEntity) /\ history' = history
      BY <2>1 DEF VersionConflict, Rollback
    <3> QED
      BY <3>1, <1>2 DEF NoEntity
  <2>2. CASE Commit(p)
    <3>1. CASE ~wrote[p]
      BY <2>2, <3>1, <1>2, <1>3 DEF Commit
    <3>2. CASE wrote[p]
      <4> DEFINE x == Committed(entity[p], ownRow[p].ver)
      <4>1. EndTx(p, x)
        <5>1. x = [entity[p] EXCEPT !.base = ownRow[p].ver, !.changed = FALSE,
                                    !.kept = FALSE]
          BY Zenon DEF Committed
        <5> QED
          BY <2>2, <3>2, <5>1 DEF Commit
      <4>2. ~x.kept
        BY <1>3 DEF Committed, Entity
      <4> QED
        BY <4>1, <4>2, <2>2, <1>2 DEF Commit
    <3> QED
      BY <3>1, <3>2
  <2> QED
    BY <1>6, <2>1, <2>2
<1>7. CASE Tick \/ UNCHANGED vars \/ \E p \in Proc, kind \in {"tx", "save"} : Begin(p, kind)
  BY <1>7 DEF Unkept, Tick, vars, Begin
<1> QED
  BY <1>4, <1>5, <1>6, <1>7 DEF Next

\* Where no caller saves an entity it kept over a rollback, no update is lost
\* (the optimistic lock of issue #30).
THEOREM NoUpdateLost ==
    ASSUME ~KeepEntity
    PROVE  Spec => []NoLostUpdate
<1>1. Init => Unkept
  BY DEF Init, Unkept, KeptSaved, NoEntity
<1>2. IInv /\ Unkept /\ [Next /\ UNCHANGED dialect]_vars => Unkept'
  BY UnkeptNext
<1>3. IInv /\ Unkept => NoLostUpdate
  BY DEF IInv, Histories, Sound, Seen, Unkept, KeptSaved, NoLostUpdate
<1> QED
  BY <1>1, <1>2, <1>3, SpecInv, PTL DEF Spec
-----------------------------------------------------------------------------
(***************************************************************************)
(* The past is not rewritten                                               *)
(***************************************************************************)
\* The rows of H are in G as they were, but for the end of the open one.
Keeps(H, G) ==
    \A h \in H : \E g \in G : /\ g.ver = h.ver /\ g.base = h.base /\ g.kept = h.kept
                              /\ g.from = h.from /\ (h.to # Open => g.to = h.to)

\* A step leaves the recorded states and the windows that have ended alone.
PastStays == [][Keeps(history, history')]_history

\* What a transaction is about to commit keeps what is committed meanwhile.
Continues == \A p \in Proc : wrote[p] => Keeps(history, ownHist[p])

LEMMA KeepsAll ==
    /\ \A H : Keeps(H, H)
    /\ \A F, G, H : Keeps(F, G) /\ Keeps(G, H) => Keeps(F, H)
<1>1. \A H : Keeps(H, H)
  BY DEF Keeps
<1>2. ASSUME NEW F, NEW G, NEW H, Keeps(F, G), Keeps(G, H) PROVE Keeps(F, H)
  <2> SUFFICES ASSUME NEW f \in F
               PROVE  \E h \in H : /\ h.ver = f.ver /\ h.base = f.base /\ h.kept = f.kept
                                   /\ h.from = f.from /\ (f.to # Open => h.to = f.to)
    BY DEF Keeps
  <2>1. PICK g \in G : /\ g.ver = f.ver /\ g.base = f.base /\ g.kept = f.kept
                       /\ g.from = f.from /\ (f.to # Open => g.to = f.to)
    BY <1>2 DEF Keeps
  <2>2. PICK h \in H : /\ h.ver = g.ver /\ h.base = g.base /\ h.kept = g.kept
                       /\ h.from = g.from /\ (g.to # Open => h.to = g.to)
    BY <1>2 DEF Keeps
  <2> QED
    BY <2>1, <2>2
<1> QED
  BY <1>1, <1>2

LEMMA WrittenKeeps ==
    ASSUME NEW H \in SUBSET HistoryRow, NEW now \in Time, NEW n
    PROVE  Keeps(H, Close(H, now) \union {n})
<1> SUFFICES ASSUME NEW h \in H
             PROVE  \E g \in Close(H, now) \union {n} :
                        /\ g.ver = h.ver /\ g.base = h.base /\ g.kept = h.kept
                        /\ g.from = h.from /\ (h.to # Open => g.to = h.to)
  BY DEF Keeps
<1>1. CloseRow(h, now) \in Close(H, now)
  BY DEF Close, CloseRow
<1>2. /\ CloseRow(h, now).ver = h.ver /\ CloseRow(h, now).base = h.base
      /\ CloseRow(h, now).kept = h.kept /\ CloseRow(h, now).from = h.from
      /\ (h.to # Open => CloseRow(h, now).to = h.to)
  BY ClosedFields
<1> QED
  BY <1>1, <1>2

LEMMA ContinuesNext ==
    ASSUME IInv, Continues, [Next /\ UNCHANGED dialect]_vars
    PROVE  Continues' /\ (history' = history \/ Keeps(history, history'))
<1>1. ASSUME UNCHANGED <<history, ownHist, wrote>>
      PROVE  Continues' /\ history' = history
  BY <1>1 DEF Continues
<1>2. CASE \/ Tick \/ UNCHANGED vars
           \/ \E p \in Proc : \/ New(p) \/ FindByID(p) \/ FindByIDForUpdate(p) \/ Mutate(p)
                              \/ \E kind \in {"tx", "save"} : Begin(p, kind)
  BY <1>1, <1>2 DEF Tick, vars, New, FindByID, FindByIDForUpdate, Mutate, Begin
<1>3. ASSUME NEW p \in Proc, SaveOn(p) PROVE Continues' /\ history' = history
  <2> DEFINE n == NewHistory(p, Current(p).ver + 1, HistoryTime(p))
             now == HistoryTime(p)
             H == CurrentHistory(p)
             W == Close(H, now) \union {n}
  <2>1. now \in Time /\ H \in SUBSET HistoryRow
    BY DEF IInv, TypeOK, HistoryTime, PgHistoryTime, MySqlHistoryTime, CurrentHistory
  <2>2. Keeps(history, H)
    BY KeepsAll DEF Continues, CurrentHistory
  <2>3. /\ ownHist' = [ownHist EXCEPT ![p] = W] /\ history' = history
        /\ wrote' = [wrote EXCEPT ![p] = TRUE]
        /\ ownHist \in [Proc -> SUBSET HistoryRow] /\ wrote \in [Proc -> BOOLEAN]
    BY <1>3 DEF SaveOn, WriteHistory, IInv, TypeOK
  <2> HIDE DEF n, now, H
  <2>4. Keeps(H, W)
    BY <2>1, WrittenKeeps
  <2> HIDE DEF W
  <2>5. Keeps(history, W)
    BY <2>2, <2>4, KeepsAll
  <2>6. ASSUME NEW q \in Proc, wrote'[q] PROVE Keeps(history, ownHist'[q])
    <3>1. CASE q = p
      BY <2>3, <2>5, <3>1
    <3>2. CASE q # p
      BY <2>3, <2>6, <3>2 DEF Continues
    <3> QED
      BY <3>1, <3>2
  <2> QED
    BY <2>3, <2>6 DEF Continues
<1>4. ASSUME NEW p \in Proc, VersionConflict(p) \/ Rollback(p)
      PROVE  Continues' /\ history' = history
  <2>1. /\ history' = history
        /\ wrote' = [wrote EXCEPT ![p] = FALSE] /\ ownHist' = [ownHist EXCEPT ![p] = {}]
        /\ ownHist \in [Proc -> SUBSET HistoryRow] /\ wrote \in [Proc -> BOOLEAN]
    BY <1>4 DEF VersionConflict, Rollback, EndTx, IInv, TypeOK
  <2>2. ASSUME NEW q \in Proc, wrote'[q] PROVE q # p /\ wrote[q] /\ ownHist'[q] = ownHist[q]
    BY <2>1, <2>2
  <2> QED
    BY <2>1, <2>2 DEF Continues
<1>5. ASSUME NEW p \in Proc, Commit(p)
      PROVE  Continues' /\ (history' = history \/ Keeps(history, history'))
  <2>1. /\ history' = CurrentHistory(p)
        /\ wrote' = [wrote EXCEPT ![p] = FALSE] /\ ownHist' = [ownHist EXCEPT ![p] = {}]
        /\ ownHist \in [Proc -> SUBSET HistoryRow] /\ wrote \in [Proc -> BOOLEAN]
    BY <1>5 DEF Commit, EndTx, IInv, TypeOK
  <2>2. ASSUME NEW q \in Proc, wrote'[q] PROVE q # p /\ wrote[q] /\ ownHist'[q] = ownHist[q]
    BY <2>1, <2>2
  <2>3. CASE ~wrote[p]
    <3>1. history' = history
      BY <2>1, <2>3 DEF CurrentHistory
    <3> QED
      BY <3>1, <2>2 DEF Continues
  <2>4. CASE wrote[p]
    <3>1. \A q \in Proc : ~wrote'[q]
      BY <2>2, <2>4 DEF IInv, Locked
    <3>2. Keeps(history, history')
      BY <2>1, <2>4 DEF Continues, CurrentHistory
    <3> QED
      BY <3>1, <3>2 DEF Continues
  <2> QED
    BY <2>3, <2>4
<1> QED
  BY <1>2, <1>3, <1>4, <1>5 DEF Next

\* A recorded state, and the window it was valid in once that has ended, are
\* never rewritten or dropped, by whatever transactions race, roll back or
\* save again: each one's history is built on all that is committed when it
\* commits, because the row lock is held since its first save.
THEOREM RecordedPastStays == Spec => PastStays
<1>1. Init => Continues
  BY DEF Init, Continues
<1>2. IInv /\ Continues /\ [Next /\ UNCHANGED dialect]_vars => Continues'
  BY ContinuesNext
<1>3. IInv /\ Continues /\ [Next /\ UNCHANGED dialect]_vars
        => [Keeps(history, history')]_history
  BY ContinuesNext
<1> QED
  BY <1>1, <1>2, <1>3, SpecInv, PTL DEF Spec, PastStays
=============================================================================
