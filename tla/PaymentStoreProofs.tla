------------------------- MODULE PaymentStoreProofs -------------------------
(***************************************************************************)
(* Theorems about PaymentStore, for any callers, payments, refunds, keys   *)
(* and number of saves: its types, that no acknowledged refund is lost,    *)
(* and that a duplicate names the payment that won.                        *)
(*                                                                         *)
(* The argument: a guarded write replaces the row its entity was loaded    *)
(* from.  An entity's loaded version is never ahead of the row's, and when *)
(* the two are equal the entity holds every refund of the row (Lineage);   *)
(* a write that does not raise the version does not change the row.  A     *)
(* write that waits for its commit keeps its guard, because the other      *)
(* callers wait for it (Writers), and an id is created once (Created), so  *)
(* that only its creator can insert it.                                    *)
(***************************************************************************)
EXTENDS PaymentStore, TLAPS

\* Between two saves a caller holds no statement; a write is one in the open
\* transaction of a caller that goes on to commit it.
Callers ==
    \A p \in Proc :
        /\ pc[p] # "idle" => entity[p] # None /\ ~written[p]
        /\ written[p] => entity[p] # None /\ tx[p] = "open"

\* New takes an id once, and until it is stored one caller holds it.
Created ==
    /\ \A i \in Payment \ created : rows[i] = None
    /\ \A p \in Proc : entity[p] # None => Id(p) \in created
    /\ \A p, q \in Proc : entity[p] # None /\ entity[q] # None /\ Id(p) = Id(q)
                            => p = q \/ rows[Id(p)] # None

\* The row an entity was loaded from is the one before it, or gone.
Lineage ==
    \A p \in Proc : entity[p] # None =>
        LET e == entity[p]
        IN  /\ e.loaded <= e.version
            /\ rows[e.id] # None =>
                 /\ e.loaded <= rows[e.id].version
                 /\ e.loaded = rows[e.id].version =>
                      /\ rows[e.id].booked \subseteq e.booked
                      /\ e.version = e.loaded => rows[e.id].booked = e.booked

\* The statement of p writes its row: a new one, or the one it was loaded from.
MayWrite(p) == GuardPasses(p) \/ (rows[Id(p)] = None /\ Winners(Id(p)) = {})

\* What waits for its commit may still be written then, and nobody else wrote
\* the row, or a rival of it.
Writers == \A p \in Proc : written[p] => MayWrite(p) /\ ~Waits(p, Id(p))

\* The unique index on idempotency_key.
OneRowPerKey ==
    \A i, j \in Payment :
        rows[i] # None /\ rows[j] # None /\ KeyOf[i] = KeyOf[j] => KeyOf[i] = NoKey \/ i = j

\* What a duplicate error names is stored.
Named == \A p \in Proc : existing[p] # None => rows[existing[p]] # None

DataInv == Created /\ Lineage /\ Writers /\ OneRowPerKey /\ NoRefundLost

IInv == TypeOK /\ Callers /\ DataInv /\ Named
-----------------------------------------------------------------------------
(***************************************************************************)
(* What steps do to the table and to the entities                          *)
(***************************************************************************)
\* Nothing is written, and entities and pending writes at most go away.
Quiet ==
    /\ rows' = rows /\ acked' = acked /\ created' = created
    /\ \A q \in Proc : /\ entity'[q] \in {entity[q], None}
                       /\ written'[q] => written[q] /\ entity'[q] = entity[q]

\* The write of p comes to wait for its commit.
Pends(p) ==
    /\ rows' = rows /\ acked' = acked /\ created' = created /\ entity' = entity
    /\ written' = [written EXCEPT ![p] = TRUE]

\* The row of p is written; p learns it and holds what it wrote, or drops it.
Stores(p) ==
    /\ rows' = [rows EXCEPT ![Id(p)] = RowOf(entity[p])]
    /\ entity' \in {[entity EXCEPT ![p].loaded = entity[p].version],
                    [entity EXCEPT ![p] = None]}
    /\ acked' \in {acked, acked \union AckOf(p)}
    /\ created' = created
    /\ \A q \in Proc : written'[q] => written[q] /\ q # p

\* p takes an entity that was loaded, or created and held by nobody else.
Takes(p, e) ==
    /\ rows' = rows /\ acked' = acked /\ written' = written /\ ~written[p]
    /\ entity' = [entity EXCEPT ![p] = e]
    /\ created \subseteq created' /\ e.id \in created'
    /\ \A q \in Proc \ {p} : entity[q] # None /\ Id(q) = e.id => rows[e.id] # None

\* The part of TypeOK those steps change, and what they keep.
DataTypes ==
    /\ rows \in [Payment -> Row \union {None}]
    /\ entity \in [Proc -> Entity \union {None}]
    /\ written \in [Proc -> BOOLEAN] /\ result \in [Proc -> Results]
    /\ acked \in SUBSET (Payment \X Refund)
Kept == \A j \in Payment : rows[j] # None => rows'[j] # None

\* The fields of an entity and of a row.
LEMMA Fields ==
    ASSUME TypeOK
    PROVE  /\ \A p \in Proc : entity[p] # None =>
                 /\ Id(p) \in Payment /\ entity[p].booked \in SUBSET Refund
                 /\ entity[p].version \in Nat /\ entity[p].loaded \in Nat
           /\ \A i \in Payment : rows[i] # None =>
                 rows[i].booked \in SUBSET Refund /\ rows[i].version \in Nat
BY DEF TypeOK, Entity, Row, Id

\* A step that writes nothing keeps what is true of the table.
LEMMA QuietInv ==
    ASSUME TypeOK, DataInv, Quiet
    PROVE  DataInv'
<1>1. \A q \in Proc : entity'[q] # None => entity'[q] = entity[q]
  BY DEF Quiet
<1>2. Created'
  BY <1>1 DEF DataInv, Created, Quiet, Id
<1>3. Lineage'
  BY <1>1 DEF DataInv, Lineage, Quiet
<1>4. Writers'
  <2> SUFFICES ASSUME NEW p \in Proc, written'[p]
      PROVE  MayWrite(p)' /\ ~Waits(p, Id(p))'
    BY DEF Writers
  <2>1. written[p] /\ entity'[p] = entity[p] /\ MayWrite(p) /\ ~Waits(p, Id(p))
    BY DEF DataInv, Writers, Quiet
  <2>2. MayWrite(p)'
    BY <2>1 DEF MayWrite, GuardPasses, Winners, Id, Quiet
  <2>3. ~Waits(p, Id(p))'
    BY <2>1 DEF Waits, Rivals, Id, Quiet
  <2> QED
    BY <2>2, <2>3
<1>5. OneRowPerKey' /\ NoRefundLost'
  BY DEF DataInv, OneRowPerKey, NoRefundLost, Quiet
<1> QED
  BY <1>2, <1>3, <1>4, <1>5 DEF DataInv

\* So does a write that waits for its commit, if its guard passed and nobody
\* else is writing the row or a rival.
LEMMA PendsInv ==
    ASSUME TypeOK, Callers, DataInv, NEW p \in Proc, entity[p] # None,
           MayWrite(p), ~Waits(p, Id(p)), Pends(p)
    PROVE  DataInv'
<1>1. Created' /\ Lineage' /\ OneRowPerKey' /\ NoRefundLost'
  BY DEF DataInv, Created, Lineage, OneRowPerKey, NoRefundLost, Pends, Id
<1>2. ASSUME NEW q \in Proc, written'[q]
      PROVE  MayWrite(q)' /\ ~Waits(q, Id(q))'
  <2>1. MayWrite(q)
    BY <1>2 DEF DataInv, Writers, Pends, TypeOK
  <2>2. MayWrite(q)'
    BY <2>1 DEF MayWrite, GuardPasses, Winners, Id, Pends
  <2>3. ASSUME NEW r \in Proc \ {q}, written'[r], Id(r) \in {Id(q)} \union Rivals(Id(q))
        PROVE  FALSE
    <3>1. CASE r = p
      <4>1. written[q]
        BY <1>2, <2>3, <3>1 DEF Pends, TypeOK
      <4>2. Id(q) \in {Id(p)} \union Rivals(Id(p))
        <5>1. entity[q] # None
          BY <4>1 DEF Callers
        <5> QED
          BY <2>3, <3>1, <5>1, Fields DEF Rivals
      <4> QED
        BY <4>1, <4>2, <2>3, <3>1 DEF Waits
    <3>2. CASE r # p /\ q = p
      BY <2>3, <3>2 DEF Waits, Pends, TypeOK
    <3>3. CASE r # p /\ q # p
      BY <1>2, <2>3, <3>3 DEF DataInv, Writers, Waits, Pends, TypeOK
    <3> QED
      BY <3>1, <3>2, <3>3
  <2>4. ~Waits(q, Id(q))'
    BY <2>3 DEF Waits, Rivals, Id, Pends
  <2> QED
    BY <2>2, <2>4
<1>3. Writers'
  BY <1>2 DEF Writers
<1> QED
  BY <1>1, <1>3 DEF DataInv

\* So does the write of a row whose guard passed, if nobody else is writing the
\* row or a rival: no refund of it goes, and it stays the row others came from.
LEMMA StoresInv ==
    ASSUME TypeOK, Callers, DataInv, NEW p \in Proc, entity[p] # None,
           MayWrite(p), ~Waits(p, Id(p)), Stores(p)
    PROVE  DataInv'
<1> DEFINE i == Id(p)
           e == entity[p]
<1>1. /\ i \in Payment /\ i \in created
      /\ e.version \in Nat /\ e.loaded \in Nat /\ e.loaded <= e.version
      /\ e.booked \in SUBSET Refund
      /\ i = e.id
  BY Fields DEF DataInv, Created, Lineage, Id
<1>2. /\ rows'[i] = RowOf(e) /\ rows'[i] # None
      /\ \A j \in Payment \ {i} : rows'[j] = rows[j]
  BY <1>1, PaymentAssumption DEF Stores, TypeOK, RowOf
<1>3. rows'[i].booked = e.booked /\ rows'[i].version = e.version
  BY <1>2 DEF RowOf
<1>4. rows[i] # None => /\ rows[i].version = e.loaded
                        /\ rows[i].booked \subseteq e.booked
                        /\ e.version = e.loaded => rows[i].booked = e.booked
  BY <1>1 DEF MayWrite, GuardPasses, DataInv, Lineage, Id
<1>5. \A q \in Proc \ {p} : entity'[q] = entity[q]
  BY DEF Stores, TypeOK
<1>6. \/ entity'[p] = None
      \/ /\ entity'[p] = [e EXCEPT !.loaded = e.version]
         /\ entity'[p].id = i /\ entity'[p].loaded = e.version
         /\ entity'[p].version = e.version /\ entity'[p].booked = e.booked
  <2>1. CASE entity' = [entity EXCEPT ![p] = None]
    BY <2>1 DEF TypeOK
  <2>2. CASE entity' = [entity EXCEPT ![p].loaded = entity[p].version]
    <3>1. entity[p] \in Entity
      BY DEF TypeOK
    <3> QED
      BY <2>2, <3>1 DEF TypeOK, Entity, Id
  <2> QED
    BY <2>1, <2>2 DEF Stores
<1>7. Created'
  <2>1. \A j \in Payment \ created' : rows'[j] = None
    BY <1>1, <1>2 DEF DataInv, Created, Stores
  <2>2. \A q \in Proc : entity'[q] # None => entity[q] # None /\ Id(q)' = Id(q)
    BY <1>5, <1>6 DEF Id
  <2>3. \A q \in Proc : entity'[q] # None => Id(q)' \in created'
    BY <2>2 DEF DataInv, Created, Stores
  <2>4. \A j \in Payment : rows[j] # None => rows'[j] # None
    BY <1>2
  <2>5. ASSUME NEW q \in Proc, NEW r \in Proc, entity'[q] # None, entity'[r] # None,
               Id(q)' = Id(r)'
        PROVE  q = r \/ rows'[Id(q)'] # None
    <3>1. entity[q] # None /\ entity[r] # None /\ Id(q) = Id(r) /\ Id(q)' = Id(q)
      BY <2>2, <2>5
    <3>2. Id(q) \in Payment
      BY <3>1, Fields
    <3>3. q = r \/ rows[Id(q)] # None
      BY <3>1 DEF DataInv, Created
    <3> QED
      BY <3>1, <3>2, <3>3, <2>4
  <2> QED
    BY <2>1, <2>3, <2>5 DEF Created, Id
<1>8. Lineage'
  <2> SUFFICES ASSUME NEW q \in Proc, entity'[q] # None
      PROVE  LET f == entity'[q]
             IN  /\ f.loaded <= f.version
                 /\ rows'[f.id] # None =>
                      /\ f.loaded <= rows'[f.id].version
                      /\ f.loaded = rows'[f.id].version =>
                           /\ rows'[f.id].booked \subseteq f.booked
                           /\ f.version = f.loaded => rows'[f.id].booked = f.booked
    BY DEF Lineage
  <2>1. CASE q = p
    BY <2>1, <1>1, <1>3, <1>6
  <2>2. CASE q # p /\ entity[q].id # i
    <3>1. entity'[q] = entity[q] /\ entity[q].id \in Payment
      BY <2>2, <1>5, Fields DEF Id
    <3>2. rows'[entity[q].id] = rows[entity[q].id]
      BY <3>1, <2>2, <1>2
    <3> QED
      BY <3>1, <3>2 DEF DataInv, Lineage
  <2>3. CASE q # p /\ entity[q].id = i
    <3>1. entity'[q] = entity[q] /\ entity[q] # None
      BY <2>3, <1>5
    <3>2. rows[i] # None
      BY <2>3, <3>1 DEF DataInv, Created, Id
    <3>3. /\ entity[q].version \in Nat /\ entity[q].loaded \in Nat
          /\ rows[i].version \in Nat
      BY <3>1, <3>2, <1>1, Fields
    <3>4. /\ entity[q].loaded <= entity[q].version
          /\ entity[q].loaded <= rows[i].version
          /\ entity[q].loaded = rows[i].version =>
               /\ rows[i].booked \subseteq entity[q].booked
               /\ entity[q].version = entity[q].loaded => rows[i].booked = entity[q].booked
      BY <2>3, <3>1, <3>2 DEF DataInv, Lineage
    <3>5. entity[q].loaded <= e.version
      BY <3>2, <3>3, <3>4, <1>1, <1>4
    <3>6. entity[q].loaded = e.version => entity[q].loaded = rows[i].version /\ rows[i].booked = e.booked
      BY <3>2, <3>3, <3>4, <1>1, <1>4
    <3> QED
      BY <2>3, <3>1, <3>4, <3>5, <3>6, <1>3
  <2> QED
    BY <2>1, <2>2, <2>3
<1>9. Writers'
  <2> SUFFICES ASSUME NEW q \in Proc, written'[q]
      PROVE  MayWrite(q)' /\ ~Waits(q, Id(q))'
    BY DEF Writers
  <2>1. q # p /\ written[q] /\ entity'[q] = entity[q] /\ entity[q] # None
    BY <1>5 DEF Stores, Callers
  <2>2. MayWrite(q) /\ ~Waits(q, Id(q))
    BY <2>1 DEF DataInv, Writers
  <2>3. Id(q) # i /\ i \notin Rivals(Id(q)) /\ Id(q) \in Payment
    BY <2>1, <1>1, Fields DEF Waits, Rivals
  <2>4. rows'[Id(q)] = rows[Id(q)] /\ \A j \in Rivals(Id(q)) : rows'[j] = rows[j]
    BY <2>3, <1>2 DEF Rivals
  <2>5. MayWrite(q)'
    BY <2>1, <2>2, <2>4 DEF MayWrite, GuardPasses, Winners, Rivals, Id
  <2>6. ASSUME NEW r \in Proc \ {q}, written'[r], Id(r)' \in {Id(q)} \union Rivals(Id(q))
        PROVE  FALSE
    <3>1. r # p /\ written[r] /\ Id(r)' = Id(r)
      BY <2>6, <1>5 DEF Stores, Id
    <3> QED
      BY <3>1, <2>6, <2>2 DEF Waits
  <2>7. ~Waits(q, Id(q))'
    BY <2>6, <2>1 DEF Waits, Rivals, Id
  <2> QED
    BY <2>5, <2>7
<1>10. OneRowPerKey'
  <2> SUFFICES ASSUME NEW j \in Payment, NEW k \in Payment,
                      rows'[j] # None, rows'[k] # None, KeyOf[j] = KeyOf[k],
                      KeyOf[j] # NoKey, j # k
      PROVE  FALSE
    BY DEF OneRowPerKey
  <2>1. \A m \in Payment \ {i} : KeyOf[m] = KeyOf[i] /\ KeyOf[m] # NoKey => rows[m] = None
    <3>1. CASE rows[i] # None
      BY <3>1, <1>1 DEF DataInv, OneRowPerKey
    <3>2. CASE rows[i] = None
      BY <3>2 DEF MayWrite, GuardPasses, Winners, Rivals
    <3> QED
      BY <3>1, <3>2
  <2>2. CASE j = i \/ k = i
    BY <2>1, <2>2, <1>2
  <2>3. CASE j # i /\ k # i
    BY <2>3, <1>2 DEF DataInv, OneRowPerKey
  <2> QED
    BY <2>2, <2>3
<1>11. NoRefundLost'
  <2> SUFFICES ASSUME NEW a \in acked'
      PROVE  rows'[a[1]] # None /\ a[2] \in rows'[a[1]].booked
    BY DEF NoRefundLost
  <2>1. CASE a \in acked
    <3>1. a[1] \in Payment /\ rows[a[1]] # None /\ a[2] \in rows[a[1]].booked
      BY <2>1 DEF TypeOK, DataInv, NoRefundLost
    <3> QED
      BY <3>1, <1>2, <1>3, <1>4
  <2>2. CASE a \in AckOf(p)
    BY <2>2, <1>2, <1>3 DEF AckOf
  <2> QED
    BY <2>1, <2>2 DEF Stores
<1> QED
  BY <1>7, <1>8, <1>9, <1>10, <1>11 DEF DataInv

\* So does a caller that takes an entity, if the row is where it came from.
LEMMA TakesInv ==
    ASSUME TypeOK, Callers, DataInv, NEW p \in Proc, NEW e \in Entity, Takes(p, e),
           e.loaded <= e.version,
           rows[e.id] # None =>
             /\ e.loaded <= rows[e.id].version
             /\ e.loaded = rows[e.id].version =>
                  /\ rows[e.id].booked \subseteq e.booked
                  /\ e.version = e.loaded => rows[e.id].booked = e.booked
    PROVE  DataInv'
<1>1. entity'[p] = e /\ \A q \in Proc \ {p} : entity'[q] = entity[q]
  BY DEF Takes, TypeOK
<1>2. Created'
  <2>1. \A i \in Payment \ created' : rows'[i] = None
    BY DEF DataInv, Created, Takes
  <2>2. \A q \in Proc : entity'[q] # None => Id(q)' \in created'
    BY <1>1 DEF DataInv, Created, Takes, Id
  <2>3. ASSUME NEW q \in Proc, NEW r \in Proc, entity'[q] # None, entity'[r] # None,
               Id(q)' = Id(r)', q # r
        PROVE  rows'[Id(q)'] # None
    <3>1. CASE q = p
      BY <1>1, <2>3, <3>1 DEF Takes, Id
    <3>2. CASE r = p
      BY <1>1, <2>3, <3>2 DEF Takes, Id
    <3>3. CASE q # p /\ r # p
      BY <1>1, <2>3, <3>3 DEF Takes, Id, DataInv, Created
    <3> QED
      BY <3>1, <3>2, <3>3
  <2> QED
    BY <2>1, <2>2, <2>3 DEF Created, Id
<1>3. Lineage'
  BY <1>1 DEF DataInv, Lineage, Takes
<1>4. Writers'
  <2> SUFFICES ASSUME NEW q \in Proc, written'[q]
      PROVE  MayWrite(q)' /\ ~Waits(q, Id(q))'
    BY DEF Writers
  <2>1. q # p /\ written[q] /\ entity'[q] = entity[q]
    BY <1>1 DEF Takes
  <2>2. MayWrite(q) /\ ~Waits(q, Id(q))
    BY <2>1 DEF DataInv, Writers
  <2>3. MayWrite(q)'
    BY <2>1, <2>2 DEF MayWrite, GuardPasses, Winners, Id, Takes
  <2>4. ~Waits(q, Id(q))'
    BY <2>1, <2>2, <1>1 DEF Waits, Rivals, Id, Takes
  <2> QED
    BY <2>3, <2>4
<1>5. OneRowPerKey' /\ NoRefundLost'
  BY DEF DataInv, OneRowPerKey, NoRefundLost, Takes
<1> QED
  BY <1>2, <1>3, <1>4, <1>5 DEF DataInv

\* A stored row has its type, and no row goes.
LEMMA StoresTypes ==
    ASSUME TypeOK, NEW p \in Proc, entity[p] # None, Stores(p)
    PROVE  /\ rows' \in [Payment -> Row \union {None}]
           /\ entity' \in [Proc -> Entity \union {None}]
           /\ acked' \in SUBSET (Payment \X Refund)
           /\ Kept
<1>1. entity[p] \in Entity
  BY DEF TypeOK
<1>2. /\ entity[p].id \in Payment /\ entity[p].booked \in SUBSET Refund
      /\ entity[p].version \in Nat
  BY <1>1 DEF Entity
<1>3. RowOf(entity[p]) \in Row /\ RowOf(entity[p]) # None
  BY <1>2, PaymentAssumption DEF RowOf, Row
<1>4. rows' \in [Payment -> Row \union {None}] /\ Kept
  BY <1>2, <1>3 DEF Stores, TypeOK, Kept, Id
<1>5. [entity[p] EXCEPT !.loaded = entity[p].version] \in Entity
  BY <1>1, <1>2 DEF Entity
<1>6. entity' \in [Proc -> Entity \union {None}]
  BY <1>5 DEF Stores, TypeOK
<1>7. acked' \in SUBSET (Payment \X Refund)
  <2>1. AckOf(p) \in SUBSET (Payment \X Refund)
    BY <1>2 DEF AckOf, Id
  <2> QED
    BY <2>1 DEF Stores, TypeOK
<1> QED
  BY <1>4, <1>6, <1>7

\* A statement that writes, in a transaction or by itself.
LEMMA WritesInv ==
    ASSUME TypeOK, Callers, DataInv, NEW p \in Proc, pc[p] # "idle",
           MayWrite(p), ~Waits(p, Id(p)), Writes(p), created' = created
    PROVE  DataInv' /\ DataTypes' /\ Kept
<1>1. entity[p] # None /\ ~written[p]
  BY DEF Callers
<1>2. CASE Stores(p) /\ written' = written /\ result' \in [Proc -> Results]
  BY <1>1, <1>2, StoresInv, StoresTypes DEF DataTypes, TypeOK
<1>3. CASE Quiet /\ written' = written /\ result' \in [Proc -> Results]
           /\ entity' = [entity EXCEPT ![p] = None]
  <2>1. DataTypes' /\ Kept
    BY <1>3 DEF Quiet, DataTypes, Kept, TypeOK
  <2> QED
    BY <1>3, <2>1, QuietInv
<1>4. CASE Pends(p) /\ result' \in [Proc -> Results]
  <2>1. DataTypes' /\ Kept
    BY <1>4 DEF Pends, DataTypes, Kept, TypeOK
  <2> QED
    BY <1>1, <1>4, <2>1, PendsInv
<1>5. result' \in [Proc -> Results]
  BY DEF Writes, TypeOK, Results
<1>6. CASE /\ rows' = [rows EXCEPT ![Id(p)] = RowOf(entity[p])]
           /\ acked' = acked \union AckOf(p)
           /\ entity' = [entity EXCEPT ![p].loaded = entity[p].version]
           /\ UNCHANGED written
  <2>1. Stores(p) /\ written' = written
    BY <1>1, <1>6 DEF Stores
  <2> QED
    BY <2>1, <1>2, <1>5
<1>7. CASE /\ rows' = [rows EXCEPT ![Id(p)] = RowOf(entity[p])]
           /\ entity' = [entity EXCEPT ![p] = None]
           /\ UNCHANGED <<written, acked>>
  <2>1. Stores(p) /\ written' = written
    BY <1>1, <1>7 DEF Stores
  <2> QED
    BY <2>1, <1>2, <1>5
<1>8. CASE /\ rows' = rows
           /\ entity' = [entity EXCEPT ![p] = None]
           /\ UNCHANGED <<written, acked>>
  <2>1. Quiet /\ written' = written
    BY <1>1, <1>8 DEF Quiet, TypeOK
  <2> QED
    BY <2>1, <1>3, <1>5, <1>8
<1>9. CASE /\ written' = [written EXCEPT ![p] = TRUE]
           /\ UNCHANGED <<rows, entity, acked>>
  <2>1. Pends(p)
    BY <1>9 DEF Pends
  <2> QED
    BY <2>1, <1>4, <1>5
<1> QED
  BY <1>6, <1>7, <1>8, <1>9 DEF Writes

\* A Save that fails drops its entity.
LEMMA FailsInv ==
    ASSUME TypeOK, Callers, DataInv, NEW p \in Proc, pc[p] # "idle",
           NEW res \in Results, Fails(p, res), created' = created
    PROVE  DataInv' /\ DataTypes' /\ Kept
<1>1. ~written[p]
  BY DEF Callers
<1>2. Quiet
  BY <1>1 DEF Fails, Quiet, TypeOK
<1>3. DataTypes' /\ Kept
  BY DEF Fails, DataTypes, Kept, TypeOK
<1> QED
  BY <1>2, <1>3, QuietInv
-----------------------------------------------------------------------------
LEMMA InitInv == Init => IInv
<1> SUFFICES ASSUME Init PROVE IInv
  OBVIOUS
<1>1. TypeOK
  BY PaymentAssumption DEF Init, TypeOK, Results
<1>2. Callers /\ Named
  BY DEF Init, Callers, Named
<1>3. DataInv
  BY DEF Init, DataInv, Created, Lineage, Writers, OneRowPerKey, NoRefundLost
<1> QED
  BY <1>1, <1>2, <1>3 DEF IInv

LEMMA NewInv == ASSUME IInv, UNCHANGED dialect, NEW p \in Proc, NEW i \in Payment, New(p, i)
                PROVE  IInv'
<1> DEFINE e == [id |-> i, booked |-> {}, version |-> 0, loaded |-> 0]
<1>1. e \in Entity /\ e # None
  BY PaymentAssumption DEF Entity
<1>2. Takes(p, e) /\ rows[e.id] = None
  BY DEF IInv, DataInv, Created, New, Ready, Take, Takes
<1>3. DataInv'
  BY <1>1, <1>2, TakesInv DEF IInv
<1>4. TypeOK'
  BY <1>1 DEF IInv, TypeOK, New, Take, Results
<1>5. Callers'
  BY <1>1 DEF IInv, Callers, TypeOK, New, Take, Ready
<1>6. Named'
  BY DEF IInv, Named, New, Take
<1> QED
  BY <1>3, <1>4, <1>5, <1>6 DEF IInv

LEMMA FindByIDInv ==
    ASSUME IInv, UNCHANGED dialect, NEW p \in Proc, NEW i \in Payment, FindByID(p, i)
    PROVE  IInv'
<1> DEFINE e == [id |-> i, booked |-> rows[i].booked, version |-> rows[i].version,
                 loaded |-> rows[i].version]
<1>1. rows[i].booked \in SUBSET Refund /\ rows[i].version \in Nat
  BY Fields DEF IInv, FindByID
<1>2. e \in Entity /\ e # None
  BY <1>1, PaymentAssumption DEF Entity
<1>3. Takes(p, e)
  BY DEF IInv, DataInv, Created, FindByID, Ready, Take, Takes
<1>4. DataInv'
  BY <1>1, <1>2, <1>3, TakesInv DEF IInv
<1>5. TypeOK'
  BY <1>2 DEF IInv, TypeOK, FindByID, Take, Results
<1>6. Callers'
  BY <1>2 DEF IInv, Callers, TypeOK, FindByID, Take, Ready
<1>7. Named'
  BY DEF IInv, Named, FindByID, Take
<1> QED
  BY <1>4, <1>5, <1>6, <1>7 DEF IInv

LEMMA RecordRefundInv ==
    ASSUME IInv, UNCHANGED dialect, NEW p \in Proc, NEW r \in Refund, RecordRefund(p, r)
    PROVE  IInv'
<1> DEFINE d == entity[p]
           e == [d EXCEPT !.booked = @ \union {r}, !.version = @ + 1]
<1>1. d \in Entity /\ d # None
  BY DEF IInv, TypeOK, RecordRefund
<1>2. /\ e.id = d.id /\ e.booked = d.booked \union {r}
      /\ e.version = d.version + 1 /\ e.loaded = d.loaded
      /\ e \in Entity
  <2>1. /\ d.id \in Payment /\ d.booked \in SUBSET Refund
        /\ d.version \in Nat /\ d.loaded \in Nat
        /\ d = [id |-> d.id, booked |-> d.booked, version |-> d.version,
                loaded |-> d.loaded]
    BY <1>1 DEF Entity
  <2>2. e = [id |-> d.id, booked |-> d.booked \union {r}, version |-> d.version + 1,
             loaded |-> d.loaded]
    <3>1. e = [[d EXCEPT !.booked = @ \union {r}] EXCEPT !.version = @ + 1]
      BY <1>1, Zenon
    <3> HIDE DEF e
    <3> QED
      BY <1>1, <3>1 DEF Entity
  <2> HIDE DEF d, e
  <2> QED
    BY <2>1, <2>2 DEF Entity
<1>3. e # None
  BY <1>2, PaymentAssumption DEF Entity
<1>4. /\ d.id \in Payment /\ d.version \in Nat /\ d.loaded \in Nat /\ d.loaded <= d.version
      /\ rows[d.id] # None =>
           /\ d.loaded <= rows[d.id].version
           /\ d.loaded = rows[d.id].version => rows[d.id].booked \subseteq d.booked
  BY <1>1 DEF IInv, DataInv, Lineage, Entity
<1>5. Takes(p, e)
  <2>1. \A q \in Proc \ {p} : entity[q] # None /\ Id(q) = e.id => rows[e.id] # None
    BY <1>1, <1>2 DEF IInv, DataInv, Created, Id
  <2>2. e.id \in created
    BY <1>1, <1>2 DEF IInv, DataInv, Created, Id
  <2> QED
    BY <2>1, <2>2 DEF RecordRefund, Ready, Take, Takes
<1>6. DataInv'
  <2>1. TypeOK /\ Callers /\ DataInv
    BY DEF IInv
  <2>2. /\ e.loaded <= e.version
        /\ rows[e.id] # None =>
             /\ e.loaded <= rows[e.id].version
             /\ e.loaded = rows[e.id].version =>
                  /\ rows[e.id].booked \subseteq e.booked
                  /\ e.version = e.loaded => rows[e.id].booked = e.booked
    <3> HIDE DEF d, e
    <3> QED
      BY <1>2, <1>4
  <2> HIDE DEF d, e
  <2> QED
    BY <1>2, <1>5, <2>1, <2>2, TakesInv
<1>7. TypeOK'
  BY <1>2 DEF IInv, TypeOK, RecordRefund, Take, Results
<1>8. Callers'
  BY <1>2 DEF IInv, Callers, TypeOK, RecordRefund, Take, Ready
<1>9. Named'
  BY DEF IInv, Named, RecordRefund, Take
<1> QED
  BY <1>6, <1>7, <1>8, <1>9 DEF IInv

LEMMA SaveInv == ASSUME IInv, UNCHANGED dialect, NEW p \in Proc, Save(p) PROVE IInv'
<1>1. Quiet
  BY DEF Save, Quiet
<1>2. DataInv'
  BY <1>1, QuietInv DEF IInv
<1>3. TypeOK'
  BY DEF IInv, TypeOK, Save
<1>4. Callers'
  BY DEF IInv, Callers, TypeOK, Save, Ready
<1>5. Named'
  BY DEF IInv, Named, TypeOK, Save
<1> QED
  BY <1>2, <1>3, <1>4, <1>5 DEF IInv

\* What is left of IInv when a statement has run.
LEMMA StatementInv ==
    ASSUME IInv, UNCHANGED dialect, NEW p \in Proc, DataInv', DataTypes', Kept, Callers',
           pc' \in [Proc -> {"idle", "upsert", "insert", "update", "lookup"}],
           tx' \in [Proc -> {"none", "open", "aborted"}], shared' \in [Proc -> BOOLEAN],
           UNCHANGED <<existing, created, savesLeft>>
    PROVE  IInv'
<1>1. TypeOK'
  BY DEF IInv, TypeOK, DataTypes
<1>2. Named'
  BY DEF IInv, Named, Kept, TypeOK
<1> QED
  BY <1>1, <1>2 DEF IInv

LEMMA UpsertInv == ASSUME IInv, UNCHANGED dialect, NEW p \in Proc, Upsert(p) PROVE IInv'
<1>1. pc[p] # "idle" /\ ~Waits(p, Id(p)) /\ UNCHANGED <<shared, existing, created, savesLeft>>
  BY DEF Upsert
<1>2. CASE /\ pc' = [pc EXCEPT ![p] = "lookup"]
           /\ tx' = [tx EXCEPT ![p] = IF @ = "open" THEN "aborted" ELSE @]
           /\ UNCHANGED <<rows, entity, written, result, acked>>
  <2>1. Quiet
    BY <1>1, <1>2 DEF Quiet
  <2>2. DataTypes' /\ Kept
    BY <1>2 DEF IInv, TypeOK, DataTypes, Kept
  <2>3. Callers'
    BY <1>1, <1>2 DEF IInv, Callers, TypeOK
  <2> QED
    BY <1>1, <1>2, <2>1, <2>2, <2>3, QuietInv, StatementInv DEF IInv, TypeOK
<1>3. CASE Done(p) /\ Fails(p, "conflict") /\ UNCHANGED tx
  <2>1. DataInv' /\ DataTypes' /\ Kept
    BY <1>1, <1>3, FailsInv DEF IInv, Results
  <2>2. Callers'
    BY <1>1, <1>3 DEF IInv, Callers, TypeOK, Done, Fails
  <2> QED
    BY <1>1, <1>3, <2>1, <2>2, StatementInv DEF IInv, TypeOK, Done
<1>4. CASE /\ GuardPasses(p) \/ (rows[Id(p)] = None /\ Winners(Id(p)) = {})
           /\ Done(p) /\ Writes(p) /\ UNCHANGED tx
  <2>1. DataInv' /\ DataTypes' /\ Kept
    BY <1>1, <1>4, WritesInv DEF IInv, MayWrite
  <2>2. Callers'
    BY <1>1, <1>4 DEF IInv, Callers, TypeOK, Done, Writes
  <2> QED
    BY <1>1, <1>4, <2>1, <2>2, StatementInv DEF IInv, TypeOK, Done
<1> QED
  BY <1>2, <1>3, <1>4 DEF Upsert

LEMMA InsertInv == ASSUME IInv, UNCHANGED dialect, NEW p \in Proc, Insert(p) PROVE IInv'
<1>1. pc[p] # "idle" /\ ~Waits(p, Id(p)) /\ UNCHANGED <<tx, existing, created, savesLeft>>
  BY DEF Insert
<1>2. CASE /\ \/ pc' = [pc EXCEPT ![p] = "update"]
              \/ pc' = [pc EXCEPT ![p] = "lookup"]
           /\ shared' \in {shared, [shared EXCEPT ![p] = (tx[p] = "open")]}
           /\ UNCHANGED <<rows, entity, written, result, acked>>
  <2>1. Quiet
    BY <1>1, <1>2 DEF Quiet
  <2>2. DataTypes' /\ Kept
    BY <1>2 DEF IInv, TypeOK, DataTypes, Kept
  <2>3. Callers'
    BY <1>1, <1>2 DEF IInv, Callers, TypeOK
  <2> QED
    BY <1>1, <1>2, <2>1, <2>2, <2>3, QuietInv, StatementInv DEF IInv, TypeOK
<1>3. CASE /\ rows[Id(p)] = None /\ Winners(Id(p)) = {}
           /\ Done(p) /\ Writes(p) /\ UNCHANGED shared
  <2>1. DataInv' /\ DataTypes' /\ Kept
    BY <1>1, <1>3, WritesInv DEF IInv, MayWrite
  <2>2. Callers'
    BY <1>1, <1>3 DEF IInv, Callers, TypeOK, Done, Writes
  <2> QED
    BY <1>1, <1>3, <2>1, <2>2, StatementInv DEF IInv, TypeOK, Done
<1> QED
  BY <1>2, <1>3 DEF Insert

LEMMA UpdateInv == ASSUME IInv, UNCHANGED dialect, NEW p \in Proc, Update(p) PROVE IInv'
<1>1. pc[p] # "idle" /\ ~Waits(p, Id(p)) /\ Done(p) /\ UNCHANGED <<tx, existing, created, savesLeft>>
  BY DEF Update
<1>2. CASE GuardPasses(p) /\ Writes(p) /\ UNCHANGED shared
  <2>1. DataInv' /\ DataTypes' /\ Kept
    BY <1>1, <1>2, WritesInv DEF IInv, MayWrite
  <2>2. Callers'
    BY <1>1, <1>2 DEF IInv, Callers, TypeOK, Done, Writes
  <2> QED
    BY <1>1, <1>2, <2>1, <2>2, StatementInv DEF IInv, TypeOK, Done
<1>3. CASE Fails(p, "conflict") /\ shared' = [shared EXCEPT ![p] = FALSE]
  <2>1. DataInv' /\ DataTypes' /\ Kept
    BY <1>1, <1>3, FailsInv DEF IInv, Results
  <2>2. Callers'
    BY <1>1, <1>3 DEF IInv, Callers, TypeOK, Done, Fails
  <2> QED
    BY <1>1, <1>3, <2>1, <2>2, StatementInv DEF IInv, TypeOK, Done
<1> QED
  BY <1>2, <1>3 DEF Update

LEMMA LookupInv == ASSUME IInv, UNCHANGED dialect, NEW p \in Proc, Lookup(p) PROVE IInv'
<1>1. DataInv' /\ DataTypes' /\ Kept
  BY FailsInv DEF IInv, Lookup, Results
<1>2. \/ existing' = existing
      \/ \E j \in Winners(Id(p)) : existing' = [existing EXCEPT ![p] = j]
  BY DEF Lookup
<1>3. existing' \in [Proc -> Payment \union {None}]
  BY <1>2 DEF IInv, TypeOK, Winners, Rivals
<1>4. TypeOK'
  BY <1>1, <1>3 DEF IInv, TypeOK, DataTypes, Lookup, Done
<1>5. Callers'
  BY DEF IInv, Callers, TypeOK, Lookup, Done, Fails
<1>6. Named'
  BY <1>2 DEF IInv, Named, TypeOK, Winners, Rivals, Lookup, Fails
<1> QED
  BY <1>1, <1>4, <1>5, <1>6 DEF IInv

LEMMA BeginInv == ASSUME IInv, UNCHANGED dialect, NEW p \in Proc, Begin(p) PROVE IInv'
<1>1. Quiet
  BY DEF IInv, TypeOK, Begin, Ready, Quiet
<1>2. DataTypes' /\ Kept
  BY DEF IInv, TypeOK, Begin, DataTypes, Kept
<1>3. Callers'
  BY DEF IInv, Callers, TypeOK, Begin, Ready
<1> QED
  BY <1>1, <1>2, <1>3, QuietInv, StatementInv DEF IInv, TypeOK, Begin

LEMMA EndsInv ==
    ASSUME IInv, UNCHANGED dialect, NEW p \in Proc, Ends(p), result' \in [Proc -> Results],
           \/ Quiet /\ entity' \in {entity, [entity EXCEPT ![p] = None]}
           \/ written[p] /\ Stores(p)
    PROVE  IInv'
<1>1. CASE Quiet /\ entity' \in {entity, [entity EXCEPT ![p] = None]}
  <2>1. DataTypes' /\ Kept
    BY <1>1 DEF IInv, TypeOK, Ends, DataTypes, Kept, Quiet
  <2>2. Callers'
    BY <1>1 DEF IInv, Callers, TypeOK, Ends, Quiet
  <2> QED
    BY <1>1, <2>1, <2>2, QuietInv, StatementInv DEF IInv, TypeOK, Ends
<1>2. CASE written[p] /\ Stores(p)
  <2>1. entity[p] # None /\ MayWrite(p) /\ ~Waits(p, Id(p))
    BY <1>2 DEF IInv, Callers, DataInv, Writers
  <2>2. DataInv' /\ DataTypes' /\ Kept
    BY <1>2, <2>1, StoresInv, StoresTypes DEF IInv, DataTypes, Ends, TypeOK
  <2>3. \A q \in Proc \ {p} : entity'[q] = entity[q]
    BY <1>2 DEF IInv, TypeOK, Stores
  <2>4. Callers'
    BY <2>3 DEF IInv, Callers, TypeOK, Ends
  <2> QED
    BY <2>2, <2>4, StatementInv DEF IInv, TypeOK, Ends
<1> QED
  BY <1>1, <1>2

LEMMA CommitInv == ASSUME IInv, UNCHANGED dialect, NEW p \in Proc, Commit(p) PROVE IInv'
<1>1. CASE written[p]
  <2>1. Stores(p)
    BY <1>1 DEF IInv, TypeOK, Commit, Ends, Stores
  <2> QED
    BY <1>1, <2>1, EndsInv DEF IInv, TypeOK, Commit
<1>2. CASE ~written[p]
  <2>1. Quiet
    BY <1>2 DEF IInv, TypeOK, Commit, Ends, Quiet
  <2> QED
    BY <1>2, <2>1, EndsInv DEF IInv, TypeOK, Commit
<1> QED
  BY <1>1, <1>2

LEMMA RollbackInv == ASSUME IInv, UNCHANGED dialect, NEW p \in Proc, Rollback(p) PROVE IInv'
<1>1. Ends(p) /\ result' \in [Proc -> Results]
  BY DEF IInv, TypeOK, Rollback, Results
<1>2. CASE UNCHANGED rows
  <2>1. Quiet
    BY <1>2 DEF IInv, TypeOK, Rollback, Ends, Quiet
  <2> QED
    BY <1>1, <2>1, EndsInv DEF Rollback
<1>3. CASE written[p] /\ rows' = [rows EXCEPT ![Id(p)] = RowOf(entity[p])]
  <2>1. Stores(p)
    BY <1>3 DEF IInv, TypeOK, Rollback, Ends, Stores
  <2> QED
    BY <1>1, <1>3, <2>1, EndsInv
<1> QED
  BY <1>2, <1>3 DEF Rollback

LEMMA NextInv == IInv /\ [Next /\ UNCHANGED dialect]_vars => IInv'
<1> SUFFICES ASSUME IInv, [Next /\ UNCHANGED dialect]_vars PROVE IInv'
  OBVIOUS
<1>1. CASE UNCHANGED vars
  <2>1. Quiet
    BY <1>1 DEF vars, callerVars, Quiet
  <2>2. DataInv'
    BY <2>1, QuietInv DEF IInv
  <2> QED
    BY <1>1, <2>2 DEF vars, callerVars, IInv, TypeOK, Callers, Named
<1>2. CASE Next /\ UNCHANGED dialect
  BY <1>2, NewInv, FindByIDInv, RecordRefundInv, SaveInv, UpsertInv, InsertInv, UpdateInv,
     LookupInv, BeginInv, CommitInv, RollbackInv DEF Next
<1> QED
  BY <1>1, <1>2

LEMMA Invariant == Spec => []IInv
BY InitInv, NextInv, PTL DEF Spec

\* Every variable holds a value of its kind, whatever the callers do.
THEOREM TypeCorrect == Spec => []TypeOK
<1>1. IInv => TypeOK
  BY DEF IInv
<1> QED
  BY <1>1, Invariant, PTL

\* An acknowledged refund is on its payment for ever (payment_repo.go Save: the
\* WHERE on lock_version, in either dialect, with or without a transaction).
THEOREM RefundsKept == Spec => []NoRefundLost
<1>1. IInv => NoRefundLost
  BY DEF IInv, DataInv
<1> QED
  BY <1>1, Invariant, PTL

\* One payment per key, and a duplicate error names one that is stored
\* (payment_repo.go duplicateIdempotencyKey).
THEOREM DuplicatesNamed == Spec => []DuplicatesNameWinner
<1>1. IInv => DuplicatesNameWinner
  BY DEF IInv, DataInv, OneRowPerKey, Named, DuplicatesNameWinner
<1> QED
  BY <1>1, Invariant, PTL
=============================================================================
