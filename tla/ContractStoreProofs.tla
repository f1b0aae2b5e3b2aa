------------------------ MODULE ContractStoreProofs ------------------------
(***************************************************************************)
(* Theorems about ContractStore, for any contracts, dates, clocks and      *)
(* bounds: its types, that a projection which has caught up shows every    *)
(* contract as its events leave it, that an as-of query answers with what  *)
(* had occurred by then, and that saves publish rows as EventLog says.     *)
(*                                                                         *)
(* The argument for the read model: a column of a row that no event after  *)
(* position p writes any more has its final value (Shows), wherever p is:  *)
(* the checkpoint, the cursor of the projection or the scan of a rebuild   *)
(* (ReadModels).  Projecting the next event keeps this, whether or not it  *)
(* was projected before; so replays need not be idempotent event by event. *)
(* At the end of the log every column is final.                            *)
(*                                                                         *)
(* For as-of queries: a stream is numbered by version, and where clocks do *)
(* not go back (SkewedClocks) a version below one that had occurred by     *)
(* asOf had occurred as well (Numbered).                                   *)
(***************************************************************************)
EXTENDS ContractStore, FiniteSetTheorems, SequenceTheorems, WellFoundedInduction, TLAPS

EndWriters == {"activated", "renewed"}
TrialWriters == {"trial_started", "trial_converted", "trial_lapsed"}

\* The positions of the events of c among the first n of s.
Of(s, c, n) == {i \in 1..n : s[i].id = c}

\* Events of each stream are numbered 1, 2, ...; the first, and only it, is the
\* creation; without skew they are stamped in order.
InOrder(s) ==
    \A i \in 1..Len(s) :
        /\ s[i].version = Cardinality(Of(s, s[i].id, i))
        /\ s[i].type = "created" <=> Of(s, s[i].id, i - 1) = {}
        /\ ~SkewedClocks => \A j \in 1..i : s[j].id = s[i].id => s[j].at <= s[i].at

Numbered == InOrder(log)

\* No event of I is after p.
Final(I, p) == \A i \in I : i <= p

\* The row of c as it is when the events up to p were projected, if not others.
Shows(row, c, p) ==
    /\ Final(Those(c, Len(log), DOMAIN StatusOf), p) => row.status = StatusAt(c, Len(log))
    /\ Final(Known(Those(c, Len(log), EndWriters)), p) => row.end = EndAt(c, Len(log))
    /\ Final(Those(c, Len(log), TrialWriters), p) => row.trial = TrialAt(c, Len(log))
    /\ Final(Those(c, Len(log), Types), p)
        => row.version = Cardinality(Those(c, Len(log), Types))

Agrees(T, p) ==
    \A c \in Contract :
        IF T[c] = NoRow THEN Those(c, p, Types) = {}
        ELSE Those(c, Len(log), Types) # {} /\ Shows(T[c], c, p)

ReadModels ==
    /\ Agrees(table, checkpoint)
    /\ running => Agrees(table, cursor) /\ checkpoint <= cursor /\ ~rebuild.open
    /\ rebuild.open => Agrees(rebuild.rows, rebuild.pos)

Tables == [Contract -> Row \union {NoRow}]
-----------------------------------------------------------------------------
(***************************************************************************)
(* Sets of positions                                                       *)
(***************************************************************************)
\* Of natural numbers one is the least.
LEMMA LeastOf ==
    ASSUME NEW U, U \subseteq Nat, U # {}
    PROVE  \E i \in U : \A j \in U : i <= j
<1> DEFINE Less == OpToRel(<, Nat)
<1>1. IsWellFoundedOn(Less, Nat)
  BY NatLessThanWellFounded
<1>2. ASSUME NEW j \in Nat, NEW k \in Nat, j < k PROVE <<j, k>> \in Less
  <2>1. <<j, k>> \in Nat \X Nat
    OBVIOUS
  <2> QED
    BY <1>2, <2>1, Zenon DEF OpToRel
<1> HIDE DEF Less
<1>3. PICK i \in U : \A j \in U : ~ (<<j, i>> \in Less)
  BY <1>1, WFMin
<1>4. ASSUME NEW j \in U PROVE i <= j
  <2>1. i \in Nat /\ j \in Nat
    OBVIOUS
  <2>2. ~ (j < i)
    BY <2>1, <1>2, <1>3, Zenon
  <2> QED
    BY <2>1, <2>2
<1> QED
  BY <1>4

\* Of the positions up to n one is the greatest.
LEMMA GreatestOf ==
    ASSUME NEW n \in Nat, NEW I \in SUBSET (1..n), I # {}
    PROVE  \E i \in I : \A j \in I : j <= i
<1> DEFINE U == {n - i : i \in I}
<1>1. U \subseteq Nat /\ U # {}
  <2>1. \A i \in I : n - i \in Nat
    OBVIOUS
  <2> QED
    BY <2>1
<1>2. PICK k \in U : \A j \in U : k <= j
  <2> HIDE DEF U
  <2> QED
    BY <1>1, LeastOf
<1>3. PICK i \in I : k = n - i
  BY <1>2
<1>4. \A j \in I : n - i <= n - j
  BY <1>2, <1>3
<1> QED
  BY <1>4

LEMMA LatestIn ==
    ASSUME NEW n \in Nat, NEW I \in SUBSET (1..n), I # {}
    PROVE  Latest(I) \in I /\ \A j \in I : j <= Latest(I)
BY GreatestOf DEF Latest

LEMMA LatestIs ==
    ASSUME NEW I \in SUBSET Nat, NEW i \in I, \A j \in I : j <= i
    PROVE  Latest(I) = i
<1>1. Latest(I) \in I /\ \A j \in I : j <= Latest(I)
  BY DEF Latest
<1>2. Latest(I) \in Nat /\ i \in Nat /\ Latest(I) <= i /\ i <= Latest(I)
  BY <1>1
<1> QED
  BY <1>2

LEMMA ThoseIn ==
    ASSUME NEW c, NEW n \in Nat, NEW T
    PROVE  /\ Those(c, n, T) \in SUBSET (1..n) /\ IsFiniteSet(Those(c, n, T))
           /\ Cardinality(Those(c, n, T)) \in Nat
           /\ Known(Those(c, n, T)) \in SUBSET (1..n)
<1>1. Those(c, n, T) \in SUBSET (1..n) /\ Known(Those(c, n, T)) \in SUBSET (1..n)
  BY DEF Those, Known
<1>2. IsFiniteSet(1..n)
  BY FS_Interval
<1> QED
  BY <1>1, <1>2, FS_Subset, FS_CardinalityType

\* The event types that write a status, and what they write.
LEMMA StatusTypes ==
    /\ DOMAIN StatusOf = {"created", "activated", "suspended", "resumed", "past_due",
                          "recovered", "cancelled", "expired", "trial_started",
                          "trial_converted", "trial_lapsed"}
    /\ \A t \in DOMAIN StatusOf : t \in Types /\ StatusOf[t] \in Status
    /\ StatusOf["created"] = "draft"
BY DEF StatusOf, Types, Status

\* One more projected event: it is the last of its kind, or not of this kind.
LEMMA FinalStep ==
    ASSUME NEW p \in Nat, NEW I \in SUBSET Nat, Final(I, p + 1)
    PROVE  /\ p + 1 \notin I => Final(I, p)
           /\ p + 1 \in I => Latest(I) = p + 1
<1>1. ASSUME p + 1 \notin I PROVE Final(I, p)
  BY <1>1 DEF Final
<1>2. ASSUME p + 1 \in I PROVE Latest(I) = p + 1
  BY <1>2, LatestIs DEF Final
<1> QED
  BY <1>1, <1>2
-----------------------------------------------------------------------------
(***************************************************************************)
(* Projecting an event                                                     *)
(***************************************************************************)
LEMMA EventFields ==
    ASSUME NEW e \in Event
    PROVE  /\ e.id \in Contract /\ e.version \in Nat \ {0} /\ e.type \in Types
           /\ e.until \in Date \union {None} /\ e.at \in Date /\ e.at \in Nat
BY ProjectionAssumption DEF Event

LEMMA LogEvents ==
    ASSUME log \in Seq(Event)
    PROVE  Len(log) \in Nat /\ \A i \in 1..Len(log) : log[i] \in Event
BY LenProperties

LEMMA ThoseAll ==
    ASSUME log \in Seq(Event), NEW c, NEW n \in 0..Len(log)
    PROVE  Those(c, n, Types) = Of(log, c, n)
<1>1. \A i \in 1..n : log[i] \in Event
  BY LogEvents
<1> QED
  BY <1>1, EventFields DEF Those, Of

LEMMA CreatedRow ==
    ASSUME NEW row \in Row \union {NoRow}, NEW e \in Event
    PROVE  Created(row, e) \in Row
BY EventFields, NoRowAssumption DEF Created, Row, Status

LEMMA UpdatedRow ==
    ASSUME NEW row \in Row, NEW e \in Event
    PROVE  Updated(row, e) \in Row
<1>1. /\ row.status \in Status /\ row.end \in Date \union {None}
      /\ row.trial \in Date \union {None}
  BY DEF Row
<1>2. (IF e.type \in DOMAIN StatusOf THEN StatusOf[e.type] ELSE row.status) \in Status
  BY <1>1, StatusTypes
<1> HIDE DEF StatusOf
<1> QED
  BY <1>1, <1>2, EventFields DEF Updated, Row, Coalesce

LEMMA ApplyRows ==
    ASSUME NEW T \in Tables, NEW e \in Event
    PROVE  /\ Apply(T, e) \in Tables
           /\ \A c \in Contract \ {e.id} : Apply(T, e)[c] = T[c]
           /\ e.type = "created" => Apply(T, e)[e.id] = Created(T[e.id], e)
           /\ e.type # "created" =>
                Apply(T, e)[e.id] = IF T[e.id] = NoRow THEN NoRow ELSE Updated(T[e.id], e)
<1>1. e.id \in Contract
  BY EventFields
<1>2. T[e.id] \in Row \union {NoRow}
  BY <1>1 DEF Tables
<1>3. Created(T[e.id], e) \in Row
  BY <1>2, CreatedRow
<1>4. T[e.id] # NoRow => Updated(T[e.id], e) \in Row
  BY <1>2, UpdatedRow
<1> QED
  BY <1>1, <1>3, <1>4 DEF Apply, Tables

\* The columns the event at p + 1 writes are final if nothing after it writes
\* them; the others are as final as they were.
LEMMA StatusColumn ==
    ASSUME log \in Seq(Event), NEW p \in Nat, p < Len(log), NEW c \in Contract,
           log[p + 1].id = c, log[p + 1].type \in DOMAIN StatusOf,
           Final(Those(c, Len(log), DOMAIN StatusOf), p + 1)
    PROVE  StatusAt(c, Len(log)) = StatusOf[log[p + 1].type]
<1> DEFINE I == Those(c, Len(log), DOMAIN StatusOf)
<1>1. Len(log) \in Nat /\ p + 1 \in 1..Len(log)
  BY LenProperties
<1>2. I \in SUBSET Nat /\ p + 1 \in I
  BY <1>1 DEF Those
<1>3. Latest(I) = p + 1 /\ I # {}
  <2> HIDE DEF I
  <2> QED
    BY <1>2, FinalStep DEF I
<1> QED
  BY <1>3 DEF StatusAt, LastOf

LEMMA EndColumn ==
    ASSUME log \in Seq(Event), NEW p \in Nat, p < Len(log), NEW c \in Contract,
           log[p + 1].id = c, log[p + 1].type \in EndWriters, log[p + 1].until # None,
           Final(Known(Those(c, Len(log), EndWriters)), p + 1)
    PROVE  EndAt(c, Len(log)) = log[p + 1].until
<1> DEFINE I == Known(Those(c, Len(log), EndWriters))
<1>1. Len(log) \in Nat /\ p + 1 \in 1..Len(log)
  BY LenProperties
<1>2. I \in SUBSET Nat /\ p + 1 \in I
  BY <1>1 DEF Those, Known
<1>3. Latest(I) = p + 1 /\ I # {}
  <2> HIDE DEF I
  <2> QED
    BY <1>2, FinalStep DEF I
<1> QED
  BY <1>3 DEF EndAt, EndWriters

LEMMA TrialColumn ==
    ASSUME log \in Seq(Event), NEW p \in Nat, p < Len(log), NEW c \in Contract,
           log[p + 1].id = c, log[p + 1].type \in TrialWriters,
           Final(Those(c, Len(log), TrialWriters), p + 1)
    PROVE  TrialAt(c, Len(log)) = IF log[p + 1].type = "trial_started" THEN log[p + 1].until
                                  ELSE None
<1> DEFINE I == Those(c, Len(log), TrialWriters)
<1>1. Len(log) \in Nat /\ p + 1 \in 1..Len(log)
  BY LenProperties
<1>2. I \in SUBSET Nat /\ p + 1 \in I
  BY <1>1 DEF Those
<1>3. Latest(I) = p + 1 /\ I # {}
  <2> HIDE DEF I
  <2> QED
    BY <1>2, FinalStep DEF I
<1> QED
  BY <1>3 DEF TrialAt, TrialWriters

LEMMA VersionColumn ==
    ASSUME log \in Seq(Event), Numbered, NEW p \in Nat, p < Len(log), NEW c \in Contract,
           log[p + 1].id = c, Final(Those(c, Len(log), Types), p + 1)
    PROVE  log[p + 1].version = Cardinality(Those(c, Len(log), Types))
<1>1. Len(log) \in Nat /\ p + 1 \in 1..Len(log)
  BY LenProperties
<1>2. Those(c, p + 1, Types) = Those(c, Len(log), Types)
  BY <1>1 DEF Those, Final
<1>3. log[p + 1].version = Cardinality(Those(c, p + 1, Types))
  BY <1>1, ThoseAll DEF Numbered, InOrder
<1> QED
  BY <1>2, <1>3

\* A column that the event at p + 1 does not write is as final as before it.
LEMMA OtherColumns ==
    ASSUME log \in Seq(Event), NEW p \in Nat, p < Len(log), NEW c, NEW T,
           log[p + 1].id # c \/ log[p + 1].type \notin T
    PROVE  /\ Final(Those(c, Len(log), T), p + 1) => Final(Those(c, Len(log), T), p)
           /\ Final(Known(Those(c, Len(log), T)), p + 1)
                => Final(Known(Those(c, Len(log), T)), p)
<1>1. Len(log) \in Nat
  BY LenProperties
<1>2. p + 1 \notin Those(c, Len(log), T) /\ p + 1 \notin Known(Those(c, Len(log), T))
  BY DEF Those, Known
<1>3. Those(c, Len(log), T) \in SUBSET Nat /\ Known(Those(c, Len(log), T)) \in SUBSET Nat
  BY <1>1 DEF Those, Known
<1> QED
  BY <1>2, <1>3, FinalStep

LEMMA OtherRows ==
    ASSUME log \in Seq(Event), NEW T \in Tables, NEW p \in Nat, p < Len(log), Agrees(T, p),
           NEW c \in Contract, c # log[p + 1].id
    PROVE  IF T[c] = NoRow THEN Those(c, p + 1, Types) = {}
           ELSE Those(c, Len(log), Types) # {} /\ Shows(T[c], c, p + 1)
<1>1. CASE T[c] = NoRow
  <2>1. Those(c, p, Types) = {}
    BY <1>1 DEF Agrees
  <2>2. Those(c, p + 1, Types) = {}
    BY <2>1 DEF Those
  <2> QED
    BY <1>1, <2>2
<1>2. CASE T[c] # NoRow
  <2>1. Those(c, Len(log), Types) # {} /\ Shows(T[c], c, p)
    BY <1>2 DEF Agrees
  <2> QED
    BY <1>2, <2>1, OtherColumns DEF Shows
<1> QED
  BY <1>1, <1>2

\* The upsert of contract.created.
LEMMA CreatedShows ==
    ASSUME log \in Seq(Event), Numbered, NEW T \in Tables, NEW p \in Nat, p < Len(log),
           Agrees(T, p), NEW e, e = log[p + 1], e.type = "created"
    PROVE  Shows(Created(T[e.id], e), e.id, p + 1)
<1> DEFINE c == e.id
           new == Created(T[c], e)
<1>1. Len(log) \in Nat /\ e \in Event /\ c \in Contract /\ p + 1 \in 1..Len(log)
  BY LogEvents, EventFields
<1>2. /\ new.status = "draft" /\ new.version = e.version
      /\ T[c] = NoRow => new.end = None /\ new.trial = None
      /\ T[c] # NoRow => new.end = T[c].end /\ new.trial = T[c].trial
  BY DEF Created
<1>3. "created" \notin EndWriters /\ "created" \notin TrialWriters
  BY DEF EndWriters, TrialWriters
<1>4. EndWriters \subseteq Types /\ TrialWriters \subseteq Types
  BY DEF EndWriters, TrialWriters, Types
<1> HIDE DEF new, c
<1>5. e.id = c
  BY DEF c
<1>6. T[c] = NoRow => Those(c, p, Types) = {}
  BY <1>1 DEF Agrees
<1>7. T[c] # NoRow => Shows(T[c], c, p)
  BY <1>1 DEF Agrees
<1>8. Final(Those(c, Len(log), DOMAIN StatusOf), p + 1) => new.status = StatusAt(c, Len(log))
  BY <1>1, <1>2, <1>5, StatusColumn, StatusTypes
<1>9. ASSUME Final(Known(Those(c, Len(log), EndWriters)), p + 1)
      PROVE  new.end = EndAt(c, Len(log))
  <2>1. Final(Known(Those(c, Len(log), EndWriters)), p)
    BY <1>3, <1>9, OtherColumns
  <2>2. CASE T[c] = NoRow
    <3>1. Known(Those(c, Len(log), EndWriters)) = {}
      BY <1>4, <1>6, <2>1, <2>2 DEF Final, Known, Those
    <3> QED
      BY <1>2, <2>2, <3>1 DEF EndAt, EndWriters
  <2> QED
    BY <1>2, <1>7, <2>1, <2>2 DEF Shows
<1>10. ASSUME Final(Those(c, Len(log), TrialWriters), p + 1)
       PROVE  new.trial = TrialAt(c, Len(log))
  <2>1. Final(Those(c, Len(log), TrialWriters), p)
    BY <1>3, <1>10, OtherColumns
  <2>2. CASE T[c] = NoRow
    <3>1. Those(c, Len(log), TrialWriters) = {}
      BY <1>4, <1>6, <2>1, <2>2 DEF Final, Those
    <3> QED
      BY <1>2, <2>2, <3>1 DEF TrialAt, TrialWriters
  <2> QED
    BY <1>2, <1>7, <2>1, <2>2 DEF Shows
<1>11. Final(Those(c, Len(log), Types), p + 1)
         => new.version = Cardinality(Those(c, Len(log), Types))
  BY <1>1, <1>2, <1>5, VersionColumn
<1> QED
  BY <1>8, <1>9, <1>10, <1>11 DEF Shows, new, c

\* The UPDATE of any other event.
LEMMA UpdatedShows ==
    ASSUME log \in Seq(Event), Numbered, NEW p \in Nat, p < Len(log),
           NEW e, e = log[p + 1], NEW row \in Row, Shows(row, e.id, p)
    PROVE  Shows(Updated(row, e), e.id, p + 1)
<1> DEFINE c == e.id
           new == Updated(row, e)
<1>1. /\ Len(log) \in Nat /\ e \in Event /\ c \in Contract /\ p + 1 \in 1..Len(log)
  BY LogEvents, EventFields
<1>2. /\ e.type \in DOMAIN StatusOf => new.status = StatusOf[e.type]
      /\ e.type \notin DOMAIN StatusOf => new.status = row.status
      /\ new.version = e.version
  BY DEF Updated
<1>3. /\ e.type \in EndWriters /\ e.until # None => new.end = e.until
      /\ ~ (e.type \in EndWriters /\ e.until # None) => new.end = row.end
  BY DEF Updated, EndWriters, Coalesce
<1>4. /\ e.type \in TrialWriters =>
           new.trial = IF e.type = "trial_started" THEN e.until ELSE None
      /\ e.type \notin TrialWriters => new.trial = row.trial
  BY DEF Updated, TrialWriters
<1> HIDE DEF new, c
<1>5. e.id = c /\ Shows(row, c, p)
  BY DEF c
<1>6. Final(Those(c, Len(log), DOMAIN StatusOf), p + 1) => new.status = StatusAt(c, Len(log))
  BY <1>1, <1>2, <1>5, StatusColumn, OtherColumns DEF Shows
<1>7. ASSUME Final(Known(Those(c, Len(log), EndWriters)), p + 1)
      PROVE  new.end = EndAt(c, Len(log))
  <2>1. CASE e.type \in EndWriters /\ e.until # None
    BY <1>1, <1>3, <1>5, <1>7, <2>1, EndColumn
  <2>2. CASE ~ (e.type \in EndWriters /\ e.until # None)
    <3>1. p + 1 \notin Known(Those(c, Len(log), EndWriters))
      BY <2>2 DEF Known, Those
    <3>2. Known(Those(c, Len(log), EndWriters)) \in SUBSET Nat
      BY <1>1 DEF Known, Those
    <3>3. Final(Known(Those(c, Len(log), EndWriters)), p)
      BY <1>7, <3>1, <3>2, FinalStep
    <3> QED
      BY <1>3, <1>5, <2>2, <3>3 DEF Shows
  <2> QED
    BY <2>1, <2>2
<1>8. Final(Those(c, Len(log), TrialWriters), p + 1) => new.trial = TrialAt(c, Len(log))
  BY <1>1, <1>4, <1>5, TrialColumn, OtherColumns DEF Shows
<1>9. Final(Those(c, Len(log), Types), p + 1)
         => new.version = Cardinality(Those(c, Len(log), Types))
  BY <1>1, <1>2, <1>5, VersionColumn
<1> QED
  BY <1>6, <1>7, <1>8, <1>9 DEF Shows, new, c

\* Project and the scan of Rebuild apply the event after p.
LEMMA ApplyAgrees ==
    ASSUME log \in Seq(Event), Numbered, NEW T \in Tables, NEW p \in Nat, p < Len(log),
           Agrees(T, p)
    PROVE  Apply(T, log[p + 1]) \in Tables /\ Agrees(Apply(T, log[p + 1]), p + 1)
<1> DEFINE e == log[p + 1]
           U == Apply(T, e)
<1>1. Len(log) \in Nat /\ e \in Event /\ e.id \in Contract /\ p + 1 \in 1..Len(log)
  BY LogEvents, EventFields
<1>2. /\ U \in Tables /\ \A c \in Contract \ {e.id} : U[c] = T[c]
      /\ e.type = "created" => U[e.id] = Created(T[e.id], e)
      /\ e.type # "created" => U[e.id] = IF T[e.id] = NoRow THEN NoRow ELSE Updated(T[e.id], e)
  BY <1>1, ApplyRows
<1>3. T[e.id] \in Row \union {NoRow}
  BY <1>1 DEF Tables
<1>4. p + 1 \in Those(e.id, Len(log), Types)
  BY <1>1, EventFields DEF Those
<1>5. U[e.id] # NoRow /\ Shows(U[e.id], e.id, p + 1)
  <2>1. CASE e.type = "created"
    <3>1. Created(T[e.id], e) \in Row
      BY <1>1, <1>3, CreatedRow
    <3> QED
      BY <1>2, <2>1, <3>1, CreatedShows, NoRowAssumption
  <2>2. CASE e.type # "created"
    <3>1. Of(log, e.id, (p + 1) - 1) # {} /\ (p + 1) - 1 = p
      BY <1>1, <2>2 DEF Numbered, InOrder
    <3>2. Those(e.id, p, Types) # {}
      BY <1>1, <3>1, ThoseAll
    <3>3. T[e.id] # NoRow /\ Shows(T[e.id], e.id, p)
      BY <1>1, <3>2 DEF Agrees
    <3>4. Updated(T[e.id], e) \in Row /\ T[e.id] \in Row
      BY <1>1, <1>3, <3>3, UpdatedRow
    <3> QED
      BY <1>2, <2>2, <3>3, <3>4, UpdatedShows, NoRowAssumption
  <2> QED
    BY <2>1, <2>2
<1> HIDE DEF U, e
<1>6. ASSUME NEW c \in Contract
      PROVE  IF U[c] = NoRow THEN Those(c, p + 1, Types) = {}
             ELSE Those(c, Len(log), Types) # {} /\ Shows(U[c], c, p + 1)
  <2>1. CASE c = e.id
    BY <1>4, <1>5, <2>1
  <2>2. CASE c # e.id
    BY <1>2, <2>2, OtherRows DEF e
  <2> QED
    BY <2>1, <2>2
<1> QED
  BY <1>2, <1>6 DEF Agrees, U, e
-----------------------------------------------------------------------------
(***************************************************************************)
(* Appending events                                                        *)
(***************************************************************************)
\* Events are only appended.
Grown == /\ log \in Seq(Event) /\ log' \in Seq(Event)
         /\ Len(log) <= Len(log') /\ \A i \in 1..Len(log) : log'[i] = log[i]

LEMMA ThoseStay ==
    ASSUME Grown, NEW n \in 0..Len(log), NEW c, NEW X
    PROVE  Those(c, n, X)' = Those(c, n, X) /\ Known(Those(c, n, X))' = Known(Those(c, n, X))
<1>1. Len(log) \in Nat
  BY LenProperties DEF Grown
<1> QED
  BY <1>1 DEF Grown, Those, Known

\* What was final before and still is was not written by the new events.
LEMMA FinalStays ==
    ASSUME Grown, NEW p \in 0..Len(log), NEW c, NEW X
    PROVE  /\ Final(Those(c, Len(log), X), p)'
                => /\ Final(Those(c, Len(log), X), p)
                   /\ Those(c, Len(log), X)' = Those(c, Len(log), X)
           /\ Final(Known(Those(c, Len(log), X)), p)'
                => /\ Final(Known(Those(c, Len(log), X)), p)
                   /\ Known(Those(c, Len(log), X))' = Known(Those(c, Len(log), X))
<1>1. Len(log) \in Nat /\ Len(log)' \in Nat
  BY LenProperties DEF Grown
<1> QED
  BY <1>1 DEF Grown, Those, Known, Final

LEMMA ShowsStays ==
    ASSUME Grown, NEW p \in 0..Len(log), NEW c, NEW row, Shows(row, c, p)
    PROVE  Shows(row, c, p)'
<1>1. Len(log) \in Nat /\ Len(log)' \in Nat
  BY LenProperties DEF Grown
<1>2. ASSUME Final(Those(c, Len(log), DOMAIN StatusOf), p)'
      PROVE  row.status = StatusAt(c, Len(log))'
  <2> DEFINE I == Those(c, Len(log), DOMAIN StatusOf)
  <2>1. I' = I /\ Final(I, p)
    BY <1>2, FinalStays
  <2>2. I # {} => Latest(I) \in 1..Len(log)
    <3> HIDE DEF I
    <3>1. I \in SUBSET (1..Len(log))
      BY <1>1, ThoseIn DEF I
    <3> QED
      BY <1>1, <3>1, LatestIn
  <2>3. I # {} => log'[Latest(I)] = log[Latest(I)]
    BY <2>2 DEF Grown
  <2>4. row.status = StatusAt(c, Len(log))
    BY <2>1 DEF Shows
  <2> QED
    BY <2>1, <2>3, <2>4 DEF StatusAt, LastOf
<1>3. ASSUME Final(Known(Those(c, Len(log), EndWriters)), p)'
      PROVE  row.end = EndAt(c, Len(log))'
  <2> DEFINE I == Known(Those(c, Len(log), EndWriters))
  <2>1. I' = I /\ Final(I, p)
    BY <1>3, FinalStays
  <2>2. I # {} => Latest(I) \in 1..Len(log)
    <3> HIDE DEF I
    <3>1. I \in SUBSET (1..Len(log))
      BY <1>1, ThoseIn DEF I
    <3> QED
      BY <1>1, <3>1, LatestIn
  <2>3. I # {} => log'[Latest(I)] = log[Latest(I)]
    BY <2>2 DEF Grown
  <2>4. row.end = EndAt(c, Len(log))
    BY <2>1 DEF Shows
  <2> QED
    BY <2>1, <2>3, <2>4 DEF EndAt, EndWriters
<1>4. ASSUME Final(Those(c, Len(log), TrialWriters), p)'
      PROVE  row.trial = TrialAt(c, Len(log))'
  <2> DEFINE I == Those(c, Len(log), TrialWriters)
  <2>1. I' = I /\ Final(I, p)
    BY <1>4, FinalStays
  <2>2. I # {} => Latest(I) \in 1..Len(log)
    <3> HIDE DEF I
    <3>1. I \in SUBSET (1..Len(log))
      BY <1>1, ThoseIn DEF I
    <3> QED
      BY <1>1, <3>1, LatestIn
  <2>3. I # {} => log'[Latest(I)] = log[Latest(I)]
    BY <2>2 DEF Grown
  <2>4. row.trial = TrialAt(c, Len(log))
    BY <2>1 DEF Shows
  <2> QED
    BY <2>1, <2>3, <2>4 DEF TrialAt, TrialWriters
<1>5. ASSUME Final(Those(c, Len(log), Types), p)'
      PROVE  row.version = Cardinality(Those(c, Len(log), Types))'
  BY <1>5, FinalStays DEF Shows
<1> QED
  BY <1>2, <1>3, <1>4, <1>5 DEF Shows

LEMMA AgreesStays ==
    ASSUME Grown, NEW p \in 0..Len(log), NEW T, Agrees(T, p)
    PROVE  Agrees(T, p)'
<1>1. Len(log) \in Nat /\ Len(log)' \in Nat
  BY LenProperties DEF Grown
<1> SUFFICES ASSUME NEW c \in Contract
             PROVE  IF T[c] = NoRow THEN Those(c, p, Types)' = {}
                    ELSE Those(c, Len(log), Types)' # {} /\ Shows(T[c], c, p)'
  BY DEF Agrees
<1>2. CASE T[c] = NoRow
  BY <1>2, ThoseStay DEF Agrees
<1>3. CASE T[c] # NoRow
  <2>1. Those(c, Len(log), Types) # {} /\ Shows(T[c], c, p)
    BY <1>3 DEF Agrees
  <2>2. Those(c, Len(log), Types)' # {}
    BY <1>1, <2>1 DEF Grown, Those
  <2>3. \A row : Shows(row, c, p) => Shows(row, c, p)'
    BY ShowsStays
  <2> QED
    BY <1>3, <2>1, <2>2, <2>3
<1> QED
  BY <1>2, <1>3

\* The next event of a stream.
Next1(s, e) ==
    /\ e.version = Cardinality(Of(s, e.id, Len(s))) + 1
    /\ e.type = "created" <=> Of(s, e.id, Len(s)) = {}
    /\ ~SkewedClocks => \A i \in Of(s, e.id, Len(s)) : s[i].at <= e.at

LEMMA AppendInOrder ==
    ASSUME NEW s \in Seq(Event), InOrder(s), NEW e \in Event, Next1(s, e)
    PROVE  Append(s, e) \in Seq(Event) /\ InOrder(Append(s, e))
<1> DEFINE t == Append(s, e)
           n == Len(s)
<1>1. /\ t \in Seq(Event) /\ n \in Nat /\ Len(t) = n + 1
      /\ \A i \in 1..n : t[i] = s[i]
      /\ t[n + 1] = e
  BY AppendProperties, LenProperties
<1> HIDE DEF t
<1>2. \A i \in 0..n : \A c : Of(t, c, i) = Of(s, c, i)
  BY <1>1 DEF Of
<1>3. ASSUME NEW i \in 1..n
      PROVE  /\ t[i].version = Cardinality(Of(t, t[i].id, i))
             /\ t[i].type = "created" <=> Of(t, t[i].id, i - 1) = {}
             /\ ~SkewedClocks => \A j \in 1..i : t[j].id = t[i].id => t[j].at <= t[i].at
  <2>1. i \in 0..n /\ i - 1 \in 0..n /\ t[i] = s[i] /\ \A j \in 1..i : t[j] = s[j]
    BY <1>1
  <2>2. Of(t, s[i].id, i) = Of(s, s[i].id, i) /\ Of(t, s[i].id, i - 1) = Of(s, s[i].id, i - 1)
    BY <1>2, <2>1
  <2>3. /\ s[i].version = Cardinality(Of(s, s[i].id, i))
        /\ s[i].type = "created" <=> Of(s, s[i].id, i - 1) = {}
        /\ ~SkewedClocks => \A j \in 1..i : s[j].id = s[i].id => s[j].at <= s[i].at
    BY DEF InOrder
  <2> QED
    BY <2>1, <2>2, <2>3
<1>4. /\ e.version = Cardinality(Of(t, e.id, n + 1))
      /\ e.type = "created" <=> Of(t, e.id, n) = {}
      /\ ~SkewedClocks => \A j \in 1..(n + 1) : t[j].id = e.id => t[j].at <= e.at
  <2>1. Of(t, e.id, n) = Of(s, e.id, n)
    BY <1>1, <1>2
  <2>2. Of(t, e.id, n + 1) = Of(s, e.id, n) \union {n + 1} /\ n + 1 \notin Of(s, e.id, n)
    BY <1>1 DEF Of
  <2>3. IsFiniteSet(Of(s, e.id, n))
    <3>1. IsFiniteSet(1..n) /\ Of(s, e.id, n) \in SUBSET (1..n)
      BY <1>1, FS_Interval DEF Of
    <3> QED
      BY <3>1, FS_Subset
  <2>4. Cardinality(Of(t, e.id, n + 1)) = Cardinality(Of(s, e.id, n)) + 1
    BY <2>2, <2>3, FS_AddElement
  <2>5. ASSUME ~SkewedClocks, NEW j \in 1..(n + 1), t[j].id = e.id
        PROVE  t[j].at <= e.at
    <3>1. CASE j = n + 1
      BY <1>1, <3>1, EventFields
    <3>2. CASE j \in 1..n
      BY <1>1, <2>5, <3>2 DEF Next1, Of
    <3> QED
      BY <1>1, <3>1, <3>2
  <2> QED
    BY <2>1, <2>4, <2>5 DEF Next1
<1>5. InOrder(t)
  <2> SUFFICES ASSUME NEW i \in 1..(n + 1)
               PROVE  /\ t[i].version = Cardinality(Of(t, t[i].id, i))
                      /\ t[i].type = "created" <=> Of(t, t[i].id, i - 1) = {}
                      /\ ~SkewedClocks
                           => \A j \in 1..i : t[j].id = t[i].id => t[j].at <= t[i].at
    BY <1>1 DEF InOrder
  <2>1. CASE i \in 1..n
    BY <1>3, <2>1
  <2>2. CASE i = n + 1
    <3>1. i - 1 = n /\ t[i] = e
      BY <1>1, <2>2
    <3> QED
      BY <1>4, <2>2, <3>1
  <2> QED
    BY <1>1, <2>1, <2>2
<1> QED
  BY <1>1, <1>5 DEF t
-----------------------------------------------------------------------------
(***************************************************************************)
(* Streams                                                                 *)
(***************************************************************************)
LEMMA OfIn ==
    ASSUME log \in Seq(Event), NEW c, NEW n \in 0..Len(log)
    PROVE  /\ Of(log, c, n) \in SUBSET (1..n) /\ IsFiniteSet(Of(log, c, n))
           /\ Cardinality(Of(log, c, n)) \in Nat
           /\ \A i \in Of(log, c, n) : log[i] \in Event /\ log[i].id = c
<1>1. Len(log) \in Nat /\ n \in Nat
  BY LenProperties
<1>2. Of(log, c, n) \in SUBSET (1..n) /\ IsFiniteSet(1..n)
  BY <1>1, FS_Interval DEF Of
<1>3. \A i \in Of(log, c, n) : log[i] \in Event /\ log[i].id = c
  BY <1>1, LogEvents DEF Of
<1> QED
  BY <1>2, <1>3, FS_Subset, FS_CardinalityType

LEMMA OfGrows ==
    ASSUME log \in Seq(Event), NEW c, NEW n \in 0..Len(log), NEW m \in 0..n
    PROVE  /\ Of(log, c, m) \in SUBSET Of(log, c, n)
           /\ Cardinality(Of(log, c, m)) <= Cardinality(Of(log, c, n))
           /\ \A i \in Of(log, c, n) : i > m
                => Cardinality(Of(log, c, m)) < Cardinality(Of(log, c, n))
<1>1. Len(log) \in Nat /\ n \in Nat /\ m \in Nat /\ m \in 0..Len(log) /\ m <= n
  BY LenProperties
<1>2. Of(log, c, m) \in SUBSET Of(log, c, n)
  BY <1>1 DEF Of
<1>3. /\ IsFiniteSet(Of(log, c, n)) /\ Cardinality(Of(log, c, n)) \in Nat
      /\ Cardinality(Of(log, c, m)) \in Nat
  BY <1>1, OfIn
<1>4. Cardinality(Of(log, c, m)) <= Cardinality(Of(log, c, n))
  BY <1>2, <1>3, FS_Subset
<1>5. ASSUME NEW i \in Of(log, c, n), i > m
      PROVE  Cardinality(Of(log, c, m)) < Cardinality(Of(log, c, n))
  <2>1. Of(log, c, m) # Of(log, c, n)
    BY <1>1, <1>5 DEF Of
  <2>2. Cardinality(Of(log, c, m)) # Cardinality(Of(log, c, n))
    BY <1>2, <1>3, <2>1, FS_Subset
  <2> QED
    BY <1>3, <1>4, <2>2
<1> QED
  BY <1>2, <1>4, <1>5

\* Versions rise along a stream, from 1 to the number of its events.
LEMMA VersionsRise ==
    ASSUME log \in Seq(Event), Numbered, NEW c, NEW n \in 0..Len(log),
           NEW i \in Of(log, c, n), NEW j \in Of(log, c, n)
    PROVE  /\ log[i].version \in 1..Cardinality(Of(log, c, n))
           /\ i < j => log[i].version < log[j].version
<1>1. /\ Len(log) \in Nat /\ n \in Nat /\ i \in 1..n /\ j \in 1..n
      /\ i \in 1..Len(log) /\ j \in 1..Len(log) /\ i \in 0..n /\ i \in 0..Len(log)
      /\ j \in 0..Len(log) /\ log[i].id = c /\ log[j].id = c
  BY LenProperties DEF Of
<1>2. /\ log[i].version = Cardinality(Of(log, c, i))
      /\ log[j].version = Cardinality(Of(log, c, j))
  BY <1>1 DEF Numbered, InOrder
<1>3. log[i].version \in Nat \ {0} /\ Cardinality(Of(log, c, n)) \in Nat
  BY <1>1, OfIn, LogEvents, EventFields
<1>4. Cardinality(Of(log, c, i)) <= Cardinality(Of(log, c, n))
  BY <1>1, OfGrows
<1>5. ASSUME i < j PROVE Cardinality(Of(log, c, i)) < Cardinality(Of(log, c, j))
  <2>1. i \in 0..j /\ j \in Of(log, c, j) /\ j > i
    BY <1>1, <1>5 DEF Of
  <2> QED
    BY <1>1, <2>1, OfGrows
<1> QED
  BY <1>2, <1>3, <1>4, <1>5

LEMMA StreamOf ==
    ASSUME log \in Seq(Event), Numbered, NEW c, NEW n \in 0..Len(log)
    PROVE  /\ Stream(c, n) = {log[i] : i \in Of(log, c, n)}
           /\ IsFiniteSet(Stream(c, n))
           /\ Cardinality(Stream(c, n)) = Cardinality(Of(log, c, n))
           /\ Cardinality(Stream(c, n)) \in Nat
<1> DEFINE I == Of(log, c, n)
           f == [i \in I |-> log[i]]
<1>1. Stream(c, n) = {log[i] : i \in I}
  BY DEF Stream, Of
<1>2. IsFiniteSet(I) /\ I \in SUBSET Nat /\ Cardinality(I) \in Nat
  BY OfIn
<1>3. ASSUME NEW i \in I, NEW j \in I, log[i] = log[j] PROVE i = j
  <2>1. ~ (i < j)
    BY <1>3, VersionsRise, OfIn, EventFields
  <2>2. ~ (j < i)
    BY <1>3, VersionsRise, OfIn, EventFields
  <2> QED
    BY <1>2, <2>1, <2>2
<1> HIDE DEF I
<1>4. f \in Bijection(I, Stream(c, n))
  <2>1. f \in Surjection(I, Stream(c, n))
    BY <1>1 DEF Surjection
  <2>2. f \in Injection(I, Stream(c, n))
    BY <1>1, <1>3 DEF Injection, IsInjective
  <2> QED
    BY <2>1, <2>2 DEF Bijection
<1>5. ExistsBijection(I, Stream(c, n))
  BY <1>4 DEF ExistsBijection
<1>6. IsFiniteSet(Stream(c, n)) /\ Cardinality(Stream(c, n)) = Cardinality(I)
  BY <1>2, <1>5, FS_Bijection
<1> QED
  BY <1>1, <1>2, <1>6 DEF I

\* The last event of a stream, or of a part of it, is the last one in the log.
LEMMA LastIs ==
    ASSUME log \in Seq(Event), Numbered, NEW c, NEW n \in 0..Len(log),
           NEW I \in SUBSET Of(log, c, n), I # {}
    PROVE  \E k \in I : /\ Last({log[i] : i \in I}) = log[k]
                        /\ \A i \in I : i <= k
                        /\ \A i \in I : log[i].version <= log[k].version
<1> DEFINE S == {log[i] : i \in I}
<1>1. n \in Nat /\ I \in SUBSET (1..n)
  BY LenProperties, OfIn
<1>2. PICK m \in I : \A i \in I : i <= m
  BY <1>1, GreatestOf
<1>3. \A i \in I : log[i].version <= log[m].version
  <2> SUFFICES ASSUME NEW i \in I PROVE log[i].version <= log[m].version
    OBVIOUS
  <2>1. CASE i = m
    BY <2>1, OfIn, EventFields
  <2>2. CASE i < m
    BY <2>2, VersionsRise, OfIn, EventFields
  <2> QED
    BY <1>1, <1>2, <2>1, <2>2
<1>4. \E e \in S : \A d \in S : d.version <= e.version
  BY <1>3
<1>5. Last(S) \in S /\ \A d \in S : d.version <= Last(S).version
  <2> HIDE DEF S
  <2> QED
    BY <1>4 DEF Last
<1>6. PICK k \in I : Last(S) = log[k]
  BY <1>5
<1>7. \A i \in I : log[i].version <= log[k].version
  BY <1>5, <1>6
<1>8. ASSUME NEW i \in I PROVE i <= k
  <2>1. ~ (k < i)
    BY <1>7, VersionsRise, OfIn, EventFields
  <2> QED
    BY <1>1, <2>1
<1> QED
  BY <1>6, <1>7, <1>8
-----------------------------------------------------------------------------
(***************************************************************************)
(* Saving a contract                                                       *)
(***************************************************************************)
LEMMA PastOf ==
    ASSUME log \in Seq(Event), Numbered, NEW c
    PROVE  /\ Past(c) = {} <=> Of(log, c, Len(log)) = {}
           /\ Cardinality(Past(c)) = Cardinality(Of(log, c, Len(log)))
           /\ Cardinality(Past(c)) \in Nat
<1>1. Len(log) \in 0..Len(log)
  BY LenProperties
<1>2. /\ Past(c) = {log[i] : i \in Of(log, c, Len(log))}
      /\ Cardinality(Past(c)) = Cardinality(Of(log, c, Len(log)))
      /\ Cardinality(Past(c)) \in Nat
  BY <1>1, StreamOf DEF Past
<1>3. Past(c) = {} <=> Of(log, c, Len(log)) = {}
  BY <1>2
<1> QED
  BY <1>2, <1>3

\* A contract that exists has a status.
LEMMA HasStatus ==
    ASSUME log \in Seq(Event), Numbered, NEW c, Past(c) # {}
    PROVE  c \in Contract /\ StatusNow(c) \in Status
<1> DEFINE O == Of(log, c, Len(log))
           I == Those(c, Len(log), DOMAIN StatusOf)
<1>1. Len(log) \in Nat /\ Len(log) \in 0..Len(log)
  BY LenProperties
<1>2. O # {} /\ O \in SUBSET (1..Len(log)) /\ \A i \in O : log[i] \in Event /\ log[i].id = c
  BY <1>1, PastOf, OfIn
<1>3. PICK i \in O : \A j \in O : i <= j
  <2>1. O \subseteq Nat
    BY <1>1, <1>2
  <2> HIDE DEF O
  <2> QED
    BY <1>2, <2>1, LeastOf
<1>4. log[i].type = "created"
  <2>1. i \in 1..Len(log) /\ log[i].id = c
    BY <1>2
  <2>2. Of(log, c, i - 1) = {}
    BY <1>1, <1>3, <2>1 DEF Of
  <2> QED
    BY <2>1, <2>2 DEF Numbered, InOrder
<1>5. i \in I
  BY <1>2, <1>4, StatusTypes DEF Those
<1>6. Latest(I) \in I
  <2>1. I \in SUBSET (1..Len(log))
    BY <1>1, ThoseIn
  <2> HIDE DEF I
  <2> QED
    BY <1>1, <1>5, <2>1, LatestIn
<1>7. LastOf(c, Len(log), DOMAIN StatusOf) \in DOMAIN StatusOf
  BY <1>5, <1>6 DEF LastOf, Those
<1>8. c \in Contract
  BY <1>2, <1>3, EventFields
<1> QED
  BY <1>7, <1>8, StatusTypes DEF StatusNow, StatusAt

\* No transition of a contract creates it again.
LEMMA FollowTypes ==
    ASSUME NEW s \in Status, NEW t \in Follows[s]
    PROVE  t # "created"
BY DEF Status, Follows

\* The clock does not go back, where that is assumed.
LEMMA TimesLater ==
    ASSUME log \in Seq(Event), Numbered, NEW c, NEW t \in Times(c), ~SkewedClocks
    PROVE  \A i \in Of(log, c, Len(log)) : log[i].at <= t
<1> DEFINE I == Of(log, c, Len(log))
<1> SUFFICES ASSUME I # {} PROVE \A i \in I : log[i].at <= t
  OBVIOUS
<1>1. Len(log) \in Nat /\ Len(log) \in 0..Len(log) /\ I \in SUBSET (1..Len(log))
  BY LenProperties, OfIn
<1>2. Past(c) # {} /\ Past(c) = {log[i] : i \in I}
  BY <1>1, PastOf, StreamOf DEF Past
<1>3. PICK k \in I : Last(Past(c)) = log[k] /\ \A i \in I : i <= k
  <2> HIDE DEF I
  <2> QED
    BY <1>1, <1>2, LastIs DEF I
<1>4. t \in Date /\ log[k].at <= t
  BY <1>2, <1>3 DEF Times
<1>5. ASSUME NEW i \in I PROVE log[i].at <= t
  <2>1. /\ k \in 1..Len(log) /\ i \in 1..k /\ log[i].id = c /\ log[k].id = c
        /\ log[i] \in Event /\ log[k] \in Event
    BY <1>1, <1>3, OfIn
  <2>2. log[i].at <= log[k].at
    BY <2>1 DEF Numbered, InOrder
  <2>3. log[i].at \in Nat /\ log[k].at \in Nat /\ t \in Nat
    BY <1>4, <2>1, EventFields, ProjectionAssumption
  <2> QED
    BY <1>4, <2>2, <2>3
<1> QED
  BY <1>5

\* An event appended to the stream of an existing contract.
LEMMA AppendNext ==
    ASSUME log \in Seq(Event), Numbered, NEW c, Past(c) # {},
           NEW type \in Types \ {"created"}, NEW until \in Date \union {None},
           NEW at \in Times(c),
           log' = Append(log, NewEvent(c, Cardinality(Past(c)) + 1, type, until, at))
    PROVE  Grown /\ Numbered'
<1> DEFINE e == NewEvent(c, Cardinality(Past(c)) + 1, type, until, at)
<1>1. /\ c \in Contract /\ Cardinality(Past(c)) \in Nat
      /\ Of(log, c, Len(log)) # {} /\ Cardinality(Past(c)) = Cardinality(Of(log, c, Len(log)))
  BY HasStatus, PastOf
<1>2. at \in Date
  BY DEF Times
<1>3. /\ e \in Event /\ e.id = c /\ e.version = Cardinality(Past(c)) + 1
      /\ e.type = type /\ e.at = at
  BY <1>1, <1>2 DEF NewEvent, Event
<1> HIDE DEF e
<1>4. Next1(log, e)
  BY <1>1, <1>3, TimesLater DEF Next1
<1>5. log' = Append(log, e)
  BY DEF e
<1>6. log' \in Seq(Event) /\ InOrder(log')
  BY <1>3, <1>4, <1>5, AppendInOrder DEF Numbered
<1> QED
  BY <1>3, <1>5, <1>6, AppendProperties, LenProperties DEF Grown, Numbered

LEMMA EndsDates == \A type : EndsOf(type) \subseteq Date \union {None}
BY StoreAssumption DEF EndsOf

LEMMA RaisedTypes == \A c \in Contract : Raised[c] \subseteq Types
BY StoreAssumption

LEMMA SaveGrows ==
    ASSUME log \in Seq(Event), Numbered, NEW c \in Contract, Save(c)
    PROVE  Grown /\ Numbered'
<1>1. CASE SaveLoaded(c)
  <2>1. Past(c) # {}
    BY <1>1 DEF SaveLoaded
  <2>2. PICK type \in Follows[StatusNow(c)] \cap Raised[c] :
          \E until \in EndsOf(type), at \in Times(c) :
             log' = Append(log, NewEvent(c, Cardinality(Past(c)) + 1, type, until, at))
    BY <1>1 DEF SaveLoaded
  <2>3. PICK until \in EndsOf(type), at \in Times(c) :
             log' = Append(log, NewEvent(c, Cardinality(Past(c)) + 1, type, until, at))
    BY <2>2
  <2>4. type \in Types \ {"created"} /\ until \in Date \union {None}
    BY <2>1, HasStatus, FollowTypes, RaisedTypes, EndsDates
  <2> QED
    BY <2>1, <2>3, <2>4, AppendNext
<1>2. CASE SaveNew(c)
  <2>1. PICK type \in Follows["draft"] \cap Raised[c] :
          \E until \in EndsOf(type), at \in Date :
             log' = log \o <<NewEvent(c, 1, "created", None, at),
                             NewEvent(c, 2, type, until, at)>>
    BY <1>2 DEF SaveNew
  <2>2. PICK until \in EndsOf(type), at \in Date :
             log' = log \o <<NewEvent(c, 1, "created", None, at),
                             NewEvent(c, 2, type, until, at)>>
    BY <2>1
  <2> DEFINE a == NewEvent(c, 1, "created", None, at)
             b == NewEvent(c, 2, type, until, at)
             s == Append(log, a)
             n == Len(log)
  <2>3. type \in Types \ {"created"} /\ until \in Date \union {None} /\ "draft" \in Status
    BY FollowTypes, RaisedTypes, EndsDates DEF Status
  <2>4. a \in Event /\ a.id = c /\ a.version = 1 /\ a.type = "created" /\ a.at = at
    BY DEF NewEvent, Event, Types
  <2>5. b \in Event /\ b.id = c /\ b.version = 2 /\ b.type # "created" /\ b.at = at
    BY <2>3 DEF NewEvent, Event
  <2>6. log' = log \o <<a, b>>
    BY <2>2
  <2> HIDE DEF a, b
  <2>7. /\ s \in Seq(Event) /\ n \in Nat /\ Len(s) = n + 1
        /\ \A i \in 1..n : s[i] = log[i]
        /\ s[n + 1] = a
    BY <2>4, AppendProperties, LenProperties
  <2>8. log' = Append(s, b)
    BY <2>4, <2>5, <2>6
  <2>9. Of(log, c, n) = {}
    BY <1>2, PastOf DEF SaveNew
  <2>10. Next1(log, a)
    BY <2>4, <2>9, FS_EmptySet DEF Next1
  <2>11. InOrder(s)
    BY <2>4, <2>10, AppendInOrder DEF Numbered
  <2> HIDE DEF s
  <2>12. Of(s, c, n + 1) = {n + 1}
    BY <2>4, <2>7, <2>9 DEF Of
  <2>13. Next1(s, b)
    <3>1. Cardinality({n + 1}) = 1
      BY FS_Singleton
    <3>2. at \in Nat
      BY ProjectionAssumption
    <3>3. Of(s, b.id, Len(s)) = {n + 1} /\ s[n + 1].at = at /\ at <= b.at
      BY <2>4, <2>5, <2>7, <2>12, <3>2
    <3>4. b.version = Cardinality(Of(s, b.id, Len(s))) + 1
      BY <2>5, <3>1, <3>3
    <3> QED
      BY <2>5, <3>3, <3>4 DEF Next1
  <2>14. log' \in Seq(Event) /\ InOrder(log')
    BY <2>5, <2>7, <2>8, <2>11, <2>13, AppendInOrder
  <2>15. Len(log') = n + 2 /\ \A i \in 1..n : log'[i] = log[i]
    BY <2>5, <2>7, <2>8, AppendProperties
  <2> QED
    BY <2>7, <2>14, <2>15 DEF Grown, Numbered
<1> QED
  BY <1>1, <1>2 DEF Save

\* A renewal is stamped Now at the earliest, and not before the stream's past.
LEMMA RenewedAtIn ==
    ASSUME log \in Seq(Event), Numbered, NEW c, Past(c) # {}
    PROVE  RenewedAt(c) \in Times(c)
<1> DEFINE U == Times(c) \ 1..(Now - 1)
<1>1. Times(c) \subseteq Date /\ Date \subseteq Nat /\ Now \in Date
  BY ProjectionAssumption, StoreAssumption DEF Times
<1>2. U # {}
  <2>1. CASE SkewedClocks
    BY <1>1, <2>1 DEF Times
  <2>2. CASE ~SkewedClocks
    <3> DEFINE last == Last(Past(c))
    <3>1. last \in Event
      <4>1. Len(log) \in 0..Len(log) /\ Of(log, c, Len(log)) # {}
        BY PastOf, LenProperties
      <4>2. Past(c) = {log[i] : i \in Of(log, c, Len(log))}
        BY <4>1, StreamOf DEF Past
      <4>3. PICK k \in Of(log, c, Len(log)) : last = log[k]
        BY <4>1, <4>2, LastIs
      <4> QED
        BY <4>1, <4>3, OfIn
    <3>2. last.at \in Date
      BY <3>1, EventFields
    <3>3. Times(c) = {t \in Date : last.at <= t}
      BY <2>2 DEF Times
    <3>4. last.at \in Nat /\ Now \in Nat
      BY <1>1, <3>2
    <3>5. CASE last.at <= Now
      BY <1>1, <3>3, <3>4, <3>5
    <3>6. CASE ~ (last.at <= Now)
      BY <1>1, <3>2, <3>3, <3>4, <3>6
    <3> QED
      BY <3>5, <3>6
  <2> QED
    BY <2>1, <2>2
<1>3. \E t \in U : \A u \in U : t <= u
  <2>1. U \subseteq Nat
    BY <1>1
  <2> HIDE DEF U
  <2> QED
    BY <1>2, <2>1, LeastOf
<1> QED
  BY <1>3 DEF RenewedAt

LEMMA RenewGrows ==
    ASSUME log \in Seq(Event), Numbered, Renew
    PROVE  log' = log \/ (Grown /\ Numbered')
<1> DEFINE c == Head(due).id
<1> SUFFICES ASSUME StillDue(c), RenewOne(c) PROVE Grown /\ Numbered'
  BY DEF Renew
<1>1. Past(c) # {}
  BY DEF StillDue
<1>2. RenewedAt(c) \in Times(c)
  BY <1>1, RenewedAtIn
<1>3. NextPeriod \in Date
  BY StoreAssumption DEF NextPeriod
<1>4. "renewed" \in Types \ {"created"}
  BY DEF Types
<1> QED
  BY <1>1, <1>2, <1>3, <1>4, AppendNext DEF RenewOne
-----------------------------------------------------------------------------
(***************************************************************************)
(* The read model                                                          *)
(***************************************************************************)
Projected == ProjectionTypeOK /\ Numbered /\ ReadModels

Rebuilds == [open : BOOLEAN, rows : Tables, from : 0..Len(log), pos : 0..Len(log),
             until : Date \union {None}]

LEMMA TypesAre ==
    ProjectionTypeOK <=> /\ log \in Seq(Event) /\ table \in Tables
                         /\ checkpoint \in 0..Len(log) /\ cursor \in 0..Len(log)
                         /\ running \in BOOLEAN /\ rebuild \in Rebuilds
                         /\ faultsLeft \in Nat /\ rebuildsLeft \in Nat
BY DEF ProjectionTypeOK, Tables, Rebuilds

\* What is left to show of a step that leaves the log alone.
LEMMA ProjectedThen ==
    ASSUME Projected, log' = log,
           /\ table' \in Tables /\ checkpoint' \in 0..Len(log) /\ cursor' \in 0..Len(log)
           /\ rebuild' \in Rebuilds /\ faultsLeft' \in Nat /\ rebuildsLeft' \in Nat,
           running' \in BOOLEAN,
           Agrees(table', checkpoint'),
           running' => /\ Agrees(table', cursor') /\ checkpoint' <= cursor'
                       /\ ~rebuild'.open,
           rebuild'.open => Agrees(rebuild'.rows, rebuild'.pos)
    PROVE  Projected'
<1>1. log \in Seq(Event) /\ Numbered
  BY DEF Projected, ProjectionTypeOK
<1>2. ProjectionTypeOK'
  <2>1. rebuild' \in Rebuilds'
    BY DEF Rebuilds, Tables
  <2>2. table' \in Tables'
    BY DEF Tables
  <2>3. log' \in Seq(Event) /\ checkpoint' \in 0..Len(log') /\ cursor' \in 0..Len(log')
    BY <1>1
  <2> QED
    BY <2>1, <2>2, <2>3 DEF ProjectionTypeOK, Tables, Rebuilds
<1>3. Numbered'
  BY <1>1 DEF Numbered, InOrder, Of
<1>4. ReadModels'
        <=> /\ Agrees(table', checkpoint')
            /\ running' => /\ Agrees(table', cursor') /\ checkpoint' <= cursor'
                           /\ ~rebuild'.open
            /\ rebuild'.open => Agrees(rebuild'.rows, rebuild'.pos)
  <2>1. \A c, n, X : Those(c, n, X)' = Those(c, n, X)
    BY DEF Those
  <2>2. \A I : Known(I)' = Known(I)
    BY DEF Known
  <2>3. \A c, n : StatusAt(c, n)' = StatusAt(c, n)
    BY <2>1 DEF StatusAt, LastOf
  <2>4. \A c, n : EndAt(c, n)' = EndAt(c, n)
    BY DEF EndAt, Those, Known
  <2>5. \A c, n : TrialAt(c, n)' = TrialAt(c, n)
    BY <2>1 DEF TrialAt
  <2>6. Len(log)' = Len(log)
    OBVIOUS
  <2>7. \A q, c, n : Shows(q, c, n)' <=> Shows(q, c, n)
    BY <2>3, <2>4, <2>5, <2>6 DEF Shows, Those, Known, Final
  <2>8. Agrees(table, checkpoint)' <=> Agrees(table', checkpoint')
    BY <2>1, <2>6, <2>7 DEF Agrees
  <2>9. Agrees(table, cursor)' <=> Agrees(table', cursor')
    BY <2>1, <2>6, <2>7 DEF Agrees
  <2>10. Agrees(rebuild.rows, rebuild.pos)' <=> Agrees(rebuild'.rows, rebuild'.pos)
    BY <2>1, <2>6, <2>7 DEF Agrees
  <2> QED
    BY <2>8, <2>9, <2>10 DEF ReadModels
<1> QED
  BY <1>2, <1>3, <1>4 DEF Projected

\* A table that agrees with a position agrees with every earlier one: fewer
\* columns are final there.
LEMMA AgreesBelow ==
    ASSUME log \in Seq(Event), NEW q \in 0..Len(log), NEW p \in 0..q, NEW T, Agrees(T, q)
    PROVE  Agrees(T, p)
<1>1. Len(log) \in Nat /\ p \in Nat /\ q \in Nat /\ p <= q
  BY LenProperties
<1>2. ASSUME NEW c, NEW X, Final(Those(c, Len(log), X), p)
      PROVE  Final(Those(c, Len(log), X), q)
  BY <1>1, <1>2 DEF Final, Those
<1>3. ASSUME NEW c, NEW X, Final(Known(Those(c, Len(log), X)), p)
      PROVE  Final(Known(Those(c, Len(log), X)), q)
  BY <1>1, <1>3 DEF Final, Those, Known
<1>4. ASSUME NEW c \in Contract, NEW row, Shows(row, c, q) PROVE Shows(row, c, p)
  BY <1>2, <1>3, <1>4 DEF Shows
<1>5. \A c : Those(c, q, Types) = {} => Those(c, p, Types) = {}
  BY <1>1 DEF Those
<1> QED
  BY <1>4, <1>5 DEF Agrees

LEMMA EmptyAgrees == Empty \in Tables /\ Agrees(Empty, 0)
BY DEF Agrees, Empty, Those, Tables

LEMMA ClosedOk == log \in Seq(Event) => Closed \in Rebuilds /\ ~Closed.open
<1>1. FALSE \in BOOLEAN /\ ~FALSE
  OBVIOUS
<1> QED
  BY <1>1, EmptyAgrees, LenProperties DEF Closed, Rebuilds

LEMMA ProjectionInits == ProjectionInit => Projected
<1> SUFFICES ASSUME ProjectionInit PROVE Projected
  OBVIOUS
<1>1. log = <<>> /\ log \in Seq(Event) /\ Len(log) = 0
  BY EmptySeq DEF ProjectionInit
<1>2. rebuild \in Rebuilds /\ ~rebuild.open
  <2>1. FALSE \in BOOLEAN
    OBVIOUS
  <2>2. rebuild = [open |-> FALSE, rows |-> Empty, from |-> 0, pos |-> 0, until |-> None]
    BY DEF ProjectionInit, Closed
  <2>3. 0 \in 0..Len(log) /\ None \in Date \union {None}
    BY <1>1
  <2> QED
    BY <2>1, <2>2, <2>3, EmptyAgrees DEF Rebuilds
<1>3. ProjectionTypeOK
  <2>1. /\ table \in Tables /\ checkpoint \in 0..Len(log) /\ cursor \in 0..Len(log)
        /\ faultsLeft \in Nat /\ rebuildsLeft \in Nat
    BY <1>1, EmptyAgrees, ProjectionAssumption DEF ProjectionInit
  <2>2. running \in BOOLEAN
    BY DEF ProjectionInit
  <2> QED
    BY <1>1, <1>2, <2>1, <2>2, TypesAre
<1>4. Numbered
  BY <1>1 DEF Numbered, InOrder
<1>5. ReadModels
  <2>1. ~running /\ Agrees(table, checkpoint)
    BY EmptyAgrees DEF ProjectionInit
  <2> QED
    BY <1>2, <2>1 DEF ReadModels
<1> QED
  BY <1>3, <1>4, <1>5 DEF Projected

\* The log grows under the projection.
LEMMA GrowProjected ==
    ASSUME Projected, Grown, Numbered', UNCHANGED projectionVars
    PROVE  Projected'
<1>1. /\ UNCHANGED <<table, checkpoint, cursor, rebuild, faultsLeft, rebuildsLeft>>
      /\ Len(log) \in Nat /\ Len(log') \in Nat /\ Len(log) <= Len(log')
  BY LenProperties DEF projectionVars, projectorVars, Grown
<1>2. running' = running
  BY DEF projectionVars, projectorVars
<1>3. /\ log \in Seq(Event) /\ table \in Tables /\ rebuild \in Rebuilds
      /\ checkpoint \in 0..Len(log) /\ cursor \in 0..Len(log)
      /\ rebuild.pos \in 0..Len(log) /\ faultsLeft \in Nat /\ rebuildsLeft \in Nat
  BY TypesAre DEF Projected, Rebuilds
<1>4. running \in BOOLEAN
  BY TypesAre DEF Projected
<1>5. ProjectionTypeOK'
  <2>1. /\ log' \in Seq(Event) /\ table' \in Tables /\ faultsLeft' \in Nat
        /\ rebuildsLeft' \in Nat
    BY <1>1, <1>3 DEF Grown
  <2>2. checkpoint' \in 0..Len(log') /\ cursor' \in 0..Len(log')
    BY <1>1, <1>3
  <2>3. rebuild' \in Rebuilds'
    <3>1. 0..Len(log) \in SUBSET (0..Len(log'))
      BY <1>1
    <3> QED
      BY <1>1, <1>3, <3>1 DEF Rebuilds, Tables
  <2>4. running' \in BOOLEAN
    BY <1>2, <1>4
  <2> QED
    BY <2>1, <2>2, <2>3, <2>4 DEF ProjectionTypeOK, Tables, Rebuilds
<1>6. ReadModels'
  <2>1. \A T : \A p \in 0..Len(log) : Agrees(T, p) => Agrees(T, p)'
    BY AgreesStays
  <2>2. PICK t, p, q, r : t = table /\ p = checkpoint /\ q = cursor /\ r = rebuild
    OBVIOUS
  <2>3. Agrees(t, p)'
    BY <1>3, <2>1, <2>2 DEF Projected, ReadModels
  <2>4. running => Agrees(t, q)' /\ p <= q /\ ~r.open
    BY <1>3, <2>1, <2>2 DEF Projected, ReadModels
  <2>5. r.open => Agrees(r.rows, r.pos)'
    BY <1>3, <2>1, <2>2 DEF Projected, ReadModels
  <2>6. ReadModels'
        <=> /\ Agrees(t, p)'
            /\ running => Agrees(t, q)' /\ p <= q /\ ~r.open
            /\ r.open => Agrees(r.rows, r.pos)'
    BY <1>1, <1>2, <2>2
       DEF ReadModels, Agrees, Shows, Those, Known, StatusAt, LastOf, EndAt, TrialAt
  <2> QED
    BY <2>3, <2>4, <2>5, <2>6, Zenon
<1> QED
  BY <1>5, <1>6 DEF Projected

LEMMA ProjectionStep ==
    ASSUME Projected, ProjectionNext
    PROVE  Projected'
<1>1. /\ log \in Seq(Event) /\ Len(log) \in Nat /\ table \in Tables /\ rebuild \in Rebuilds
      /\ Numbered /\ ReadModels /\ checkpoint \in 0..Len(log) /\ cursor \in 0..Len(log)
      /\ rebuild.rows \in Tables /\ rebuild.pos \in 0..Len(log)
      /\ faultsLeft \in Nat /\ rebuildsLeft \in Nat
  BY LenProperties, TypesAre DEF Projected, Rebuilds
<1>2. running \in BOOLEAN /\ TRUE \in BOOLEAN /\ FALSE \in BOOLEAN
  BY TypesAre DEF Projected
<1>3. CASE Start
  <2>1. /\ running' = TRUE /\ cursor' = checkpoint /\ ~rebuild.open
        /\ UNCHANGED <<log, table, checkpoint, rebuild, faultsLeft, rebuildsLeft>>
    BY <1>3 DEF Start
  <2>2. Agrees(table', checkpoint') /\ Agrees(table', cursor') /\ checkpoint' <= cursor'
    BY <1>1, <2>1 DEF ReadModels
  <2>3. running' \in BOOLEAN
    BY <1>2, <2>1
  <2> QED
    BY <1>1, <2>1, <2>2, <2>3, ProjectedThen
<1>4. CASE Project
  <2> DEFINE T == Apply(table, log[cursor + 1])
  <2>1. /\ running /\ cursor < Len(log) /\ table' = T /\ cursor' = cursor + 1
        /\ UNCHANGED <<log, checkpoint, rebuild, faultsLeft, rebuildsLeft>>
        /\ cursor + 1 \in 0..Len(log)
    BY <1>1, <1>4 DEF Project
  <2>2. running' = running
    BY <1>4 DEF Project
  <2>3. /\ Agrees(table, cursor) /\ checkpoint \in 0..(cursor + 1) /\ ~rebuild.open
        /\ checkpoint <= cursor + 1
    BY <1>1, <2>1 DEF ReadModels
  <2>4. T \in Tables /\ Agrees(T, cursor + 1)
    BY <1>1, <2>1, <2>3, ApplyAgrees
  <2> HIDE DEF T
  <2>5. Agrees(T, checkpoint)
    BY <1>1, <2>1, <2>3, <2>4, AgreesBelow
  <2> QED
    BY <1>1, <1>2, <2>1, <2>2, <2>3, <2>4, <2>5, ProjectedThen
<1>5. CASE SaveCheckpoint
  <2>1. /\ running /\ checkpoint' = cursor
        /\ UNCHANGED <<log, table, cursor, rebuild, faultsLeft, rebuildsLeft>>
    BY <1>5 DEF SaveCheckpoint, projectorVars
  <2>2. running' = running
    BY <1>5 DEF SaveCheckpoint, projectorVars
  <2>3. Agrees(table', checkpoint') /\ checkpoint' <= cursor' /\ ~rebuild'.open
    BY <1>1, <2>1 DEF ReadModels
  <2> QED
    BY <1>1, <1>2, <2>1, <2>2, <2>3, ProjectedThen
<1>6. CASE Crash
  <2>1. /\ running /\ cursor' = 0 /\ faultsLeft > 0 /\ faultsLeft' = faultsLeft - 1
        /\ UNCHANGED <<log, table, checkpoint, rebuild, rebuildsLeft>>
    BY <1>6 DEF Crash
  <2>2. running' = FALSE
    BY <1>6 DEF Crash
  <2>3. Agrees(table', checkpoint') /\ ~rebuild'.open
    <3>1. running
      BY <2>1
    <3> QED
      BY <2>1, <3>1, <1>1 DEF ReadModels
  <2>4. cursor' \in 0..Len(log) /\ faultsLeft' \in Nat /\ checkpoint' \in 0..Len(log)
    BY <1>1, <2>1
  <2>5. running' \in BOOLEAN /\ ~running'
    BY <1>2, <2>2
  <2> QED
    BY <1>1, <2>1, <2>3, <2>4, <2>5, ProjectedThen
<1>7. ASSUME NEW until \in Date, RebuildBegin(until) PROVE Projected'
  <2>1. /\ rebuild' = [open |-> TRUE, rows |-> Empty, from |-> Len(log), pos |-> 0,
                       until |-> until]
        /\ rebuildsLeft > 0 /\ rebuildsLeft' = rebuildsLeft - 1
        /\ UNCHANGED <<log, table, checkpoint, cursor, faultsLeft>>
    BY <1>7 DEF RebuildBegin, projectorVars
  <2>2. ~running /\ running' = running
    BY <1>7 DEF RebuildBegin, projectorVars
  <2>3. rebuild' \in Rebuilds
    BY <1>1, <1>2, <2>1, EmptyAgrees DEF Rebuilds
  <2>4. Agrees(table', checkpoint') /\ Agrees(rebuild'.rows, rebuild'.pos)
    BY <1>1, <2>1, EmptyAgrees DEF ReadModels
  <2> QED
    BY <1>1, <1>2, <2>1, <2>2, <2>3, <2>4, ProjectedThen
<1>8. CASE RebuildEvent
  <2> DEFINE T == Apply(rebuild.rows, log[rebuild.pos + 1])
  <2>1. /\ rebuild.open /\ rebuild.pos < Len(log)
        /\ rebuild' = [rebuild EXCEPT !.pos = rebuild.pos + 1, !.rows = T]
        /\ UNCHANGED <<log, table, checkpoint, cursor, faultsLeft, rebuildsLeft>>
    BY <1>8 DEF RebuildEvent, projectorVars
  <2>2. ~running /\ running' = running
    BY <1>1, <1>8, <2>1 DEF RebuildEvent, projectorVars, ReadModels
  <2>3. T \in Tables /\ Agrees(T, rebuild.pos + 1)
    BY <1>1, <2>1, ApplyAgrees DEF ReadModels
  <2> HIDE DEF T
  <2>4. rebuild' \in Rebuilds /\ rebuild'.pos = rebuild.pos + 1 /\ rebuild'.rows = T
    <3> DEFINE r1 == [rebuild EXCEPT !.pos = rebuild.pos + 1]
    <3>1. r1 \in Rebuilds /\ r1.pos = rebuild.pos + 1
      BY <1>1, <2>1 DEF Rebuilds
    <3>2. rebuild' = [r1 EXCEPT !.rows = T]
      BY <1>1, <2>1 DEF Rebuilds
    <3> HIDE DEF r1
    <3> QED
      BY <2>3, <3>1, <3>2 DEF Rebuilds
  <2>5. Agrees(table', checkpoint') /\ Agrees(rebuild'.rows, rebuild'.pos)
    BY <1>1, <2>1, <2>3, <2>4 DEF ReadModels
  <2> QED
    BY <1>1, <1>2, <2>1, <2>2, <2>4, <2>5, ProjectedThen
<1>9. CASE RebuildEnd
  <2>1. /\ rebuild.open /\ table' = rebuild.rows /\ checkpoint' = rebuild.pos
        /\ rebuild' = Closed /\ UNCHANGED <<log, cursor, faultsLeft, rebuildsLeft>>
    BY <1>9 DEF RebuildEnd, projectorVars
  <2>2. ~running /\ running' = running
    BY <1>1, <1>9, <2>1 DEF RebuildEnd, projectorVars, ReadModels
  <2>3. Agrees(table', checkpoint')
    BY <1>1, <2>1 DEF ReadModels
  <2>4. rebuild' \in Rebuilds /\ ~rebuild'.open
    BY <1>1, <2>1, ClosedOk
  <2> QED
    BY <1>1, <1>2, <2>1, <2>2, <2>3, <2>4, ProjectedThen
<1>10. CASE RebuildFails
  <2>1. /\ rebuild.open /\ faultsLeft > 0 /\ faultsLeft' = faultsLeft - 1
        /\ rebuild' = Closed /\ UNCHANGED <<log, table, checkpoint, cursor, rebuildsLeft>>
    BY <1>10 DEF RebuildFails, projectorVars
  <2>2. ~running /\ running' = running
    BY <1>1, <1>10, <2>1 DEF RebuildFails, projectorVars, ReadModels
  <2>3. Agrees(table', checkpoint')
    BY <1>1, <2>1 DEF ReadModels
  <2>4. rebuild' \in Rebuilds /\ ~rebuild'.open
    BY <1>1, <2>1, ClosedOk
  <2> QED
    BY <1>1, <1>2, <2>1, <2>2, <2>3, <2>4, ProjectedThen
<1> QED
  BY <1>3, <1>4, <1>5, <1>6, <1>7, <1>8, <1>9, <1>10 DEF ProjectionNext, RebuildStep

\* At the end of the log every column is final.
LEMMA CaughtUp == Projected => CaughtUpMeansExact
<1> SUFFICES ASSUME Projected, running, cursor = Len(log)
             PROVE  table = ReadModelAt(Len(log))
  BY DEF CaughtUpMeansExact
<1> DEFINE n == Len(log)
<1>1. log \in Seq(Event) /\ n \in Nat /\ table \in Tables /\ Agrees(table, n)
  BY LenProperties, TypesAre DEF Projected, ReadModels
<1>2. ASSUME NEW c \in Contract PROVE table[c] = ReadModelAt(n)[c]
  <2>1. CASE table[c] = NoRow
    <3>1. Those(c, n, Types) = {}
      BY <1>1, <2>1 DEF Agrees
    <3> QED
      BY <2>1, <3>1 DEF ReadModelAt
  <2>2. CASE table[c] # NoRow
    <3>1. Those(c, n, Types) # {} /\ Shows(table[c], c, n) /\ table[c] \in Row
      BY <1>1, <2>2 DEF Agrees, Tables
    <3>2. \A X : Final(Those(c, n, X), n) /\ Final(Known(Those(c, n, X)), n)
      BY <1>1 DEF Final, Those, Known
    <3>3. /\ table[c].status = StatusAt(c, n) /\ table[c].end = EndAt(c, n)
          /\ table[c].trial = TrialAt(c, n)
          /\ table[c].version = Cardinality(Those(c, n, Types))
      BY <3>1, <3>2 DEF Shows
    <3>4. table[c] = [status |-> StatusAt(c, n), end |-> EndAt(c, n), trial |-> TrialAt(c, n),
                      version |-> Cardinality(Those(c, n, Types))]
      BY <3>1, <3>3 DEF Row
    <3> QED
      BY <3>1, <3>4 DEF ReadModelAt
  <2> QED
    BY <2>1, <2>2
<1> HIDE DEF n
<1> QED
  BY <1>1, <1>2 DEF Tables, ReadModelAt, n
-----------------------------------------------------------------------------
(***************************************************************************)
(* Every step                                                              *)
(***************************************************************************)
LEMMA LogStays ==
    ASSUME log \in Seq(Event), Numbered, log' = log
    PROVE  Grown /\ Numbered'
<1>1. Grown
  BY LenProperties DEF Grown
<1> QED
  BY <1>1 DEF Numbered, InOrder, Of

LEMMA NextGrows ==
    ASSUME log \in Seq(Event), Numbered, [Next]_vars
    PROVE  Grown /\ Numbered'
<1>1. CASE log' = log
  BY <1>1, LogStays
<1>2. CASE log' # log
  <2>1. CASE ProjectionNext
    BY <1>2, <2>1
       DEF ProjectionNext, Start, Project, SaveCheckpoint, Crash, RebuildBegin, RebuildStep,
           RebuildEvent, RebuildEnd, RebuildFails
  <2>2. ASSUME NEW c \in Contract, Save(c) PROVE Grown /\ Numbered'
    BY <2>2, SaveGrows
  <2>3. CASE Renew
    BY <1>2, <2>3, RenewGrows
  <2>4. ASSUME NEW c \in Contract, NEW created \in AsOfDates \union {0},
               SaveSnapshot(c, created)
        PROVE  log' = log
    BY <2>4 DEF SaveSnapshot
  <2>5. FindDueForRenewal \/ Rehydrate \/ UNCHANGED vars => log' = log
    BY DEF FindDueForRenewal, Rehydrate, vars
  <2> QED
    BY <1>2, <2>1, <2>2, <2>3, <2>4, <2>5 DEF Next
<1> QED
  BY <1>1, <1>2

LEMMA ProjectedNext ==
    ASSUME Projected, [Next]_vars
    PROVE  Projected'
<1>1. Grown /\ Numbered'
  BY NextGrows DEF Projected, ProjectionTypeOK
<1>2. CASE ProjectionNext
  BY <1>2, ProjectionStep
<1>3. CASE ~ProjectionNext
  <2>1. ASSUME NEW c \in Contract, Save(c) PROVE UNCHANGED projectionVars
    BY <2>1 DEF Save
  <2>2. ASSUME NEW c \in Contract, NEW created \in AsOfDates \union {0},
               SaveSnapshot(c, created)
        PROVE  UNCHANGED projectionVars
    BY <2>2 DEF SaveSnapshot
  <2>3. FindDueForRenewal \/ Rehydrate \/ Renew \/ UNCHANGED vars => UNCHANGED projectionVars
    BY DEF FindDueForRenewal, Rehydrate, Renew, vars
  <2>4. UNCHANGED projectionVars
    BY <1>3, <2>1, <2>2, <2>3 DEF Next
  <2> QED
    BY <1>1, <2>4, GrowProjected
<1> QED
  BY <1>2, <1>3

\* A projection that has caught up shows every contract as its events leave it.
THEOREM CaughtUpIsExact == Spec => []CaughtUpMeansExact
<1>1. Init => Projected
  BY ProjectionInits DEF Init
<1>2. Projected /\ [Next]_vars => Projected'
  BY ProjectedNext
<1> QED
  BY <1>1, <1>2, CaughtUp, PTL DEF Spec
-----------------------------------------------------------------------------
(***************************************************************************)
(* Types                                                                   *)
(***************************************************************************)
Snapped ==
    \A s \in snapshots : /\ s.id \in Contract /\ s.created \in Nat
                         /\ s.version \in 1..Cardinality(Stream(s.id, Len(log)))

Batched == due \in Seq([id : Contract, version : Nat])

LEMMA ImageFinite ==
    ASSUME NEW I, IsFiniteSet(I), NEW f
    PROVE  IsFiniteSet({f[i] : i \in I})
<1> DEFINE g == [i \in I |-> f[i]]
<1>1. g \in Surjection(I, {f[i] : i \in I})
  BY DEF Surjection
<1> HIDE DEF g
<1> QED
  BY <1>1, FS_Surjection

LEMMA StreamGrows ==
    ASSUME Grown, Numbered, NEW c
    PROVE  /\ Cardinality(Stream(c, Len(log))) \in Nat
           /\ Cardinality(Stream(c, Len(log)))' \in Nat
           /\ Cardinality(Stream(c, Len(log))) <= Cardinality(Stream(c, Len(log)))'
<1>1. Len(log) \in Nat /\ Len(log)' \in Nat /\ Len(log) <= Len(log)'
  BY LenProperties DEF Grown
<1>2. Stream(c, Len(log)) \subseteq Stream(c, Len(log))'
  BY <1>1 DEF Grown, Stream
<1>3. IsFiniteSet(Stream(c, Len(log))')
  <2> DEFINE I == {j \in 1..Len(log') : log'[j].id = c}
  <2>1. IsFiniteSet(I)
    <3>1. I \in SUBSET (1..Len(log')) /\ IsFiniteSet(1..Len(log'))
      BY <1>1, FS_Interval
    <3> QED
      BY <3>1, FS_Subset
  <2>2. Stream(c, Len(log))' = {log'[i] : i \in I}
    BY DEF Stream
  <2> HIDE DEF I
  <2>3. IsFiniteSet({log'[i] : i \in I})
    BY <2>1, ImageFinite
  <2> QED
    BY <2>2, <2>3
<1>4. Cardinality(Stream(c, Len(log))) \in Nat
  <2>1. Len(log) \in 0..Len(log)
    BY <1>1
  <2> QED
    BY <2>1, StreamOf DEF Grown
<1> QED
  BY <1>2, <1>3, <1>4, FS_Subset, FS_CardinalityType

LEMMA SnappedNext ==
    ASSUME log \in Seq(Event), Numbered, Snapped, [Next]_vars
    PROVE  Snapped'
<1>1. Grown
  BY NextGrows
<1>2. CASE snapshots' = snapshots
  <2> SUFFICES ASSUME NEW s \in snapshots
               PROVE  /\ s.id \in Contract /\ s.created \in Nat
                      /\ s.version \in 1..Cardinality(Stream(s.id, Len(log)))'
    BY <1>2 DEF Snapped
  <2> DEFINE a == Cardinality(Stream(s.id, Len(log)))
             b == Cardinality(Stream(s.id, Len(log)))'
  <2>1. a \in Nat /\ b \in Nat /\ a <= b
    BY <1>1, StreamGrows
  <2>2. s.id \in Contract /\ s.created \in Nat /\ s.version \in 1..a
    BY DEF Snapped
  <2> HIDE DEF a, b
  <2>3. s.version \in 1..b
    BY <2>1, <2>2
  <2> QED
    BY <2>2, <2>3 DEF b
<1>3. ASSUME NEW c \in Contract, NEW created \in AsOfDates \union {0},
             SaveSnapshot(c, created)
      PROVE  Snapped'
  <2> DEFINE version == Cardinality(Stream(c, Len(log)))
  <2>1. /\ log' = log /\ version > 0
        /\ \A s \in snapshots' : s \in snapshots
                \/ s = [id |-> c, version |-> version, created |-> created]
    BY <1>3 DEF SaveSnapshot
  <2>2. version \in 1..version /\ created \in Nat
    BY <1>1, <2>1, StreamGrows, StoreAssumption
  <2>3. \A d : Stream(d, Len(log))' = Stream(d, Len(log))
    BY <2>1 DEF Stream
  <2>4. ASSUME NEW s \in snapshots'
        PROVE  /\ s.id \in Contract /\ s.created \in Nat
               /\ s.version \in 1..Cardinality(Stream(s.id, Len(log)))
    BY <2>1, <2>2 DEF Snapped
  <2> QED
    BY <2>3, <2>4 DEF Snapped
<1> QED
  <2>1. \A c \in Contract : Save(c) => snapshots' = snapshots
    BY DEF Save
  <2>2. FindDueForRenewal \/ Rehydrate \/ Renew \/ UNCHANGED vars => snapshots' = snapshots
    BY DEF FindDueForRenewal, Rehydrate, Renew, vars, storeVars
  <2>3. UNCHANGED storeVars => snapshots' = snapshots
    BY DEF storeVars
  <2> QED
    BY <1>2, <1>3, <2>1, <2>2, <2>3 DEF Next

\* Only contracts with events have a row, so the rows due are finitely many.
LEMMA DueRowsFinite ==
    ASSUME Projected
    PROVE  DueRows \subseteq Contract /\ IsFiniteSet(DueRows) /\ Cardinality(DueRows) \in Nat
<1> DEFINE J == 1..Len(log)
           D == {log[i].id : i \in J}
<1>1. Len(log) \in Nat /\ Agrees(table, checkpoint)
  BY LenProperties DEF Projected, ProjectionTypeOK, ReadModels
<1>2. \A c \in Contract : table[c] # NoRow => c \in D
  BY <1>1 DEF Agrees, Those
<1>3. DueRows \subseteq D
  BY <1>2 DEF DueRows, IsDue
<1>4. IsFiniteSet(J)
  BY <1>1, FS_Interval
<1> HIDE DEF J
<1>5. IsFiniteSet(D)
  <2> DEFINE f == [i \in J |-> log[i].id]
  <2>1. D = {f[i] : i \in J}
    OBVIOUS
  <2> HIDE DEF f
  <2> QED
    BY <1>4, <2>1, ImageFinite
<1> QED
  BY <1>3, <1>5, FS_Subset, FS_CardinalityType DEF DueRows

\* What is loaded of a contract is a part of its stream.
LEMMA LoadedVersion ==
    ASSUME log \in Seq(Event), Numbered, NEW c
    PROVE  MaxVersion(FindByID(c)) \in Nat
<1> DEFINE n == Len(log)
           S == FindByID(c)
           I == {i \in Of(log, c, n) : log[i] \in S}
<1>1. n \in Nat /\ n \in 0..n
  BY LenProperties
<1>2. S \subseteq {log[i] : i \in Of(log, c, n)}
  <2>1. Stream(c, n) = {log[i] : i \in Of(log, c, n)}
    BY <1>1, StreamOf
  <2>2. CASE LoadSnapshot(c) = {}
    BY <2>1, <2>2 DEF FindByID
  <2>3. CASE LoadSnapshot(c) # {}
    <3> DEFINE snap == CHOOSE s \in LoadSnapshot(c) : TRUE
    <3>1. snap \in LoadSnapshot(c)
      BY <2>3
    <3>2. S = StateOf(snap) \union After(Stream(c, n), snap.version)
      BY <2>3 DEF FindByID
    <3>3. snap.id = c
      BY <3>1 DEF LoadSnapshot
    <3> QED
      BY <2>1, <3>2, <3>3 DEF StateOf, After
  <2> QED
    BY <2>2, <2>3
<1> HIDE DEF S
<1>3. S = {log[i] : i \in I}
  BY <1>2
<1>4. CASE S = {}
  BY <1>4 DEF MaxVersion, S
<1>5. CASE S # {}
  <2>1. I \in SUBSET Of(log, c, n) /\ I # {}
    BY <1>3, <1>5
  <2>2. PICK k \in I : Last({log[i] : i \in I}) = log[k]
    BY <1>1, <2>1, LastIs
  <2>3. log[k].version \in Nat
    BY <1>1, <2>1, OfIn, EventFields
  <2> QED
    BY <1>3, <1>5, <2>2, <2>3 DEF MaxVersion, S
<1> QED
  BY <1>4, <1>5

LEMMA BatchedNext ==
    ASSUME Projected, Batched, [Next]_vars
    PROVE  Batched'
<1> DEFINE R == [id : Contract, version : Nat]
<1>1. log \in Seq(Event) /\ Numbered
  BY DEF Projected, ProjectionTypeOK
<1>2. CASE due' = due
  BY <1>2 DEF Batched
<1>3. CASE FindDueForRenewal
  <2>1. PICK s \in DueLists :
           LET n == IF Limit > 0 /\ Len(s) > Limit THEN Limit ELSE Len(s)
           IN  due' = [i \in 1..n |-> [id |-> s[i], version |-> 0]]
    BY <1>3 DEF FindDueForRenewal
  <2> DEFINE n == IF Limit > 0 /\ Len(s) > Limit THEN Limit ELSE Len(s)
  <2>2. /\ DueRows \subseteq Contract /\ Cardinality(DueRows) \in Nat
        /\ s \in [1..Cardinality(DueRows) -> DueRows]
    BY <2>1, DueRowsFinite DEF DueLists
  <2>3. Len(s) \in Nat /\ \A i \in 1..Len(s) : s[i] \in Contract
    <3>1. s \in Seq(DueRows)
      BY <2>2
    <3> QED
      BY <2>2, <3>1, LenProperties
  <2>4. n \in Nat /\ n <= Len(s)
    BY <2>3, StoreAssumption
  <2> HIDE DEF n
  <2>5. \A i \in 1..n : [id |-> s[i], version |-> 0] \in R
    BY <2>3, <2>4
  <2> DEFINE f == [i \in 1..n |-> [id |-> s[i], version |-> 0]]
  <2>6. f \in [1..n -> R]
    BY <2>5
  <2> HIDE DEF f, R
  <2>7. f \in Seq(R)
    BY <2>4, <2>6
  <2> QED
    BY <2>1, <2>7 DEF Batched, f, n, R
<1>4. CASE Rehydrate
  <2>1. PICK i \in DOMAIN due :
           due' = [due EXCEPT ![i].version = MaxVersion(FindByID(due[i].id))]
    BY <1>4 DEF Rehydrate
  <2>2. MaxVersion(FindByID(due[i].id)) \in Nat
    BY <1>1, LoadedVersion
  <2> DEFINE r == [due[i] EXCEPT !.version = MaxVersion(FindByID(due[i].id))]
  <2>3. Len(due) \in Nat /\ due \in [1..Len(due) -> R] /\ i \in 1..Len(due)
    BY LenProperties DEF Batched
  <2>4. r \in R
    BY <2>2, <2>3
  <2>5. due \in Seq(R) /\ due' = [due EXCEPT ![i] = r]
    BY <2>1 DEF Batched
  <2> HIDE DEF r, R
  <2>6. due' \in Seq(R)
    BY <2>3, <2>4, <2>5, ExceptSeq
  <2> QED
    BY <2>6 DEF Batched, R
<1>5. CASE Renew
  <2>1. due \in Seq(R) /\ due # <<>> /\ due' = Tail(due)
    BY <1>5 DEF Renew, Batched
  <2> HIDE DEF R
  <2>2. due' \in Seq(R)
    BY <2>1, HeadTailProperties
  <2> QED
    BY <2>2 DEF Batched, R
<1> QED
  <2>1. \A c \in Contract : Save(c) => due' = due
    BY DEF Save
  <2>2. \A c \in Contract, created \in AsOfDates \union {0} :
            SaveSnapshot(c, created) => due' = due
    BY DEF SaveSnapshot
  <2>3. UNCHANGED storeVars \/ UNCHANGED vars => due' = due
    BY DEF storeVars, vars
  <2> QED
    BY <1>2, <1>3, <1>4, <1>5, <2>1, <2>2, <2>3 DEF Next

LEMMA SavesLeftNext ==
    ASSUME savesLeft \in Nat, [Next]_vars
    PROVE  savesLeft' \in Nat
<1>1. ASSUME NEW c \in Contract, Save(c) PROVE savesLeft' \in Nat
  BY <1>1 DEF Save
<1>2. \A c \in Contract, created \in AsOfDates \union {0} :
          SaveSnapshot(c, created) => savesLeft' = savesLeft
  BY DEF SaveSnapshot
<1>3. FindDueForRenewal \/ Rehydrate \/ Renew \/ UNCHANGED storeVars \/ UNCHANGED vars
        => savesLeft' = savesLeft
  BY DEF FindDueForRenewal, Rehydrate, Renew, storeVars, vars
<1> QED
  BY <1>1, <1>2, <1>3 DEF Next

\* The inductive invariant.
IInv == Projected /\ Snapped /\ Batched /\ savesLeft \in Nat

LEMMA Inits == Init => IInv
<1> SUFFICES ASSUME Init PROVE IInv
  OBVIOUS
<1>1. Projected
  BY ProjectionInits DEF Init
<1>2. Snapped
  BY DEF Init, Snapped
<1>3. Batched
  BY EmptySeq DEF Init, Batched
<1> QED
  BY <1>1, <1>2, <1>3, StoreAssumption DEF Init, IInv

LEMMA Inductive == IInv /\ [Next]_vars => IInv'
<1> SUFFICES ASSUME IInv, [Next]_vars PROVE IInv'
  OBVIOUS
<1>1. log \in Seq(Event) /\ Numbered
  BY DEF IInv, Projected, ProjectionTypeOK
<1>2. Projected'
  BY ProjectedNext DEF IInv
<1>3. Snapped'
  BY <1>1, SnappedNext DEF IInv
<1>4. Batched' /\ savesLeft' \in Nat
  BY BatchedNext, SavesLeftNext DEF IInv
<1> QED
  BY <1>2, <1>3, <1>4 DEF IInv

\* The read model, the snapshots and the batch hold values of their kind, and
\* no snapshot runs ahead of its stream.
THEOREM TypeCorrect == Spec => []TypeOK
<1>1. IInv => TypeOK
  BY DEF IInv, Projected, Snapped, Batched, TypeOK
<1> QED
  BY <1>1, Inits, Inductive, PTL DEF Spec
-----------------------------------------------------------------------------
(***************************************************************************)
(* As-of queries                                                           *)
(***************************************************************************)
\* The events a snapshot stands for, when its version had occurred by asOf,
\* are among those that had.
LEMMA UsableIsPast ==
    ASSUME log \in Seq(Event), Numbered, ~SkewedClocks,
           NEW c, NEW asOf, asOf \in Nat, NEW n \in 0..Len(log),
           NEW snap, snap.id = c, snap.version \in Nat \ {0},
           Usable(snap, LoadUntil(c, asOf, n))
    PROVE  StateOf(snap) \subseteq LoadUntil(c, asOf, n)
<1> DEFINE I == {i \in Of(log, c, n) : log[i].at <= asOf}
           m == Len(log)
<1>1. LoadUntil(c, asOf, n) = {log[i] : i \in I}
  BY DEF LoadUntil, Of
<1>2. m \in Nat /\ m \in 0..m /\ n \in Nat /\ n <= m
  BY LenProperties
<1>3. I # {} /\ I \in SUBSET Of(log, c, n)
  BY <1>1 DEF Usable, MaxVersion
<1>4. PICK k \in I : Last({log[i] : i \in I}) = log[k]
  BY <1>3, LastIs
<1>5. snap.version <= log[k].version
  BY <1>1, <1>3, <1>4 DEF Usable, MaxVersion
<1>6. k \in 1..n /\ k \in Of(log, c, m) /\ log[k].at <= asOf /\ log[k].version \in Nat
  BY <1>2, <1>3, OfIn, EventFields DEF Of
<1>7. ASSUME NEW i \in Of(log, c, m), log[i].version <= snap.version PROVE i \in I
  <2>1. i \in 1..m /\ log[i].version \in Nat /\ log[i].at \in Nat /\ log[k].at \in Nat
    BY <1>2, <1>6, OfIn, EventFields
  <2>2. ~ (k < i)
    BY <1>2, <1>5, <1>6, <1>7, <2>1, VersionsRise
  <2>3. i \in 1..k /\ i \in Of(log, c, n)
    BY <1>2, <1>6, <2>1, <2>2 DEF Of
  <2>4. log[i].at <= log[k].at
    BY <1>2, <1>6, <2>3 DEF Numbered, InOrder, Of
  <2> QED
    BY <1>6, <2>1, <2>3, <2>4
<1> HIDE DEF I
<1>8. Stream(c, m) = {log[i] : i \in Of(log, c, m)}
  BY <1>2, StreamOf
<1> QED
  BY <1>1, <1>7, <1>8 DEF StateOf

LEMMA PastThen ==
    ASSUME ~SkewedClocks, IInv
    PROVE  AsOfIsPast
<1> SUFFICES ASSUME NEW c \in Contract, NEW asOf \in AsOfDates, NEW n \in 0..Len(log)
             PROVE  FindByIDAsOf(c, asOf, n) = LoadUntil(c, asOf, n)
  BY DEF AsOfIsPast
<1> DEFINE events == LoadUntil(c, asOf, n)
           chosen == {s \in LoadSnapshotBefore(c, asOf) : Usable(s, events)}
           snap == CHOOSE s \in chosen : TRUE
<1>1. log \in Seq(Event) /\ Numbered /\ Snapped /\ asOf \in Nat /\ Len(log) \in Nat
  BY StoreAssumption, LenProperties DEF IInv, Projected, ProjectionTypeOK
<1>2. CASE chosen = {}
  BY <1>2 DEF FindByIDAsOf
<1>3. CASE chosen # {}
  <2>1. snap \in chosen
    BY <1>3
  <2>2. FindByIDAsOf(c, asOf, n) = StateOf(snap) \union After(events, snap.version)
    BY <1>3 DEF FindByIDAsOf
  <2>3. snap \in snapshots /\ snap.id = c /\ Usable(snap, events)
    BY <2>1 DEF LoadSnapshotBefore
  <2> HIDE DEF snap
  <2>4. snap.version \in Nat \ {0}
    BY <1>1, <2>3, StreamGrows, LogStays DEF Snapped
  <2>5. StateOf(snap) \subseteq events
    BY <1>1, <2>3, <2>4, UsableIsPast
  <2>6. \A e \in events : e \in Stream(c, Len(log)) /\ e.version \in Nat
    BY <1>1, LogEvents, EventFields DEF LoadUntil, Stream
  <2>7. \A e \in events : e.version <= snap.version \/ e.version > snap.version
    BY <2>4, <2>6
  <2>8. events \subseteq StateOf(snap) \union After(events, snap.version)
    BY <2>3, <2>6, <2>7 DEF StateOf, After
  <2> QED
    BY <2>2, <2>5, <2>8 DEF After
<1> QED
  BY <1>2, <1>3

\* Where clocks do not go back, FindByIDAsOf answers with the events that had
\* occurred by asOf, whatever snapshots were saved and when.
THEOREM AsOf ==
    ASSUME ~SkewedClocks
    PROVE  Spec => []AsOfIsPast
<1>1. IInv => AsOfIsPast
  BY PastThen
<1> QED
  BY <1>1, Inits, Inductive, PTL DEF Spec
-----------------------------------------------------------------------------
(***************************************************************************)
(* The events table                                                        *)
(***************************************************************************)
\* The log as the rows of the events table, which EventLog speaks of.
LogRow == [pos : Nat \ {0}, event : Event]
RowAt(i) == [pos |-> i, event |-> log[i]]
LogRows == {RowAt(i) : i \in 1..Len(log)}

Table == INSTANCE EventLog WITH Row <- LogRow, events <- LogRows, consumed <- {}

\* Events appended to the log are rows published above the ones before.
LEMMA GrowthPublishes ==
    ASSUME Grown
    PROVE  LogRows' = LogRows \/ Table!Publish(LogRows' \ LogRows)
<1> DEFINE n == Len(log)
           m == Len(log')
           f == [i \in 1..m |-> RowAt(i)']
           R == {f[i] : i \in (n + 1)..m}
<1>1. n \in Nat /\ m \in Nat /\ n <= m /\ log' \in Seq(Event)
  BY LenProperties DEF Grown
<1>2. \A i \in 1..n : RowAt(i)' = RowAt(i)
  BY <1>1 DEF Grown, RowAt
<1>3. \A i \in 1..m : f[i] = RowAt(i)' /\ f[i] \in LogRow /\ f[i].pos = i
  <2> SUFFICES ASSUME NEW i \in 1..m
               PROVE  f[i] = RowAt(i)' /\ f[i] \in LogRow /\ f[i].pos = i
    OBVIOUS
  <2>1. log'[i] \in Event /\ i \in Nat \ {0}
    BY <1>1, ElementOfSeq
  <2>2. f[i] = [pos |-> i, event |-> log'[i]]
    BY DEF RowAt
  <2> QED
    BY <2>1, <2>2 DEF RowAt, LogRow
<1>4. \A s \in LogRows : s.pos \in 1..n
  BY DEF LogRows, RowAt
<1>5. LogRows' = {f[i] : i \in 1..m}
  BY <1>3 DEF LogRows
<1> HIDE DEF f
<1>6. LogRows = {f[i] : i \in 1..n}
  <2>1. \A i \in 1..n : i \in 1..m
    BY <1>1
  <2>2. \A i \in 1..n : f[i] = RowAt(i)
    BY <1>2, <1>3, <2>1
  <2> QED
    BY <2>2, Zenon DEF LogRows
<1>7. LogRows' = LogRows \union R
  BY <1>1, <1>5, <1>6
<1>8. Table!Above(R, LogRows)
  BY <1>1, <1>3, <1>4 DEF Table!Above
<1>9. LogRows' \ LogRows = R
  BY <1>1, <1>3, <1>4, <1>7
<1>10. R \subseteq LogRow /\ Table!Distinct(R)
  BY <1>1, <1>3 DEF Table!Distinct
<1>11. Table!IsFiniteSet(R)
  <2>1. IsFiniteSet((n + 1)..m)
    BY <1>1, FS_Interval
  <2>2. IsFiniteSet(R)
    BY <2>1, ImageFinite
  <2> QED
    BY <2>2 DEF Table!IsFiniteSet, IsFiniteSet
<1>12. CASE R = {}
  BY <1>7, <1>12
<1>13. CASE R # {}
  BY <1>7, <1>8, <1>9, <1>10, <1>11, <1>13 DEF Table!Publish
<1> QED
  BY <1>12, <1>13

\* Save and the renewals are to the events table what the Append of
\* EventAppend is: they publish above what is visible and change nothing that
\* is, and every stream begins with its creation and is numbered from 1.
THEOREM SavesPublish == Spec => Table!LogSpec /\ []Numbered
<1>1. Init => Table!LogInit
  BY DEF Init, ProjectionInit, Table!LogInit, LogRows
<1>2. IInv /\ [Next]_vars => [Table!LogNext]_(Table!logVars)
  <2> SUFFICES ASSUME IInv, [Next]_vars PROVE [Table!LogNext]_(Table!logVars)
    OBVIOUS
  <2>1. Grown
    BY NextGrows DEF IInv, Projected, ProjectionTypeOK
  <2> QED
    BY <2>1, GrowthPublishes DEF Table!LogNext, Table!logVars
<1>3. IInv => Numbered
  BY DEF IInv, Projected
<1> QED
  BY <1>1, <1>2, <1>3, Inits, Inductive, PTL DEF Spec, Table!LogSpec
=============================================================================
