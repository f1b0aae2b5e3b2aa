------------------------ MODULE BalanceExpiryProofs ------------------------
(***************************************************************************)
(* Theorems about BalanceExpiry, for any entries, callers, amounts and     *)
(* faults: its types, and that no credit is spent twice.                   *)
(*                                                                         *)
(* The argument: what a caller takes is counted from the amount its entity *)
(* was loaded with.  That amount is the row's as long as the row has the   *)
(* loaded version (Grounded), and a save always raises the version above   *)
(* every one that anybody has loaded; so of two callers that loaded one    *)
(* version only the first to save passes the guard, and a save that is     *)
(* repeated after a lost answer does not pass it either.                   *)
(***************************************************************************)
EXTENDS BalanceExpiry, TLAPS

\* x was loaded from its row as it is, or as it was at an earlier version.
Grounded(x) ==
    /\ x.version > 0 /\ x.loaded <= x.version /\ x.remaining <= x.was
    /\ x.loaded <= row[x.id].version
    /\ x.loaded = row[x.id].version /\ x.loaded > 0 => x.was = row[x.id].remaining

Hands == \A p \in Caller : entity[p].id # 0 => Grounded(entity[p])

BatchHands == \A x \in todo : Grounded(x)

\* NoCreditTwice, and nothing is taken from an entry that is not stored.
Books ==
    \A e \in Entry : IF row[e].version = 0 THEN taken[e] = 0
                     ELSE taken[e] + row[e].remaining = granted[e]

IInv == TypeOK /\ Hands /\ BatchHands /\ Books
-----------------------------------------------------------------------------
(***************************************************************************)
(* Entities                                                                *)
(***************************************************************************)
LEMMA HeldEntity ==
    ASSUME TypeOK, NEW p \in Caller, entity[p].id # 0
    PROVE  entity[p] \in Entity
BY DEF TypeOK, NoEntity

LEMMA EntityFields ==
    ASSUME NEW x \in Entity
    PROVE  /\ x.id \in Entry /\ x.version \in Nat /\ x.loaded \in Nat
           /\ x.remaining \in Amount /\ x.was \in Amount /\ x.expires \in Time
           /\ x.id \in Nat /\ x.id # 0
BY BalanceAssumption DEF Entity

LEMMA Amounts ==
    ASSUME NEW a \in Amount
    PROVE  a \in Nat /\ a <= MaxAmount
BY BalanceAssumption DEF Amount

\* A mutation of an entity.
Mutation(x, rest, version) == [x EXCEPT !.remaining = rest, !.version = version]

LEMMA Mutated ==
    ASSUME NEW x \in Entity, NEW rest \in Amount, NEW version \in Nat
    PROVE  LET y == Mutation(x, rest, version)
           IN  /\ y \in Entity
               /\ y.id = x.id /\ y.version = version /\ y.loaded = x.loaded
               /\ y.remaining = rest /\ y.was = x.was /\ y.expires = x.expires
BY DEF Entity, Mutation

\* An entity saved is one that was loaded as it is now.
LEMMA SetVersionFields ==
    ASSUME NEW x \in Entity
    PROVE  /\ SetVersion(x) \in Entity
           /\ SetVersion(x).id = x.id /\ SetVersion(x).version = x.version
           /\ SetVersion(x).loaded = x.version /\ SetVersion(x).was = x.remaining
           /\ SetVersion(x).remaining = x.remaining /\ SetVersion(x).expires = x.expires
BY DEF Entity, SetVersion

\* An entity of a row is grounded in it.
LEMMA LoadedGrounded ==
    ASSUME TypeOK, NEW e \in Entry, row[e].version > 0
    PROVE  /\ Loaded(e) \in Entity /\ Grounded(Loaded(e))
<1>1. row[e] \in Row
  BY DEF TypeOK
<1>2. row[e].version \in Nat /\ row[e].remaining \in Amount /\ row[e].expires \in Time
  BY <1>1 DEF Row
<1>3. Loaded(e) \in Entity
  BY <1>2 DEF Loaded, Entity
<1> QED
  BY <1>2, <1>3, Amounts DEF Loaded, Grounded

\* What entities say stays true when the row, and nothing else, does.
LEMMA GroundedStays ==
    ASSUME NEW x, Grounded(x), row' = row
    PROVE  Grounded(x)'
BY DEF Grounded

\* A guarded write keeps the books, leaves every entity grounded, and so does
\* telling its own entity.
LEMMA WriteInv ==
    ASSUME IInv, NEW x \in Entity, Grounded(x), x.version # x.loaded, GuardPasses(x), Write(x)
    PROVE  /\ row' \in [Entry -> Row]
           /\ granted' \in [Entry -> Amount] /\ taken' \in [Entry -> Amount]
           /\ Books'
           /\ \A y \in Entity : Grounded(y) => Grounded(y)'
           /\ Grounded(SetVersion(x))'
<1> DEFINE i == x.id
           new == [version |-> x.version, remaining |-> x.remaining, expires |-> x.expires]
<1>1. /\ i \in Entry /\ x.version \in Nat /\ x.loaded \in Nat /\ x.expires \in Time
      /\ x.remaining \in Amount /\ x.was \in Amount
      /\ x.remaining \in Nat /\ x.was \in Nat /\ x.remaining <= x.was
      /\ x.was <= MaxAmount /\ MaxAmount \in Nat
  BY EntityFields, Amounts, BalanceAssumption DEF Grounded
<1>2. /\ row[i].version = x.loaded /\ x.loaded < x.version
      /\ x.loaded > 0 => x.was = row[i].remaining
  BY <1>1 DEF Grounded, GuardPasses
<1>3. new \in Row
  BY <1>1 DEF Row
<1>4. /\ row' \in [Entry -> Row]
      /\ row'[i] = new /\ \A e \in Entry \ {i} : row'[e] = row[e]
  BY <1>1, <1>3 DEF IInv, TypeOK, Write
<1>5. /\ granted'[i] = IF x.loaded = 0 THEN x.was ELSE granted[i]
      /\ taken'[i] = taken[i] + (x.was - x.remaining)
      /\ \A e \in Entry \ {i} : granted'[e] = granted[e] /\ taken'[e] = taken[e]
  BY <1>1 DEF IInv, TypeOK, Write
<1>6. /\ granted[i] \in Amount /\ granted[i] \in Nat /\ granted[i] <= MaxAmount
      /\ taken[i] \in Nat
  BY <1>1, Amounts DEF IInv, TypeOK
<1>7. granted'[i] \in Amount /\ granted'[i] \in Nat /\ granted'[i] <= MaxAmount
  BY <1>1, <1>5, <1>6
<1>8. taken'[i] + x.remaining = granted'[i]
  <2>1. CASE x.loaded = 0
    BY <2>1, <1>1, <1>2, <1>5, <1>6 DEF IInv, Books
  <2>2. CASE x.loaded # 0
    <3>1. taken[i] + x.was = granted[i]
      BY <2>2, <1>1, <1>2 DEF IInv, Books
    <3> QED
      BY <2>2, <3>1, <1>1, <1>5, <1>6
  <2> QED
    BY <2>1, <2>2
<1>9. taken'[i] \in Amount
  <2>1. taken'[i] \in Nat
    BY <1>1, <1>5, <1>6
  <2> QED
    BY <2>1, <1>1, <1>7, <1>8 DEF Amount
<1>10. granted' \in [Entry -> Amount] /\ taken' \in [Entry -> Amount]
  BY <1>1, <1>5, <1>7, <1>9 DEF IInv, TypeOK, Write
<1>11. Books'
  <2> SUFFICES ASSUME NEW e \in Entry
      PROVE  IF row'[e].version = 0 THEN taken'[e] = 0
             ELSE taken'[e] + row'[e].remaining = granted'[e]
    BY DEF Books
  <2>1. CASE e = i
    BY <2>1, <1>1, <1>2, <1>4, <1>8
  <2>2. CASE e # i
    BY <2>2, <1>4, <1>5 DEF IInv, Books
  <2> QED
    BY <2>1, <2>2
<1>12. ASSUME NEW y \in Entity, Grounded(y)
       PROVE  Grounded(y)'
  <2>1. CASE y.id = i
    BY <2>1, <1>12, <1>1, <1>2, <1>4, EntityFields DEF Grounded
  <2>2. CASE y.id # i
    BY <2>2, <1>12, <1>4, EntityFields DEF Grounded
  <2> QED
    BY <2>1, <2>2
<1>13. Grounded(SetVersion(x))'
  BY <1>1, <1>2, <1>4, SetVersionFields DEF Grounded
<1> QED
  BY <1>4, <1>10, <1>11, <1>12, <1>13
-----------------------------------------------------------------------------
LEMMA InitInv == Init => IInv
<1> SUFFICES ASSUME Init PROVE IInv
  OBVIOUS
<1>1. TypeOK
  BY BalanceAssumption DEF Init, TypeOK, Row, NoRow, Amount, Time
<1>2. Hands /\ BatchHands /\ Books
  BY DEF Init, Hands, BatchHands, Books, NoEntity, NoRow
<1> QED
  BY <1>1, <1>2 DEF IInv

\* A step that changes at most the entity of p, and to a grounded one.
LEMMA HoldInv ==
    ASSUME IInv, NEW p \in Caller, NEW x \in Entity \union {NoEntity},
           entity' = [entity EXCEPT ![p] = x], x.id # 0 => Grounded(x),
           todo' \subseteq todo, UNCHANGED <<row, clock, granted, taken>>, faultsLeft' \in Nat
    PROVE  IInv'
<1>1. TypeOK'
  BY DEF IInv, TypeOK
<1>2. Hands'
  <2>1. \A q \in Caller : entity'[q] = IF q = p THEN x ELSE entity[q]
    BY DEF IInv, TypeOK
  <2>2. ASSUME NEW q \in Caller, entity'[q].id # 0
        PROVE  Grounded(entity'[q])
    BY <2>1, <2>2 DEF IInv, Hands
  <2> QED
    BY <2>2 DEF Hands, Grounded
<1>3. BatchHands'
  BY DEF IInv, BatchHands, Grounded
<1>4. Books'
  BY DEF IInv, Books
<1> QED
  BY <1>1, <1>2, <1>3, <1>4 DEF IInv

\* A save of p's entity, which p keeps as x.
LEMMA WrittenInv ==
    ASSUME IInv, NEW p \in Caller, Changed(p), GuardPasses(entity[p]), Write(entity[p]),
           NEW x \in {NoEntity, entity[p], SetVersion(entity[p])},
           entity' = [entity EXCEPT ![p] = x],
           UNCHANGED <<clock, todo>>, faultsLeft' \in Nat
    PROVE  IInv'
<1>0. entity[p] \in Entity
  BY HeldEntity DEF IInv, Changed
<1> PICK d \in Entity : d = entity[p]
  BY <1>0
<1>1. Grounded(d) /\ d.version # d.loaded
  BY DEF IInv, Hands, Changed
<1>2. /\ row' \in [Entry -> Row]
      /\ granted' \in [Entry -> Amount] /\ taken' \in [Entry -> Amount]
      /\ Books' /\ Grounded(SetVersion(d))'
      /\ \A y \in Entity : Grounded(y) => Grounded(y)'
  BY <1>1, WriteInv
<1>3. x \in Entity \union {NoEntity} /\ (x.id # 0 => Grounded(x)')
  BY <1>1, <1>2, SetVersionFields DEF NoEntity
<1>4. TypeOK'
  BY <1>2, <1>3 DEF IInv, TypeOK
<1>5. Hands'
  <2> SUFFICES ASSUME NEW q \in Caller, entity'[q].id # 0
      PROVE  Grounded(entity[q])'
    BY DEF Hands
  <2>1. CASE q = p
    <3>1. entity'[q] = x
      BY <2>1 DEF IInv, TypeOK
    <3> QED
      BY <3>1, <1>3 DEF Grounded
  <2>2. CASE q # p
    <3>1. entity'[q] = entity[q] /\ entity[q] \in Entity /\ Grounded(entity[q])
      BY <2>2, HeldEntity DEF IInv, TypeOK, Hands
    <3>2. PICK y \in Entity : y = entity[q]
      BY <3>1
    <3>3. Grounded(y)'
      BY <3>1, <3>2, <1>2
    <3> QED
      BY <3>1, <3>2, <3>3 DEF Grounded
  <2> QED
    BY <2>1, <2>2
<1>6. BatchHands'
  BY <1>2 DEF IInv, TypeOK, BatchHands
<1> QED
  BY <1>2, <1>4, <1>5, <1>6 DEF IInv

LEMMA SaveInv == ASSUME IInv, NEW p \in Caller, Save(p) PROVE IInv'
<1>1. CASE /\ GuardPasses(entity[p]) /\ Write(entity[p])
           /\ entity' = [entity EXCEPT ![p] = After(p, SetVersion(@))]
  BY <1>1, WrittenInv DEF Save, After, IInv, TypeOK
<1>2. CASE entity' = [entity EXCEPT ![p] = NoEntity] /\ UNCHANGED <<row, granted, taken>>
  BY <1>2, HoldInv DEF Save, NoEntity, IInv, TypeOK
<1> QED
  BY <1>1, <1>2 DEF Save

LEMMA SaveFailsInv == ASSUME IInv, NEW p \in Caller, SaveFails(p) PROVE IInv'
<1>1. faultsLeft' \in Nat /\ UNCHANGED <<clock, todo>> /\ Changed(p)
  BY DEF SaveFails, IInv, TypeOK
<1>2. entity[p] \in Entity /\ Grounded(entity[p])
  BY <1>1, HeldEntity DEF IInv, Hands, Changed
<1>3. After(p, entity[p]) \in {NoEntity, entity[p]}
      /\ entity' = [entity EXCEPT ![p] = After(p, entity[p])]
  BY DEF After, SaveFails
<1>4. CASE UNCHANGED <<row, granted, taken>>
  BY <1>1, <1>2, <1>3, <1>4, HoldInv DEF NoEntity
<1>5. CASE GuardPasses(entity[p]) /\ Write(entity[p])
  BY <1>1, <1>3, <1>5, WrittenInv
<1> QED
  BY <1>4, <1>5 DEF SaveFails

LEMMA GrantInv ==
    ASSUME IInv, NEW p \in Proc, NEW e \in Entry, NEW amount \in Amount \ {0},
           NEW expires \in Time, Grant(p, e, amount, expires)
    PROVE  IInv'
<1> DEFINE x == [id |-> e, version |-> 1, loaded |-> 0, remaining |-> amount,
                 was |-> amount, expires |-> expires]
<1>1. x \in Entity
  BY DEF Entity
<1>2. Grounded(x)
  BY Amounts DEF Grant, Grounded, IInv, TypeOK, Row
<1> QED
  BY <1>1, <1>2, HoldInv DEF Grant, Caller, IInv, TypeOK

LEMMA FindAvailableInv == ASSUME IInv, NEW p \in Proc, FindAvailable(p) PROVE IInv'
<1>1. PICK e \in Available : entity' = [entity EXCEPT ![p] = Loaded(e)]
  BY DEF FindAvailable
<1>2. Loaded(e) \in Entity /\ Grounded(Loaded(e))
  BY LoadedGrounded DEF Available, IInv
<1> QED
  BY <1>1, <1>2, HoldInv DEF FindAvailable, Caller, IInv, TypeOK

LEMMA ApplyInv ==
    ASSUME IInv, NEW p \in Proc, NEW amount \in Amount \ {0}, Apply(p, amount)
    PROVE  IInv'
<1> DEFINE d == entity[p]
           x == Mutation(d, d.remaining - amount, d.version + 1)
<1>1. d \in Entity /\ Grounded(d)
  BY HeldEntity DEF IInv, Hands, Apply, Caller
<1>2. /\ d.version \in Nat /\ d.loaded \in Nat /\ d.remaining \in Nat /\ d.was \in Nat
      /\ d.remaining <= MaxAmount /\ amount \in Nat /\ amount <= d.remaining
      /\ d.id \in Entry /\ d.was \in Amount /\ d.expires \in Time
  BY <1>1, EntityFields, Amounts DEF Apply
<1>3. d.remaining - amount \in Amount /\ d.remaining - amount <= d.remaining
  BY <1>2, BalanceAssumption DEF Amount
<1>4. d.version + 1 \in Nat
  BY <1>2
<1>5. /\ x \in Entity
      /\ x.id = d.id /\ x.version = d.version + 1 /\ x.loaded = d.loaded
      /\ x.remaining = d.remaining - amount /\ x.was = d.was
  <2>1. PICK rest, version : rest = d.remaining - amount /\ version = d.version + 1
    OBVIOUS
  <2>2. x = Mutation(d, rest, version) /\ rest \in Amount /\ version \in Nat
    BY <1>3, <1>4, <2>1
  <2> HIDE DEF x
  <2> QED
    BY <1>1, <2>1, <2>2, Mutated
<1>6. row[d.id].version \in Nat
  BY <1>2 DEF IInv, TypeOK, Row
<1>7. Grounded(x)
  BY <1>1, <1>2, <1>3, <1>5, <1>6 DEF Grounded
<1>8. entity' = [entity EXCEPT ![p] = x]
  BY <1>1 DEF Mutation, Apply, IInv, TypeOK
<1> QED
  BY <1>5, <1>7, <1>8, HoldInv DEF Apply, Caller, IInv, TypeOK

LEMMA RunBatchInv == ASSUME IInv, RunBatch PROVE IInv'
<1>1. FindExpired(clock, Limit) \subseteq {e \in Entry : row[e].version > 0}
  BY DEF FindExpired, Unconsumed, FirstRows, ExpiredRows
<1>2. \A x \in todo' : x \in Entity /\ Grounded(x)
  BY <1>1, LoadedGrounded DEF RunBatch, IInv
<1>3. TypeOK'
  BY <1>2 DEF RunBatch, IInv, TypeOK
<1>4. Hands' /\ BatchHands' /\ Books'
  BY <1>2 DEF RunBatch, IInv, Hands, BatchHands, Books, Grounded
<1> QED
  BY <1>3, <1>4 DEF IInv

LEMMA MarkExpiredInv == ASSUME IInv, MarkExpired PROVE IInv'
<1>1. PICK d \in todo : /\ todo' = todo \ {d}
                        /\ entity' = [entity EXCEPT ![Batch] =
                                         [d EXCEPT !.remaining = 0, !.version = @ + 1]]
  BY DEF MarkExpired
<1> DEFINE x == Mutation(d, 0, d.version + 1)
<1>2. d \in Entity /\ Grounded(d)
  BY DEF IInv, TypeOK, BatchHands
<1>3. /\ d.version \in Nat /\ d.loaded \in Nat /\ d.was \in Nat
      /\ d.id \in Entry /\ d.was \in Amount /\ d.expires \in Time
  BY <1>2, EntityFields, Amounts
<1>4. d.version + 1 \in Nat /\ 0 \in Amount
  BY <1>3, BalanceAssumption DEF Amount
<1>5. /\ x \in Entity
      /\ x.id = d.id /\ x.version = d.version + 1 /\ x.loaded = d.loaded
      /\ x.remaining = 0 /\ x.was = d.was
  BY <1>2, <1>4, Mutated
<1>6. row[d.id].version \in Nat
  BY <1>3 DEF IInv, TypeOK, Row
<1>7. Grounded(x)
  BY <1>2, <1>3, <1>5, <1>6 DEF Grounded
<1>8. entity' = [entity EXCEPT ![Batch] = x]
  BY <1>1 DEF Mutation
<1> QED
  BY <1>1, <1>5, <1>7, <1>8, HoldInv DEF MarkExpired, Caller, IInv, TypeOK

LEMMA NextInv == IInv /\ [Next]_vars => IInv'
<1> SUFFICES ASSUME IInv, [Next]_vars PROVE IInv'
  OBVIOUS
<1>1. CASE UNCHANGED vars
  BY <1>1 DEF vars, IInv, TypeOK, Hands, BatchHands, Books, Grounded
<1>2. CASE Tick
  BY <1>2, BalanceAssumption
     DEF Tick, Time, IInv, TypeOK, Hands, BatchHands, Books, Grounded
<1>3. CASE Next
  BY <1>2, <1>3, SaveInv, SaveFailsInv, GrantInv, FindAvailableInv, ApplyInv, RunBatchInv,
     MarkExpiredInv DEF Next, BatchStep, Caller
<1> QED
  BY <1>1, <1>3

LEMMA Invariant == Spec => []IInv
BY InitInv, NextInv, PTL DEF Spec

\* Every variable holds a value of its kind, whatever the callers, the batch and
\* the faults do.
THEOREM TypeCorrect == Spec => []TypeOK
<1>1. IInv => TypeOK
  BY DEF IInv
<1> QED
  BY <1>1, Invariant, PTL

\* The optimistic lock of balance_repo.go Save is enough: whoever races whom for
\* an entry, and however often a save whose answer was lost is repeated, credit
\* is taken once.
THEOREM CreditSpentOnce == Spec => []NoCreditTwice
<1>1. IInv => NoCreditTwice
  BY DEF IInv, TypeOK, Row, Books, NoCreditTwice
<1> QED
  BY <1>1, Invariant, PTL
=============================================================================
