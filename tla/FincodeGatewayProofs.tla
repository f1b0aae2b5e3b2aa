------------------------ MODULE FincodeGatewayProofs ------------------------
(***************************************************************************)
(* Theorems about FincodeGateway, for any callers, keys and bounds: its    *)
(* types, that a key bills one order, that no total is lifted above its    *)
(* hold, that a success the port reports has happened, and what a charge   *)
(* reports when its key was used before.                                   *)
(*                                                                         *)
(* The argument: what an order has become it stays (Grows), so a request   *)
(* or an answer that was right when it was made stays right however late   *)
(* it is served or replayed (Sent, Saved).  A key is used for one          *)
(* operation on one order, so the requests that carry it in their header   *)
(* are about that order (Fits), and a replayed answer speaks of the        *)
(* request that receives it even when the header is not scoped by          *)
(* endpoint: except between the two ways to refund, and there either is a  *)
(* refund.                                                                 *)
(***************************************************************************)
EXTENDS FincodeGateway, FiniteSetTheorems, WellFoundedInduction, TLAPS

AnyOp == PayOps \cup CompleteOps \cup LaterOps
AnyId == OrderIds \cup {NoKey}
AnyKey == Keys \cup {NoKey}
Yen == 0..MaxAmount
Endpoints == {"register", "execute", "capture", "change", "cancel"}
Header == AnyKey \X {"", "change", "capture"}
Steps == {"idle", "done", "register", "execute", "confirm", "resolve", "retrieve",
          "change", "capture", "cancel"}

CallState == [op : AnyOp, key : AnyKey, id : AnyId, amount : Yen, to : Yen,
              pc : Steps, res : Results, replayed : BOOLEAN]
HttpRequest == [endpoint : Endpoints, id : AnyId, to : Yen, job : Jobs,
                header : Header, key : AnyKey]
Reply == [id : OrderIds, status : Statuses, amount : Yen]
Entry == [header : Header, endpoint : Endpoints, ans : Reply]

Types ==
  /\ orders \in [OrderIds -> Order]
  /\ cache \subseteq Entry /\ late \subseteq HttpRequest
  /\ perEndpoint \in BOOLEAN
  /\ call \in [Callers -> CallState]
  /\ bound = [k \in Keys |-> bound[k]]
  /\ taken \in [Keys \cup {NoKey} -> Nat]
  /\ calls \in 0..MaxCalls /\ lost \in 0..MaxLosses

\* The history of an order says what its status says.
Lives(o) ==
  /\ o.billed => o.status \in {"AUTHORIZED", "CAPTURED", "CANCELED"}
  /\ o.status \in {"AUTHORIZED", "CAPTURED", "CANCELED"} => o.billed
  /\ o.captured => o.status \in {"CAPTURED", "CANCELED"}
  /\ o.amount <= o.held

\* An order registered with a key has the id of this key.
Owned == \A i \in OrderIds : Lives(orders[i]) /\ orders[i].key \in {i, NoKey}

Registered(i) == i \in OrderIds /\ orders[i].status # "ABSENT"

\* The order i is as an accepted request of the endpoint leaves it.
Happened(ep, i) ==
  /\ Registered(i)
  /\ ep = "execute" => orders[i].billed
  /\ ep = "capture" => orders[i].captured
  /\ ep = "cancel" => orders[i].status = "CANCELED"
  /\ ep = "change" => orders[i].amount < orders[i].held

\* A request about order i with this header is one of the operation its key
\* was used for.
Fits(ep, header, i) ==
  /\ bound[header[1]] # <<>>
  /\ \/ /\ bound[header[1]][1] \in PayOps
        /\ ep = "register" /\ header[2] = "" /\ i = header[1]
     \/ /\ bound[header[1]][1] = "capture" /\ i = bound[header[1]][2]
        /\ ep \in {"change", "capture"} /\ header[2] = ep
     \/ /\ bound[header[1]][1] \in {"void", "cancel"} /\ i = bound[header[1]][2]
        /\ ep = "cancel" /\ header[2] = ""
     \/ /\ bound[header[1]][1] = "refund" /\ i = bound[header[1]][2]
        /\ ep \in {"cancel", "change"} /\ header[2] = ""

Proper(r) ==
  /\ r.header[1] # NoKey => Fits(r.endpoint, r.header, r.id)
  /\ r.endpoint = "register" => r.id = r.key
  /\ r.endpoint = "execute" => r.header[1] = NoKey
  /\ r.endpoint # "register" => Registered(r.id)
  /\ r.endpoint = "change" => r.to < orders[r.id].held

\* The requests that may still be served, and the answers that may be replayed.
Sent == \A r \in late : Proper(r)
Saved == \A e \in cache : /\ e.header[1] # NoKey
                          /\ Fits(e.endpoint, e.header, e.ans.id)
                          /\ Happened(e.endpoint, e.ans.id)

\* A call on its way, with the order it is about.
Goes(q) ==
  \/ /\ q.op \in PayOps
     /\ q.key # NoKey => bound[q.key] # <<>> /\ bound[q.key][1] \in PayOps
     /\ \/ q.pc = "register" /\ q.id = q.key
        \/ q.pc \in {"execute", "confirm"} /\ Registered(q.id)
        \/ q.pc = "resolve" /\ q.id = q.key /\ q.key # NoKey /\ q.res # "ok"
  \/ /\ q.op \in CompleteOps /\ q.pc \in {"retrieve", "execute"}
     /\ q.key = NoKey /\ Registered(q.id)
  \/ /\ q.op \in LaterOps /\ Registered(q.id)
     /\ q.key # NoKey =>
          bound[q.key] # <<>> /\ bound[q.key][1] = q.op /\ bound[q.key][2] = q.id
     /\ \/ q.pc = "retrieve" /\ q.to = q.amount
        \/ q.op = "capture" /\ q.pc = "change" /\ q.to < orders[q.id].held
        \/ q.op = "capture" /\ q.pc = "capture"
        \/ q.op \in {"void", "cancel", "refund"} /\ q.pc = "cancel"
        \/ q.op = "refund" /\ q.pc = "change" /\ q.to < orders[q.id].held

\* A call that is over tells the truth.
Stands(q) ==
  q.res = "ok" =>
    /\ q.op \in PayOps \cup CompleteOps => Happened("execute", q.id)
    /\ q.op = "capture" => Happened("capture", q.id)
    /\ q.op \in {"void", "cancel"} => Happened("cancel", q.id)
    /\ q.op = "refund" => Happened("cancel", q.id) \/ Happened("change", q.id)

Fine(q) == \/ q.pc = "idle"
           \/ q.pc = "done" /\ Stands(q)
           \/ q.pc \notin {"idle", "done"} /\ Goes(q)

Ongoing == \A c \in Callers : Fine(call[c])

IInv == Types /\ Owned /\ Sent /\ Saved /\ Ongoing

-----------------------------------------------------------------------------
(***************************************************************************)
(* What fincode does with a request                                        *)
(***************************************************************************)
\* What an order keeps, whatever is done to it.
Grows(o, p) ==
  o.status # "ABSENT" =>
    /\ p.status # "ABSENT" /\ p.held = o.held /\ p.job = o.job
    /\ o.billed => p.billed
    /\ o.captured => p.captured
    /\ o.status = "CANCELED" => p.status = "CANCELED"
    /\ o.amount < o.held => p.amount < p.held

\* What the request r has made of an order of which p is the new state.
Achieved(r, p) ==
  /\ p.status # "ABSENT"
  /\ r.endpoint = "execute" => p.billed
  /\ r.endpoint = "capture" => p.captured
  /\ r.endpoint = "cancel" => p.status = "CANCELED"
  /\ r.endpoint = "change" => p.amount = r.to

LEMMA EffectSound ==
  ASSUME NEW r \in HttpRequest, NEW o \in Order, Lives(o), NEW p \in Effect(r, o),
         r.endpoint = "change" => r.to < o.held
  PROVE  /\ p \in Order /\ Lives(p) /\ Grows(o, p) /\ Achieved(r, p)
         /\ r.endpoint = "register" => p.key = r.key /\ p.held = r.to /\ p.job = r.job
         /\ r.endpoint # "register" => p.key = o.key
<1> USE FincodeAssumption DEF Order, HttpRequest, Statuses, Jobs, Yen, AnyKey
<1>1. CASE r.endpoint = "register"
  <2>1. o.status = "ABSENT" /\ p = [o EXCEPT !.status = "UNPROCESSED", !.job = r.job,
                                       !.amount = r.to, !.held = r.to, !.key = r.key]
    BY <1>1 DEF Effect
  <2>2. /\ p.status = "UNPROCESSED" /\ p.amount = r.to /\ p.held = r.to
        /\ p.key = r.key /\ p.job = r.job /\ p.billed = o.billed /\ p.captured = o.captured
        /\ p \in Order
    BY <2>1
  <2> QED
    BY <1>1, <2>1, <2>2 DEF Lives, Grows, Achieved
<1>2. CASE r.endpoint = "execute"
  <2>1. o.status = "UNPROCESSED"
        /\ p = [o EXCEPT !.status = successStatus(o.job), !.billed = TRUE,
                         !.captured = (o.job = "CAPTURE")]
    BY <1>2 DEF Effect
  <2>2. /\ p.status = successStatus(o.job) /\ p.billed = TRUE
        /\ p.captured = (o.job = "CAPTURE") /\ p.job = o.job /\ p.amount = o.amount
        /\ p.held = o.held /\ p.key = o.key /\ p \in Order
    BY <2>1 DEF successStatus
  <2>3. o.job = "CAPTURE" => successStatus(o.job) = "CAPTURED"
    BY DEF successStatus
  <2>4. successStatus(o.job) \in {"AUTHORIZED", "CAPTURED"}
    BY DEF successStatus
  <2> QED
    BY <1>2, <2>1, <2>2, <2>3, <2>4 DEF Lives, Grows, Achieved
<1>3. CASE r.endpoint = "capture"
  <2>1. o.status = "AUTHORIZED" /\ p = [o EXCEPT !.status = "CAPTURED", !.captured = TRUE]
    BY <1>3 DEF Effect
  <2> QED
    BY <1>3, <2>1 DEF Lives, Grows, Achieved
<1>4. CASE r.endpoint = "change"
  <2>1. o.status \in {"AUTHORIZED", "CAPTURED"} /\ p = [o EXCEPT !.amount = r.to]
    BY <1>4 DEF Effect, successStatus
  <2> QED
    BY <1>4, <2>1 DEF Lives, Grows, Achieved
<1>5. CASE r.endpoint = "cancel"
  <2>1. o.status \in {"AUTHORIZED", "CAPTURED"} /\ p = [o EXCEPT !.status = "CANCELED"]
    BY <1>5 DEF Effect
  <2> QED
    BY <1>5, <2>1 DEF Lives, Grows, Achieved
<1> QED
  BY <1>1, <1>2, <1>3, <1>4, <1>5 DEF Endpoints

\* Of natural numbers one is the least.
LEMMA LeastOf ==
  ASSUME NEW U, U \subseteq Nat, U # {}
  PROVE  \E i \in U : \A j \in U : i <= j
<1> DEFINE Less == OpToRel(<, Nat)
<1>1. IsWellFoundedOn(Less, Nat)
  BY NatLessThanWellFounded
<1>2. ASSUME NEW j \in Nat, NEW k \in Nat, j < k PROVE <<j, k>> \in Less
  <2>1. <<j, k>> \in Nat \X Nat
    OBVIOUS
  <2> QED
    BY <1>2, <2>1, Zenon DEF OpToRel
<1> HIDE DEF Less
<1>3. PICK i \in U : \A j \in U : ~ (<<j, i>> \in Less)
  BY <1>1, WFMin
<1>4. ASSUME NEW j \in U PROVE i <= j
  <2>1. i \in Nat /\ j \in Nat
    OBVIOUS
  <2>2. ~ (j < i)
    BY <2>1, <1>2, <1>3, Zenon
  <2> QED
    BY <2>1, <2>2
<1> QED
  BY <1>4

\* The order a request is about: its own, or one of those without a key.
LEMMA TargetIn ==
  ASSUME NEW r \in HttpRequest, r.id = NoKey => Unassigned # {}
  PROVE  Target(r) \in OrderIds /\ (r.id # NoKey => Target(r) = r.id)
<1>1. CASE r.id # NoKey
  BY <1>1 DEF Target, HttpRequest, AnyId
<1>2. CASE r.id = NoKey
  <2>1. Unassigned \subseteq Nat /\ Unassigned \subseteq OrderIds
    BY DEF Unassigned, OrderIds
  <2>2. \E i \in Unassigned : \A j \in Unassigned : i <= j
    BY <1>2, <2>1, LeastOf
  <2>3. Target(r) = CHOOSE i \in Unassigned : \A j \in Unassigned : i <= j
    BY <1>2 DEF Target
  <2> QED
    BY <1>2, <2>1, <2>2, <2>3
<1> QED
  BY <1>1, <1>2

\* A request is refused, answered from the cache, or has its effect.
Replayed(r, x) ==
  Cached(r) # {} /\ \E e \in cache : r.header[1] # NoKey /\ e.header = r.header /\ x.ans = e.ans

LEMMA ServeCases ==
  ASSUME NEW r \in HttpRequest, NEW x \in Outcomes(r), Serve(r, x),
         orders \in [OrderIds -> Order]
  PROVE  /\ Target(r) \in OrderIds /\ (r.id # NoKey => Target(r) = r.id)
         /\ \/ /\ x.order = orders[Target(r)] /\ orders' = orders /\ cache' = cache
               /\ x.ans = Rejected \/ Replayed(r, x)
            \/ /\ x.order \in Effect(r, orders[Target(r)])
               /\ x.ans = Answer(Target(r), x.order)
               /\ orders' = [orders EXCEPT ![Target(r)] = x.order]
               /\ \/ cache' = cache
                  \/ /\ r.header[1] # NoKey
                     /\ cache' = cache \cup {[header |-> r.header, endpoint |-> r.endpoint,
                                              ans |-> x.ans]}
<1> DEFINE i == Target(r)
           done == Effect(r, orders[i])
<1>1. ~ (r.id = NoKey /\ Unassigned = {})
  BY DEF Outcomes
<1>2. i \in OrderIds /\ (r.id # NoKey => i = r.id)
  BY <1>1, TargetIn
<1>3. \/ Cached(r) # {} /\ \E e \in Cached(r) : x = [ans |-> e.ans, order |-> orders[i]]
      \/ \E o \in done : x = [ans |-> Answer(i, o), order |-> o]
      \/ x = [ans |-> Rejected, order |-> orders[i]]
  <2> HIDE DEF i, done
  <2> QED
    BY <1>1 DEF Outcomes, i, done
<1>4. /\ orders' = [orders EXCEPT ![i] = x.order]
      /\ \/ cache' = cache
         \/ /\ r.header[1] # NoKey /\ x.ans # Rejected /\ Cached(r) = {}
            /\ cache' = cache \cup {[header |-> r.header, endpoint |-> r.endpoint,
                                     ans |-> x.ans]}
  BY DEF Serve
<1> HIDE DEF i, done
<1>5. CASE Cached(r) # {} /\ \E e \in Cached(r) : x = [ans |-> e.ans, order |-> orders[i]]
  <2>1. PICK e \in Cached(r) : x = [ans |-> e.ans, order |-> orders[i]]
    BY <1>5
  <2>2. x.order = orders[i] /\ x.ans = e.ans
    BY <2>1
  <2>3. Replayed(r, x)
    BY <1>5, <2>2 DEF Replayed, Cached
  <2>4. orders' = orders
    BY <1>2, <1>4, <2>2
  <2> QED
    BY <1>2, <1>4, <1>5, <2>2, <2>3, <2>4 DEF i
<1>6. CASE \E o \in done : x = [ans |-> Answer(i, o), order |-> o]
  BY <1>2, <1>4, <1>6 DEF i, done
<1>7. CASE x = [ans |-> Rejected, order |-> orders[i]]
  <2>1. orders' = orders
    BY <1>2, <1>4, <1>7
  <2> QED
    BY <1>2, <1>4, <1>7, <2>1 DEF i
<1> QED
  BY <1>3, <1>5, <1>6, <1>7

\* What is said of an order, a header or a call is about orders and bound.
LEMMA SameFacts ==
  ASSUME UNCHANGED <<orders, bound>>
  PROVE  /\ \A i : Registered(i)' <=> Registered(i)
         /\ \A ep, i : Happened(ep, i)' <=> Happened(ep, i)
         /\ \A ep, h, i : Fits(ep, h, i)' <=> Fits(ep, h, i)
<1>1. \A i : Registered(i)' <=> Registered(i)
  BY DEF Registered
<1>2. \A ep, i : Happened(ep, i)' <=> Happened(ep, i)
  BY <1>1 DEF Happened
<1>3. \A ep, h, i : Fits(ep, h, i)' <=> Fits(ep, h, i)
  BY DEF Fits
<1> QED
  BY <1>1, <1>2, <1>3

LEMMA SameSaved ==
  ASSUME Saved, UNCHANGED <<orders, bound>>, cache' \subseteq cache
  PROVE  Saved'
<1>1. ASSUME NEW e \in cache'
      PROVE  /\ e.header[1] # NoKey /\ Fits(e.endpoint, e.header, e.ans.id)'
             /\ Happened(e.endpoint, e.ans.id)'
  BY SameFacts DEF Saved
<1> QED
  BY <1>1 DEF Saved

\* The call of a caller, by a name of its own.
LEMMA FineCall ==
  ASSUME NEW c, NEW z, z = call'[c], Fine(z)'
  PROVE  Fine(call[c])'
<1>1. Stands(z)' => Stands(call[c])'
  BY DEF Stands, Happened, Registered
<1>2. Goes(z)' => Goes(call[c])'
  BY DEF Goes, Registered
<1> QED
  BY <1>1, <1>2 DEF Fine

\* What never comes undone: what has become of an order, and the operation a
\* key was used for.
Onwards ==
  /\ \A i \in OrderIds : Grows(orders[i], orders'[i])
  /\ \A k \in Keys : bound[k] # <<>> => bound'[k] = bound[k]

LEMMA HappenedStays ==
  ASSUME Onwards, NEW ep, NEW i, Happened(ep, i)
  PROVE  Happened(ep, i)'
BY DEF Onwards, Grows, Happened, Registered

LEMMA FitsStays ==
  ASSUME Onwards, NEW ep, NEW h, NEW i, h[1] \in Keys, Fits(ep, h, i)
  PROVE  Fits(ep, h, i)'
BY DEF Onwards, Fits

LEMMA ProperStays ==
  ASSUME Onwards, NEW r \in HttpRequest, Proper(r)
  PROVE  Proper(r)'
<1>1. r.header[1] \in AnyKey
  BY DEF HttpRequest, Header
<1>2. r.header[1] # NoKey => Fits(r.endpoint, r.header, r.id)'
  BY <1>1, FitsStays DEF Proper, AnyKey
<1> QED
  BY <1>2 DEF Proper, Onwards, Grows, Registered

LEMMA GoesStays ==
  ASSUME Onwards, NEW q \in CallState, Goes(q)
  PROVE  Goes(q)'
<1>1. q.key \in Keys \cup {NoKey}
  BY DEF CallState, AnyKey
<1> QED
  BY <1>1 DEF Goes, Onwards, Grows, Registered

LEMMA FineStays ==
  ASSUME Onwards, NEW q \in CallState, Fine(q)
  PROVE  Fine(q)'
<1>1. Stands(q) => Stands(q)'
  BY HappenedStays DEF Stands
<1> QED
  BY <1>1, GoesStays DEF Fine

LEMMA NoKeyNoOrder == NoKey \notin OrderIds
BY FincodeAssumption DEF OrderIds

\* What an answer to the request r says about the order i: its request was
\* done, or in the answer replayed to a refund, the other way to refund was.
Tells(r, i) ==
  \/ Happened(r.endpoint, i)
  \/ /\ r.header[1] # NoKey /\ bound[r.header[1]][1] = "refund"
     /\ Happened("cancel", i) \/ Happened("change", i)

\* The answer saved for another request with this header is about this order.
LEMMA ReplayTells ==
  ASSUME Types, Saved, NEW r \in HttpRequest, Proper(r), NEW x, Replayed(r, x)
  PROVE  x.ans \in Reply /\ x.ans.id = r.id /\ Tells(r, r.id)
<1>1. PICK e \in cache : r.header[1] # NoKey /\ e.header = r.header /\ x.ans = e.ans
  BY DEF Replayed
<1>2. e.ans \in Reply
  BY DEF Types, Entry
<1>3. Fits(e.endpoint, r.header, e.ans.id) /\ Happened(e.endpoint, e.ans.id)
  BY <1>1 DEF Saved
<1>4. Fits(r.endpoint, r.header, r.id)
  BY <1>1 DEF Proper
<1>5. e.ans.id = r.id
  BY <1>3, <1>4 DEF Fits, PayOps
<1>6. \/ e.endpoint = r.endpoint
      \/ bound[r.header[1]][1] = "refund" /\ e.endpoint \in {"cancel", "change"}
  <2> DEFINE b == bound[r.header[1]][1]
  <2>1. \/ b \in PayOps /\ r.endpoint = "register"
        \/ b = "capture" /\ r.endpoint = r.header[2]
        \/ b \in {"void", "cancel"} /\ r.endpoint = "cancel"
        \/ b = "refund" /\ r.endpoint \in {"cancel", "change"}
    BY <1>4 DEF Fits
  <2>2. \/ b \in PayOps /\ e.endpoint = "register"
        \/ b = "capture" /\ e.endpoint = r.header[2]
        \/ b \in {"void", "cancel"} /\ e.endpoint = "cancel"
        \/ b = "refund" /\ e.endpoint \in {"cancel", "change"}
    BY <1>3 DEF Fits
  <2> HIDE DEF b
  <2>3. \/ e.endpoint = r.endpoint
        \/ b = "refund" /\ e.endpoint \in {"cancel", "change"}
    BY <2>1, <2>2 DEF PayOps
  <2> QED
    BY <2>3 DEF b
<1>7. Tells(r, e.ans.id)
  <2>1. CASE e.endpoint = r.endpoint
    BY <1>3, <2>1 DEF Tells
  <2>2. CASE bound[r.header[1]][1] = "refund" /\ e.endpoint \in {"cancel", "change"}
    <3>1. Happened("cancel", e.ans.id) \/ Happened("change", e.ans.id)
      BY <1>3, <2>2
    <3> QED
      BY <1>1, <2>2, <3>1 DEF Tells
  <2> QED
    BY <1>6, <2>1, <2>2
<1> QED
  BY <1>1, <1>2, <1>5, <1>7

\* Serving a proper request keeps what is known of fincode, and its answer
\* tells the truth.
LEMMA ServeInv ==
  ASSUME Types, Owned, Saved, NEW r \in HttpRequest, Proper(r),
         NEW x \in Outcomes(r), Serve(r, x), bound' = bound
  PROVE  /\ orders' \in [OrderIds -> Order] /\ cache' \subseteq Entry
         /\ taken' \in [Keys \cup {NoKey} -> Nat]
         /\ Owned' /\ Saved' /\ Onwards
         /\ x.ans # Rejected =>
              /\ x.ans.id \in OrderIds /\ (r.id # NoKey => x.ans.id = r.id)
              /\ Tells(r, x.ans.id)'
<1> DEFINE i == Target(r)
           o == orders[i]
           p == x.order
<1>1. i \in OrderIds /\ (r.id # NoKey => i = r.id) /\ o \in Order /\ Lives(o)
      /\ o.key \in {i, NoKey}
  BY ServeCases DEF Types, Owned
<1>2. r.header[1] # NoKey => r.id # NoKey
  BY NoKeyNoOrder DEF Proper, Fits, Registered
<1>3. taken' = [taken EXCEPT ![r.key] = @ + Given(r, o, p)] /\ r.key \in Keys \cup {NoKey}
  BY DEF Serve, HttpRequest, AnyKey
<1>4. ASSUME p \in Order PROVE taken' \in [Keys \cup {NoKey} -> Nat]
  <2>1. o.amount \in Nat /\ p.amount \in Nat
    BY <1>1, <1>4, FincodeAssumption DEF Order
  <2>2. Given(r, o, p) \in Nat
    BY <2>1 DEF Given
  <2> QED
    BY <1>3, <2>2 DEF Types
<1>5. CASE /\ p = o /\ orders' = orders /\ cache' = cache
           /\ x.ans = Rejected \/ Replayed(r, x)
  <2>1. Onwards
    BY <1>5 DEF Onwards, Grows
  <2>2. Owned' /\ Saved'
    BY <1>5, SameSaved DEF Owned
  <2>3. Replayed(r, x) => /\ x.ans.id \in OrderIds /\ x.ans.id = r.id
                          /\ Tells(r, x.ans.id)
    BY ReplayTells DEF Reply
  <2>4. ASSUME Tells(r, x.ans.id) PROVE Tells(r, x.ans.id)'
    <3>1. PICK j : j = x.ans.id
      OBVIOUS
    <3>2. Tells(r, j)'
      BY <1>5, <2>4, <3>1 DEF Tells, Happened, Registered
    <3> QED
      BY <3>1, <3>2
  <2> QED
    BY <1>1, <1>4, <1>5, <2>1, <2>2, <2>3, <2>4 DEF Types
<1>6. CASE /\ p \in Effect(r, o) /\ x.ans = Answer(i, p)
           /\ orders' = [orders EXCEPT ![i] = p]
           /\ \/ cache' = cache
              \/ /\ r.header[1] # NoKey
                 /\ cache' = cache \cup {[header |-> r.header, endpoint |-> r.endpoint,
                                          ans |-> x.ans]}
  <2>1. r.endpoint = "change" => r.to < o.held
    BY <1>1, NoKeyNoOrder DEF Proper, Registered
  <2>2. /\ p \in Order /\ Lives(p) /\ Grows(o, p) /\ Achieved(r, p)
        /\ r.endpoint = "register" => p.key = r.key
        /\ r.endpoint # "register" => p.key = o.key
    BY <1>1, <1>6, <2>1, EffectSound
  <2>3. orders' \in [OrderIds -> Order] /\ orders'[i] = p
        /\ \A j \in OrderIds : j # i => orders'[j] = orders[j]
    BY <1>1, <1>6, <2>2 DEF Types
  <2> HIDE DEF i, p, o
  <2>4. Onwards
    <3>1. \A j \in OrderIds : Grows(orders[j], orders[j])
      BY DEF Grows
    <3> QED
      BY <2>2, <2>3, <3>1 DEF Onwards, o
  <2>5. Owned'
    <3>1. p.key \in {i, NoKey}
      BY <1>1, <2>2 DEF Proper
    <3> QED
      BY <2>2, <2>3, <3>1 DEF Owned
  <2>6. x.ans = [id |-> i, status |-> p.status, amount |-> p.amount]
    BY <1>6 DEF Answer
  <2>7. Happened(r.endpoint, x.ans.id)'
    <3>1. PICK j \in OrderIds : j = i
      BY <1>1
    <3>2. o.status # "ABSENT" => p.held = o.held
      BY <2>2 DEF Grows
    <3>3. r.endpoint = "change" => o.status # "ABSENT"
      BY <1>1, NoKeyNoOrder DEF Proper, Registered, o
    <3>4. Happened(r.endpoint, j)'
      BY <2>1, <2>2, <2>3, <3>1, <3>2, <3>3 DEF Happened, Registered, Achieved
    <3> QED
      BY <2>6, <3>1, <3>4
  <2>8. cache' \subseteq Entry
    <3>1. x.ans \in Reply
      BY <1>1, <2>2, <2>6 DEF Reply, Order, Yen
    <3>2. [header |-> r.header, endpoint |-> r.endpoint, ans |-> x.ans] \in Entry
      BY <3>1 DEF Entry, HttpRequest
    <3> QED
      BY <1>6, <3>2 DEF Types
  <2>9. Saved'
    <3> SUFFICES ASSUME NEW e \in cache'
        PROVE  /\ e.header[1] # NoKey /\ Fits(e.endpoint, e.header, e.ans.id)'
               /\ Happened(e.endpoint, e.ans.id)'
      BY DEF Saved
    <3>1. CASE e \in cache
      <4>1. e.header[1] \in Keys
        BY <3>1 DEF Types, Entry, Header, AnyKey, Saved
      <4>2. /\ Fits(e.endpoint, e.header, e.ans.id)
            /\ Happened(e.endpoint, e.ans.id)
        BY <3>1 DEF Saved
      <4>3. Fits(e.endpoint, e.header, e.ans.id)'
        BY <2>4, <4>1, <4>2, FitsStays
      <4>4. Happened(e.endpoint, e.ans.id)'
        BY <2>4, <4>2, HappenedStays
      <4>5. e.header[1] # NoKey
        BY <3>1 DEF Saved
      <4> QED
        BY <4>3, <4>4, <4>5
    <3>2. CASE e \notin cache
      <4>1. r.header[1] # NoKey
            /\ e = [header |-> r.header, endpoint |-> r.endpoint, ans |-> x.ans]
        BY <1>6, <3>2
      <4>2. e.header = r.header /\ e.endpoint = r.endpoint /\ e.ans.id = i /\ i = r.id
        BY <1>1, <1>2, <2>6, <4>1
      <4>3. Fits(r.endpoint, r.header, r.id) /\ r.header[1] \in Keys
        BY <4>1 DEF Proper, HttpRequest, Header, AnyKey
      <4>4. Fits(r.endpoint, r.header, r.id)'
        BY <2>4, <4>3, FitsStays
      <4> QED
        BY <2>6, <2>7, <4>1, <4>2, <4>4
    <3> QED
      BY <3>1, <3>2
  <2>10. Tells(r, x.ans.id)'
    BY <2>7 DEF Tells
  <2> QED
    BY <1>1, <1>4, <2>2, <2>3, <2>4, <2>5, <2>6, <2>8, <2>9, <2>10 DEF p
<1> QED
  BY ServeCases, <1>5, <1>6 DEF Types

-----------------------------------------------------------------------------
(***************************************************************************)
(* The steps of a caller                                                   *)
(***************************************************************************)
Returned(q, res) == [Idle EXCEPT !.op = q.op, !.id = q.id, !.amount = q.amount,
                                 !.pc = "done", !.res = res]

LEMMA ReturnedFields ==
  ASSUME NEW q \in CallState, NEW res \in Results
  PROVE  /\ Returned(q, res) \in CallState
         /\ Returned(q, res).op = q.op /\ Returned(q, res).id = q.id
         /\ Returned(q, res).pc = "done" /\ Returned(q, res).res = res
<1> DEFINE p1 == [Idle EXCEPT !.op = q.op]
           p2 == [p1 EXCEPT !.id = q.id]
           p3 == [p2 EXCEPT !.amount = q.amount]
           p4 == [p3 EXCEPT !.pc = "done"]
           p5 == [p4 EXCEPT !.res = res]
<1> USE DEF CallState, Steps
<1>1. p5 = Returned(q, res)
  BY Zenon DEF Returned
<1>2. Idle \in CallState
  BY FincodeAssumption DEF Idle, Full, AnyOp, PayOps, AnyKey, AnyId, Yen, Results
<1>3. p1 \in CallState /\ p1.op = q.op
  BY <1>2
<1> HIDE DEF p1
<1>4. p2 \in CallState /\ p2.op = q.op /\ p2.id = q.id
  BY <1>3
<1> HIDE DEF p2
<1>5. p3 \in CallState /\ p3.op = q.op /\ p3.id = q.id
  BY <1>4
<1> HIDE DEF p3
<1>6. p4 \in CallState /\ p4.op = q.op /\ p4.id = q.id /\ p4.pc = "done"
  BY <1>5
<1> HIDE DEF p4
<1>7. p5 \in CallState /\ p5.op = q.op /\ p5.id = q.id /\ p5.pc = "done" /\ p5.res = res
  BY <1>6
<1> HIDE DEF p5
<1> QED
  BY <1>1, <1>7

LEMMA ReturnedFine ==
  ASSUME NEW q \in CallState, NEW res \in Results, res # "ok"
  PROVE  Fine(Returned(q, res))
BY ReturnedFields DEF Fine, Stands

LEMMA CallInv ==
  ASSUME Types, Ongoing, Onwards, NEW c \in Callers, NEW q \in CallState,
         call' = [call EXCEPT ![c] = q], Fine(q)'
  PROVE  call' \in [Callers -> CallState] /\ Ongoing'
<1>1. call' \in [Callers -> CallState] /\ call'[c] = q
      /\ \A d \in Callers : d # c => call'[d] = call[d]
  BY DEF Types
<1>2. ASSUME NEW d \in Callers PROVE Fine(call[d])'
  <2>1. PICK p \in CallState : p = call[d]
    BY DEF Types
  <2>2. Fine(p)'
    BY <2>1, FineStays DEF Ongoing
  <2>3. PICK z : z = call'[d] /\ Fine(z)'
    BY <1>1, <2>1, <2>2
  <2> QED
    BY <2>3, FineCall
<1> QED
  BY <1>1, <1>2 DEF Ongoing

\* A caller reads at fincode, or starts a call.
LEMMA ReadInv ==
  ASSUME IInv, NEW c \in Callers, NEW q \in CallState, call' = [call EXCEPT ![c] = q],
         Fine(q)', Onwards, bound' = [k \in Keys |-> bound'[k]],
         calls' \in 0..MaxCalls, lost' \in 0..MaxLosses,
         UNCHANGED <<provider, perEndpoint, late>>
  PROVE  IInv'
<1>1. Types' /\ Ongoing'
  BY CallInv DEF IInv, Types, provider
<1>2. Sent'
  BY ProperStays DEF IInv, Types, Sent
<1>3. Saved'
  <2> SUFFICES ASSUME NEW e \in cache
      PROVE  /\ e.header[1] # NoKey /\ Fits(e.endpoint, e.header, e.ans.id)'
             /\ Happened(e.endpoint, e.ans.id)'
    BY DEF Saved, provider
  <2>1. /\ e.header[1] # NoKey /\ Fits(e.endpoint, e.header, e.ans.id)
        /\ Happened(e.endpoint, e.ans.id) /\ e.header[1] \in Keys
    BY DEF IInv, Saved, Types, Entry, Header, AnyKey
  <2>2. Fits(e.endpoint, e.header, e.ans.id)'
    BY <2>1, FitsStays
  <2>3. Happened(e.endpoint, e.ans.id)'
    BY <2>1, HappenedStays
  <2> QED
    BY <2>1, <2>2, <2>3
<1>4. Owned'
  BY DEF IInv, Owned, provider
<1> QED
  BY <1>1, <1>2, <1>3, <1>4 DEF IInv

\* A caller's request is answered.
LEMMA AnswerInv ==
  ASSUME IInv, NEW c \in Callers, NEW q \in CallState, call' = [call EXCEPT ![c] = q],
         Fine(q)', NEW r \in HttpRequest, Proper(r), NEW x \in Outcomes(r), Serve(r, x),
         UNCHANGED <<late, lost, perEndpoint, bound, calls>>
  PROVE  IInv'
<1>1. /\ orders' \in [OrderIds -> Order] /\ cache' \subseteq Entry
      /\ taken' \in [Keys \cup {NoKey} -> Nat]
      /\ Owned' /\ Saved' /\ Onwards
  BY ServeInv DEF IInv
<1>2. Types' /\ Ongoing'
  BY <1>1, CallInv DEF IInv, Types
<1>3. Sent'
  BY <1>1, ProperStays DEF IInv, Types, Sent
<1> QED
  BY <1>1, <1>2, <1>3 DEF IInv

\* A caller gives up on its request, which may still be served.
LEMMA GiveUpInv ==
  ASSUME IInv, NEW c \in Callers, NEW q \in CallState, call' = [call EXCEPT ![c] = q],
         Fine(q), NEW r \in HttpRequest, Proper(r),
         lost < MaxLosses, lost' = lost + 1, late' = late \cup {r},
         UNCHANGED <<provider, perEndpoint, bound, calls>>
  PROVE  IInv'
<1>1. Onwards
  BY DEF Onwards, Grows, provider
<1>2. Fine(q)'
  BY <1>1, FineStays
<1>3. lost' \in 0..MaxLosses
  BY FincodeAssumption DEF IInv, Types
<1>4. Types' /\ Ongoing'
  BY <1>1, <1>2, <1>3, CallInv DEF IInv, Types, provider
<1>5. Sent'
  BY <1>1, ProperStays DEF IInv, Types, Sent
<1>6. Owned' /\ Saved'
  BY SameSaved DEF IInv, Owned, provider
<1> QED
  BY <1>4, <1>5, <1>6 DEF IInv

\* A request about an order that exists, with what the caller does on an
\* answer, a refusal and a loss.
Sends(c, r, yes, no, retry) ==
  /\ \/ \E x \in Outcomes(r) :
          /\ Serve(r, x)
          /\ call' = [call EXCEPT ![c] = IF x.ans = Rejected THEN no ELSE yes]
          /\ UNCHANGED <<late, lost>>
     \/ /\ lost < MaxLosses /\ lost' = lost + 1 /\ late' = late \cup {r}
        /\ call' = [call EXCEPT ![c] = retry]
        /\ UNCHANGED provider
  /\ UNCHANGED <<perEndpoint, bound, calls>>

LEMMA SendInv ==
  ASSUME IInv, NEW c \in Callers, NEW r \in HttpRequest, Proper(r), r.id \in OrderIds,
         NEW yes \in CallState, NEW no \in CallState, NEW retry \in CallState,
         Fine(no), Fine(retry), Fine(yes) \/ (Tells(r, r.id)' => Fine(yes)'),
         Sends(c, r, yes, no, retry)
  PROVE  IInv'
<1>1. CASE \E x \in Outcomes(r) :
             /\ Serve(r, x)
             /\ call' = [call EXCEPT ![c] = IF x.ans = Rejected THEN no ELSE yes]
             /\ UNCHANGED <<late, lost>>
  <2>1. PICK x \in Outcomes(r) :
             /\ Serve(r, x)
             /\ call' = [call EXCEPT ![c] = IF x.ans = Rejected THEN no ELSE yes]
             /\ UNCHANGED <<late, lost>>
    BY <1>1
  <2>2. UNCHANGED <<late, lost, perEndpoint, bound, calls>>
    BY <2>1 DEF Sends
  <2>3. Onwards /\ (x.ans # Rejected => x.ans.id = r.id /\ Tells(r, x.ans.id)')
    BY <2>1, <2>2, ServeInv, NoKeyNoOrder DEF IInv
  <2>4. Fine(no)' /\ (Fine(yes) => Fine(yes)')
    BY <2>3, FineStays
  <2>5. PICK i : i = x.ans.id
    OBVIOUS
  <2>6. CASE x.ans = Rejected
    BY <2>1, <2>2, <2>4, <2>6, AnswerInv
  <2>7. CASE x.ans # Rejected
    <3>1. Tells(r, r.id)'
      BY <2>3, <2>7
    <3> QED
      BY <2>1, <2>2, <2>4, <2>7, <3>1, AnswerInv
  <2> QED
    BY <2>6, <2>7
<1>2. CASE /\ lost < MaxLosses /\ lost' = lost + 1 /\ late' = late \cup {r}
           /\ call' = [call EXCEPT ![c] = retry]
           /\ UNCHANGED provider
  BY <1>2, GiveUpInv DEF Sends
<1> QED
  BY <1>1, <1>2 DEF Sends

\* The next state of a call: another step, another step with a yen amount, with
\* a result kept for later, or with the order that was registered.
Gone(q, pc) == [q EXCEPT !.pc = pc]
GoneTo(q, pc, to) == [Gone(q, pc) EXCEPT !.to = to]
GoneWith(q, pc, res) == [Gone(q, pc) EXCEPT !.res = res]
GoneWithId(q, pc, i) == [Gone(q, pc) EXCEPT !.id = i]
GoneReplayed(q, pc, i, b) == [GoneWithId(q, pc, i) EXCEPT !.replayed = b]

LEMMA GoneFields ==
  ASSUME NEW q \in CallState, NEW pc \in Steps
  PROVE  /\ Gone(q, pc) \in CallState /\ Gone(q, pc).pc = pc
         /\ Gone(q, pc).op = q.op /\ Gone(q, pc).key = q.key /\ Gone(q, pc).id = q.id
         /\ Gone(q, pc).amount = q.amount /\ Gone(q, pc).to = q.to /\ Gone(q, pc).res = q.res
         /\ Gone(q, pc).replayed = q.replayed
BY DEF Gone, CallState, Steps

LEMMA GoneToFields ==
  ASSUME NEW q \in CallState, NEW pc \in Steps, NEW to \in Yen
  PROVE  LET z == GoneTo(q, pc, to)
         IN  /\ z \in CallState /\ z.pc = pc /\ z.op = q.op /\ z.key = q.key
             /\ z.id = q.id /\ z.amount = q.amount /\ z.to = to
BY GoneFields DEF GoneTo, CallState

LEMMA GoneWithFields ==
  ASSUME NEW q \in CallState, NEW pc \in Steps, NEW res \in Results
  PROVE  LET z == GoneWith(q, pc, res)
         IN  /\ z \in CallState /\ z.pc = pc /\ z.op = q.op /\ z.key = q.key
             /\ z.id = q.id /\ z.amount = q.amount /\ z.res = res
BY GoneFields DEF GoneWith, CallState

LEMMA GoneReplayedFields ==
  ASSUME NEW q \in CallState, NEW pc \in Steps, NEW i \in AnyId, NEW b \in BOOLEAN
  PROVE  LET z == GoneReplayed(q, pc, i, b)
         IN  /\ z \in CallState /\ z.pc = pc /\ z.op = q.op /\ z.key = q.key
             /\ z.id = i /\ z.amount = q.amount /\ z.replayed = b
<1> DEFINE y == GoneWithId(q, pc, i)
<1>1. /\ y \in CallState /\ y.pc = pc /\ y.op = q.op /\ y.key = q.key
      /\ y.id = i /\ y.amount = q.amount
  BY GoneFields DEF GoneWithId, CallState
<1> HIDE DEF y
<1>2. GoneReplayed(q, pc, i, b) = [y EXCEPT !.replayed = b]
  BY DEF GoneReplayed, y
<1> QED
  BY <1>1, <1>2 DEF CallState

\* Setting fields of one call one after the other sets the call.
LEMMA SetTwice ==
  ASSUME NEW f, f = [d \in Callers |-> f[d]], NEW c \in Callers, NEW p, NEW q
  PROVE  [[f EXCEPT ![c] = p] EXCEPT ![c] = q] = [f EXCEPT ![c] = q]
OBVIOUS

SetTo(c, pc, to) == [call EXCEPT ![c].pc = pc, ![c].to = to]
SetWith(c, pc, res) == [call EXCEPT ![c].pc = pc, ![c].res = res]
SetReplayed(c, pc, i, b) == [call EXCEPT ![c].pc = pc, ![c].id = i, ![c].replayed = b]

LEMMA GoSets ==
  ASSUME Types, NEW c \in Callers, NEW pc
  PROVE  LET f == [call EXCEPT ![c].pc = pc]
         IN  /\ f = [call EXCEPT ![c] = Gone(call[c], pc)]
             /\ f[c] = Gone(call[c], pc) /\ f = [d \in Callers |-> f[d]]
             /\ call = [d \in Callers |-> call[d]]
BY DEF Types, Gone

LEMMA SetToSets ==
  ASSUME Types, NEW c \in Callers, NEW pc, NEW to
  PROVE  SetTo(c, pc, to) = [call EXCEPT ![c] = GoneTo(call[c], pc, to)]
<1> DEFINE f == [call EXCEPT ![c].pc = pc]
<1>1. SetTo(c, pc, to) = [f EXCEPT ![c].to = to]
  BY Zenon DEF SetTo
<1>2. /\ f = [call EXCEPT ![c] = Gone(call[c], pc)] /\ f[c] = Gone(call[c], pc)
      /\ call = [d \in Callers |-> call[d]]
  BY GoSets
<1> HIDE DEF f
<1>3. SetTo(c, pc, to) = [f EXCEPT ![c] = GoneTo(call[c], pc, to)]
  BY <1>1, <1>2 DEF GoneTo
<1> QED
  BY <1>2, <1>3, SetTwice

LEMMA SetWithSets ==
  ASSUME Types, NEW c \in Callers, NEW pc, NEW res
  PROVE  SetWith(c, pc, res) = [call EXCEPT ![c] = GoneWith(call[c], pc, res)]
<1> DEFINE f == [call EXCEPT ![c].pc = pc]
<1>1. SetWith(c, pc, res) = [f EXCEPT ![c].res = res]
  BY Zenon DEF SetWith
<1>2. /\ f = [call EXCEPT ![c] = Gone(call[c], pc)] /\ f[c] = Gone(call[c], pc)
      /\ call = [d \in Callers |-> call[d]]
  BY GoSets
<1> HIDE DEF f
<1>3. SetWith(c, pc, res) = [f EXCEPT ![c] = GoneWith(call[c], pc, res)]
  BY <1>1, <1>2 DEF GoneWith
<1> QED
  BY <1>2, <1>3, SetTwice

LEMMA SetReplayedSets ==
  ASSUME Types, NEW c \in Callers, NEW pc, NEW i, NEW b
  PROVE  SetReplayed(c, pc, i, b) = [call EXCEPT ![c] = GoneReplayed(call[c], pc, i, b)]
<1> DEFINE f == [call EXCEPT ![c].pc = pc]
           g == [f EXCEPT ![c].id = i]
<1>1. SetReplayed(c, pc, i, b) = [g EXCEPT ![c].replayed = b]
  BY Zenon DEF SetReplayed
<1>2. /\ f = [call EXCEPT ![c] = Gone(call[c], pc)] /\ f[c] = Gone(call[c], pc)
      /\ call = [d \in Callers |-> call[d]]
  BY GoSets
<1> HIDE DEF f
<1>3. g = [f EXCEPT ![c] = GoneWithId(call[c], pc, i)]
  BY <1>2 DEF GoneWithId
<1>4. g = [call EXCEPT ![c] = GoneWithId(call[c], pc, i)]
  BY <1>2, <1>3, SetTwice
<1>5. g[c] = GoneWithId(call[c], pc, i)
  BY <1>2, <1>4
<1> HIDE DEF g
<1>6. SetReplayed(c, pc, i, b) = [g EXCEPT ![c] = GoneReplayed(call[c], pc, i, b)]
  BY <1>1, <1>5 DEF GoneReplayed
<1> QED
  BY <1>2, <1>4, <1>6, SetTwice

\* The first state of a call.
Started(op, key, i, amount, pc) ==
  [Idle EXCEPT !.op = op, !.key = key, !.id = i, !.amount = amount, !.to = amount, !.pc = pc]

LEMMA StartedFields ==
  ASSUME NEW op \in AnyOp, NEW key \in AnyKey, NEW i \in AnyId, NEW a \in Yen, NEW pc \in Steps
  PROVE  LET z == Started(op, key, i, a, pc)
         IN  /\ z \in CallState /\ z.op = op /\ z.key = key /\ z.id = i
             /\ z.amount = a /\ z.to = a /\ z.pc = pc
<1> DEFINE p1 == [Idle EXCEPT !.op = op]
           p2 == [p1 EXCEPT !.key = key]
           p3 == [p2 EXCEPT !.id = i]
           p4 == [p3 EXCEPT !.amount = a]
           p5 == [p4 EXCEPT !.to = a]
           p6 == [p5 EXCEPT !.pc = pc]
<1>1. p6 = Started(op, key, i, a, pc)
  BY Zenon DEF Started
<1>2. Idle \in CallState
  BY FincodeAssumption
     DEF Idle, Full, CallState, Steps, AnyOp, PayOps, AnyKey, AnyId, Yen, Results
<1> USE DEF CallState
<1>3. p1 \in CallState /\ p1.op = op
  BY <1>2
<1> HIDE DEF p1
<1>4. p2 \in CallState /\ p2.op = op /\ p2.key = key
  BY <1>3
<1> HIDE DEF p2
<1>5. p3 \in CallState /\ p3.op = op /\ p3.key = key /\ p3.id = i
  BY <1>4
<1> HIDE DEF p3
<1>6. p4 \in CallState /\ p4.op = op /\ p4.key = key /\ p4.id = i /\ p4.amount = a
  BY <1>5
<1> HIDE DEF p4
<1>7. p5 \in CallState /\ p5.op = op /\ p5.key = key /\ p5.id = i /\ p5.amount = a
      /\ p5.to = a
  BY <1>6
<1> HIDE DEF p5
<1>8. p6 \in CallState /\ p6.op = op /\ p6.key = key /\ p6.id = i /\ p6.amount = a
      /\ p6.to = a /\ p6.pc = pc
  BY <1>7
<1> HIDE DEF p6
<1> QED
  BY <1>1, <1>8

\* A key keeps the operation it was used for.
LEMMA BindKeeps ==
  ASSUME Types, NEW key \in AnyKey, NEW op, NEW i, NEW a, Bind(op, key, i, a),
         UNCHANGED provider
  PROVE  /\ Onwards /\ bound' = [k \in Keys |-> bound'[k]]
         /\ key # NoKey => bound'[key] = Purpose(op, i, a)
<1>1. \A j \in OrderIds : Grows(orders[j], orders'[j])
  BY DEF Grows, provider
<1>2. CASE key = NoKey
  BY <1>1, <1>2 DEF Bind, Onwards, Types
<1>3. CASE key # NoKey
  <2>1. /\ bound[key] = <<>> \/ bound[key] = Purpose(op, i, a)
        /\ bound' = [bound EXCEPT ![key] = Purpose(op, i, a)] /\ key \in Keys
    BY <1>3 DEF Bind, AnyKey
  <2> QED
    BY <1>1, <2>1 DEF Onwards, Types
<1> QED
  BY <1>2, <1>3

LEMMA PurposeSays ==
  ASSUME NEW op, NEW i, NEW a
  PROVE  /\ Purpose(op, i, a) # <<>>
         /\ op \in PayOps => Purpose(op, i, a)[1] \in PayOps
         /\ op \notin PayOps => Purpose(op, i, a)[1] = op /\ Purpose(op, i, a)[2] = i
BY DEF Purpose, PayOps

LEMMA StartInv ==
  ASSUME IInv, NEW c \in Callers, NEW op \in AnyOp, NEW key \in AnyKey, NEW i \in AnyId,
         NEW a \in Yen, NEW pc \in Steps, Start(c, op, key, i, a, pc),
         Onwards, bound' = [k \in Keys |-> bound'[k]], NEW q,
         q = Started(op, key, i, a, pc), Goes(q)', pc \notin {"idle", "done"}
  PROVE  IInv'
<1>1. q \in CallState /\ q.pc = pc
  BY StartedFields
<1>2. Fine(q)'
  BY <1>1 DEF Fine
<1>3. call' = [call EXCEPT ![c] = q] /\ UNCHANGED <<provider, perEndpoint, late, lost>>
      /\ calls < MaxCalls /\ calls' = calls + 1
  BY DEF Start, Started
<1>4. calls' \in 0..MaxCalls /\ lost' \in 0..MaxLosses
  BY <1>3, FincodeAssumption DEF IInv, Types
<1> QED
  BY <1>1, <1>2, <1>3, <1>4, ReadInv

LEMMA ChargeInv == ASSUME IInv, NEW c \in Callers, Charge(c) PROVE IInv'
<1>1. PICK op \in PayOps, key \in Keys \cup {NoKey}, a \in Amounts :
        Bind(op, key, NoKey, a) /\ Start(c, op, key, deriveOrderID(key), a, "register")
  BY DEF Charge
<1>2. op \in AnyOp /\ key \in AnyKey /\ key \in AnyId /\ a \in Yen /\ "register" \in Steps
  BY FincodeAssumption DEF AnyOp, AnyKey, AnyId, OrderIds, Amounts, Yen, Steps
<1>3. Start(c, op, key, key, a, "register")
  BY <1>1 DEF deriveOrderID
<1>4. /\ Onwards /\ bound' = [k \in Keys |-> bound'[k]]
      /\ key # NoKey => bound'[key] = Purpose(op, NoKey, a)
  BY <1>1, <1>2, <1>3, BindKeeps DEF IInv, Start
<1>5. PICK q : q = Started(op, key, key, a, "register")
  OBVIOUS
<1>6. q.op = op /\ q.key = key /\ q.id = key /\ q.pc = "register"
  BY <1>2, <1>5, StartedFields
<1>7. Goes(q)'
  BY <1>4, <1>6, PurposeSays DEF Goes
<1> QED
  BY <1>2, <1>3, <1>4, <1>5, <1>7, StartInv

LEMMA CompleteInv == ASSUME IInv, NEW c \in Callers, Complete(c) PROVE IInv'
<1>1. PICK op \in CompleteOps, i \in OrderIds :
        /\ orders[i].status # "ABSENT"
        /\ Start(c, op, NoKey, i, orders[i].held, "retrieve")
        /\ UNCHANGED bound
  BY DEF Complete
<1>2. PICK a \in Yen : a = orders[i].held
  BY DEF IInv, Types, Order, Yen
<1>3. op \in AnyOp /\ NoKey \in AnyKey /\ i \in AnyId /\ "retrieve" \in Steps
  BY DEF AnyOp, AnyKey, AnyId, Steps
<1>4. Onwards /\ bound' = [k \in Keys |-> bound'[k]] /\ orders' = orders
  BY <1>1 DEF IInv, Types, Onwards, Grows, Start, provider
<1>5. PICK q : q = Started(op, NoKey, i, a, "retrieve")
  OBVIOUS
<1>6. q.op = op /\ q.key = NoKey /\ q.id = i /\ q.pc = "retrieve"
  BY <1>3, <1>5, StartedFields
<1>7. Goes(q)'
  BY <1>1, <1>4, <1>6 DEF Goes, Registered
<1> QED
  BY <1>1, <1>2, <1>3, <1>4, <1>5, <1>7, StartInv

LEMMA LaterInv == ASSUME IInv, NEW c \in Callers, Later(c) PROVE IInv'
<1>1. PICK op \in LaterOps, key \in Keys \cup {NoKey}, i \in OrderIds :
        \E a \in IF op \in {"capture", "refund"} THEN Amounts \cup {Full} ELSE {Full} :
          orders[i].status # "ABSENT" /\ Bind(op, key, i, a) /\ Start(c, op, key, i, a, "retrieve")
  BY DEF Later
<1>2. PICK a \in Yen :
        /\ orders[i].status # "ABSENT"
        /\ Bind(op, key, i, a) /\ Start(c, op, key, i, a, "retrieve")
  BY <1>1, FincodeAssumption DEF Amounts, Full, Yen
<1>3. op \in AnyOp /\ key \in AnyKey /\ i \in AnyId /\ "retrieve" \in Steps
  BY FincodeAssumption DEF AnyOp, AnyKey, AnyId, Steps
<1>4. /\ Onwards /\ bound' = [k \in Keys |-> bound'[k]] /\ orders' = orders
      /\ key # NoKey => bound'[key] = Purpose(op, i, a)
  BY <1>2, <1>3, BindKeeps DEF IInv, Start, provider
<1>5. PICK q : q = Started(op, key, i, a, "retrieve")
  OBVIOUS
<1>6. /\ q.op = op /\ q.key = key /\ q.id = i /\ q.pc = "retrieve"
      /\ q.to = a /\ q.amount = a
  BY <1>3, <1>5, StartedFields
<1>7. op \notin PayOps
  BY DEF LaterOps, PayOps
<1>8. Goes(q)'
  BY <1>2, <1>3, <1>4, <1>6, <1>7, PurposeSays DEF Goes, Registered
<1> QED
  BY <1>2, <1>3, <1>4, <1>5, <1>8, StartInv

RequestWith(c, ep, k, t) == Request(c, ep, <<k, t>>)

\* The request r to the endpoint ep is one of the call q, with header <<k, t>>.
Asks(r, q, ep, k, t) ==
  /\ r \in HttpRequest /\ r.endpoint = ep /\ r.header[1] = k /\ r.header[2] = t
  /\ r.id = q.id /\ r.to = q.to /\ r.key = q.key

LEMMA RequestAsks ==
  ASSUME Types, NEW c \in Callers, NEW ep \in Endpoints,
         NEW k \in AnyKey, NEW t \in {"", "change", "capture"}
  PROVE  Asks(RequestWith(c, ep, k, t), call[c], ep, k, t)
<1>1. call[c] \in CallState
  BY DEF Types
<1>2. PICK h \in Header : h = <<k, t>>
  BY DEF Header
<1>3. h[1] = k /\ h[2] = t
  BY <1>2
<1>4. LET r == Request(c, ep, h)
      IN  /\ r \in HttpRequest /\ r.endpoint = ep /\ r.header = h
          /\ r.id = call[c].id /\ r.to = call[c].to /\ r.key = call[c].key
  BY <1>1 DEF Request, HttpRequest, CallState, Jobs
<1> QED
  BY <1>2, <1>3, <1>4 DEF RequestWith, Asks

\* The request of a registration, and of an execution.
RegisterCall(c, q, r) ==
  /\ q \in CallState /\ q = call[c] /\ q.op \in PayOps /\ q.pc = "register"
  /\ r = RequestWith(c, "register", q.key, "")

LEMMA RegisterProper ==
  ASSUME IInv, NEW c \in Callers, NEW q, NEW r, RegisterCall(c, q, r)
  PROVE  /\ r \in HttpRequest /\ Proper(r) /\ r.endpoint = "register"
         /\ r.id = q.id /\ r.key = q.key /\ r.to = q.to /\ r.header[1] = q.key
         /\ q.id = q.key
         /\ q.key # NoKey => bound[q.key] # <<>> /\ bound[q.key][1] \in PayOps
<1> USE DEF RegisterCall
<1>1. /\ q.id = q.key
      /\ q.key # NoKey => bound[q.key] # <<>> /\ bound[q.key][1] \in PayOps
  <2>1. Goes(q)
    BY DEF IInv, Ongoing, Fine
  <2> QED
    BY <2>1 DEF Goes, PayOps, CompleteOps, LaterOps
<1>2. /\ r \in HttpRequest /\ r.endpoint = "register" /\ r.id = q.id /\ r.key = q.key
      /\ r.to = q.to /\ r.header[1] = q.key /\ r.header[2] = ""
  <2>1. "register" \in Endpoints /\ Types /\ q.key \in AnyKey
    BY DEF Endpoints, IInv, CallState
  <2>2. Asks(r, q, "register", q.key, "")
    BY <2>1, RequestAsks
  <2> QED
    BY <2>2 DEF Asks
<1>3. Proper(r)
  <2>1. ASSUME q.key # NoKey PROVE Fits(r.endpoint, r.header, r.id)
    BY <1>1, <1>2, <2>1 DEF Fits
  <2> QED
    BY <1>1, <1>2, <2>1 DEF Proper
<1> QED
  BY <1>1, <1>2, <1>3

ExecuteCall(c, q, r) ==
  /\ q \in CallState /\ q = call[c] /\ q.op \in PayOps \cup CompleteOps /\ q.pc = "execute"
  /\ r = RequestWith(c, "execute", NoKey, "")

LEMMA ExecuteProper ==
  ASSUME IInv, NEW c \in Callers, NEW q, NEW r, ExecuteCall(c, q, r)
  PROVE  /\ r \in HttpRequest /\ Proper(r) /\ r.endpoint = "execute"
         /\ r.id = q.id /\ q.id \in OrderIds /\ r.header[1] = NoKey
         /\ Goes(q) /\ Registered(q.id)
<1> USE DEF ExecuteCall
<1>1. Goes(q)
  BY DEF IInv, Ongoing, Fine
<1>2. Registered(q.id) /\ q.id \in OrderIds
  BY <1>1 DEF Goes, PayOps, CompleteOps, LaterOps, Registered
<1>3. /\ r \in HttpRequest /\ r.endpoint = "execute" /\ r.header[1] = NoKey
      /\ r.id = q.id
  <2>1. "execute" \in Endpoints /\ NoKey \in AnyKey /\ Types
    BY DEF Endpoints, AnyKey, IInv
  <2>2. Asks(r, q, "execute", NoKey, "")
    BY <2>1, RequestAsks
  <2> QED
    BY <2>2 DEF Asks
<1>4. Proper(r)
  BY <1>2, <1>3 DEF Proper
<1> QED
  BY <1>1, <1>2, <1>3, <1>4

\* What becomes of a registration: b tells whether its answer is a replay.
Registers(c, q, r, b) ==
  /\ \/ \E x \in Outcomes(r) :
          /\ Serve(r, x)
          /\ IF x.ans = Rejected
             THEN IF q.key = NoKey THEN Return(c, "failed")
                  ELSE call' = [call EXCEPT ![c].pc = "resolve", ![c].res = "failed"]
             ELSE call' = [call EXCEPT ![c].pc = "execute", ![c].id = x.ans.id,
                                       ![c].replayed = b]
          /\ UNCHANGED <<late, lost>>
     \/ /\ lost < MaxLosses /\ lost' = lost + 1 /\ late' = late \cup {r}
        /\ IF q.key = NoKey THEN Return(c, "retryable")
           ELSE call' = [call EXCEPT ![c].pc = "resolve", ![c].res = "retryable"]
        /\ UNCHANGED provider
  /\ UNCHANGED <<perEndpoint, bound, calls>>

LEMMA RegisterShape ==
  ASSUME NEW c \in Callers, Register(c), NEW q, NEW r, RegisterCall(c, q, r),
         NEW b, b = (Cached(r) # {})
  PROVE  Registers(c, q, r, b)
BY DEF Register, Send, NoAnswer, deriveOrderID, RequestWith, RegisterCall, Registers

LEMMA RegisterInv == ASSUME IInv, NEW c \in Callers, Register(c) PROVE IInv'
<1>1. PICK q \in CallState : q = call[c]
  BY DEF IInv, Types
<1>2. q.op \in PayOps /\ q.pc = "register"
  BY <1>1 DEF Register, At
<1>3. PICK r : r = RequestWith(c, "register", q.key, "")
  OBVIOUS
<1>4. RegisterCall(c, q, r)
  BY <1>1, <1>2, <1>3 DEF RegisterCall
<1>5. /\ r \in HttpRequest /\ Proper(r) /\ q.id = q.key
      /\ q.key # NoKey => bound[q.key] # <<>> /\ bound[q.key][1] \in PayOps
  BY <1>4, RegisterProper
<1>7. PICK b \in BOOLEAN : b = (Cached(r) # {})
  OBVIOUS
<1>8. Registers(c, q, r, b)
  BY <1>4, <1>7, RegisterShape
<1>9. UNCHANGED <<perEndpoint, bound, calls>>
  BY <1>8 DEF Registers
<1>10. ASSUME NEW err \in {"failed", "retryable"},
             IF q.key = NoKey THEN Return(c, err)
             ELSE call' = [call EXCEPT ![c].pc = "resolve", ![c].res = err]
      PROVE  \E z \in CallState : Fine(z) /\ call' = [call EXCEPT ![c] = z]
  <2>1. err \in Results /\ err # "ok" /\ "resolve" \in Steps
    BY DEF Results, Steps
  <2>2. CASE q.key = NoKey
    <3>1. call' = [call EXCEPT ![c] = Returned(q, err)]
      BY <1>1, <1>10, <2>2 DEF Return, Returned
    <3> QED
      BY <2>1, <3>1, ReturnedFields, ReturnedFine
  <2>3. CASE q.key # NoKey
    <3>1. call' = [call EXCEPT ![c] = GoneWith(q, "resolve", err)]
      <4>1. call' = SetWith(c, "resolve", err)
        BY <1>10, <2>3, Zenon DEF SetWith
      <4> QED
        BY <1>1, <4>1, SetWithSets DEF IInv
    <3>2. Fine(GoneWith(q, "resolve", err))
      BY <1>2, <1>5, <2>1, <2>3, GoneWithFields DEF Fine, Goes
    <3> QED
      BY <2>1, <3>1, <3>2, GoneWithFields
  <2> QED
    BY <2>2, <2>3
<1>11. ASSUME NEW x \in Outcomes(r), Serve(r, x), UNCHANGED <<late, lost>>, x.ans # Rejected,
              call' = [call EXCEPT ![c].pc = "execute", ![c].id = x.ans.id, ![c].replayed = b]
       PROVE  IInv'
  <2>1. Onwards /\ x.ans.id \in OrderIds /\ Tells(r, x.ans.id)'
    BY <1>5, <1>9, <1>11, ServeInv DEF IInv
  <2>2. PICK i \in OrderIds : i = x.ans.id
    BY <2>1
  <2>3. PICK z : z = GoneReplayed(q, "execute", i, b)
    OBVIOUS
  <2>4. /\ z \in CallState /\ z.pc = "execute" /\ z.op = q.op /\ z.key = q.key /\ z.id = i
    <3>1. i \in AnyId /\ "execute" \in Steps
      BY DEF AnyId, Steps
    <3> QED
      BY <2>3, <3>1, GoneReplayedFields
  <2>5. call' = [call EXCEPT ![c] = z]
    <3>1. call' = SetReplayed(c, "execute", i, b)
      BY <1>11, <2>2, Zenon DEF SetReplayed
    <3> QED
      BY <1>1, <2>3, <3>1, SetReplayedSets DEF IInv
  <2>6. Registered(i)'
    BY <2>1, <2>2 DEF Tells, Happened, Registered
  <2>7. Fine(z)'
    <3>1. q.key # NoKey => bound'[q.key] # <<>> /\ bound'[q.key][1] \in PayOps
      BY <1>5, <1>9
    <3> QED
      BY <1>2, <2>4, <2>6, <3>1 DEF Fine, Goes
  <2> QED
    BY <1>5, <1>9, <1>11, <2>4, <2>5, <2>7, AnswerInv
<1>12. ASSUME NEW x \in Outcomes(r), Serve(r, x), UNCHANGED <<late, lost>>,
              NEW z \in CallState, Fine(z), call' = [call EXCEPT ![c] = z]
       PROVE  IInv'
  <2>1. Onwards
    BY <1>5, <1>9, <1>12, ServeInv DEF IInv
  <2>2. Fine(z)'
    BY <1>12, <2>1, FineStays
  <2> QED
    BY <1>5, <1>9, <1>12, <2>2, AnswerInv
<1>13. ASSUME lost < MaxLosses, lost' = lost + 1, late' = late \cup {r}, UNCHANGED provider,
              NEW z \in CallState, Fine(z), call' = [call EXCEPT ![c] = z]
       PROVE  IInv'
  BY <1>5, <1>9, <1>13, GiveUpInv
<1>14. CASE \E x \in Outcomes(r) :
              /\ Serve(r, x)
              /\ IF x.ans = Rejected
                 THEN IF q.key = NoKey THEN Return(c, "failed")
                      ELSE call' = [call EXCEPT ![c].pc = "resolve", ![c].res = "failed"]
                 ELSE call' = [call EXCEPT ![c].pc = "execute", ![c].id = x.ans.id,
                                           ![c].replayed = b]
              /\ UNCHANGED <<late, lost>>
  BY <1>10, <1>11, <1>12, <1>14
<1>15. CASE /\ lost < MaxLosses /\ lost' = lost + 1 /\ late' = late \cup {r}
            /\ IF q.key = NoKey THEN Return(c, "retryable")
               ELSE call' = [call EXCEPT ![c].pc = "resolve", ![c].res = "retryable"]
            /\ UNCHANGED provider
  BY <1>10, <1>13, <1>15
<1> QED
  BY <1>8, <1>14, <1>15 DEF Registers

LEMMA ExecuteInv == ASSUME IInv, NEW c \in Callers, Execute(c) PROVE IInv'
<1>1. PICK q \in CallState : q = call[c]
  BY DEF IInv, Types
<1>2. q.op \in PayOps \cup CompleteOps /\ q.pc = "execute"
  BY <1>1 DEF Execute, At
<1>3. PICK r : r = RequestWith(c, "execute", NoKey, "")
  OBVIOUS
<1>4. ExecuteCall(c, q, r)
  BY <1>1, <1>2, <1>3 DEF ExecuteCall
<1>5. /\ r \in HttpRequest /\ Proper(r) /\ r.endpoint = "execute"
      /\ r.id = q.id /\ q.id \in OrderIds /\ r.header[1] = NoKey
      /\ Goes(q) /\ Registered(q.id)
  BY <1>4, ExecuteProper
<1>6. ASSUME NEW err \in {"failed", "retryable"}
      PROVE  \E z \in CallState : /\ Fine(z)
                                  /\ z = IF q.op \in PayOps THEN Gone(q, "confirm")
                                         ELSE Returned(q, err)
  <2>1. err \in Results /\ err # "ok" /\ "confirm" \in Steps
    BY DEF Results, Steps
  <2>2. CASE q.op \in PayOps
    BY <1>2, <1>5, <2>1, <2>2, GoneFields
       DEF Fine, Goes, PayOps, CompleteOps, LaterOps
  <2>3. CASE q.op \notin PayOps
    BY <2>1, <2>3, ReturnedFields, ReturnedFine
  <2> QED
    BY <2>2, <2>3
<1>7. PICK no \in CallState : Fine(no) /\ no = IF q.op \in PayOps THEN Gone(q, "confirm")
                                               ELSE Returned(q, "failed")
  BY <1>6
<1>8. PICK retry \in CallState :
         Fine(retry) /\ retry = IF q.op \in PayOps THEN Gone(q, "confirm")
                                ELSE Returned(q, "retryable")
  BY <1>6
<1>9. PICK yes \in CallState : /\ yes = Returned(q, "ok") /\ yes.pc = "done"
                                /\ yes.op = q.op /\ yes.id = q.id
  BY ReturnedFields DEF Results
<1>10. Tells(r, r.id)' => Fine(yes)'
  BY <1>2, <1>5, <1>9 DEF Tells, Fine, Stands, PayOps, CompleteOps
<1>11. Sends(c, r, yes, no, retry)
  <2>1. \A pc : [call EXCEPT ![c].pc = pc] = [call EXCEPT ![c] = Gone(q, pc)]
    BY <1>1, GoSets DEF IInv
  <2>2. \A pc : Go(c, pc) => call' = [call EXCEPT ![c] = Gone(q, pc)]
    BY <2>1, Zenon DEF Go
  <2>3. \A res : Return(c, res) => call' = [call EXCEPT ![c] = Returned(q, res)]
    BY <1>1, Zenon DEF Return, Returned
  <2>4. /\ \/ \E x \in Outcomes(r) :
                /\ Serve(r, x)
                /\ IF x.ans = Rejected
                   THEN IF q.op \in PayOps THEN Go(c, "confirm") ELSE Return(c, "failed")
                   ELSE Return(c, "ok")
                /\ UNCHANGED <<late, lost>>
           \/ /\ lost < MaxLosses /\ lost' = lost + 1 /\ late' = late \cup {r}
              /\ IF q.op \in PayOps THEN Go(c, "confirm") ELSE Return(c, "retryable")
              /\ UNCHANGED provider
        /\ UNCHANGED <<perEndpoint, bound, calls>>
    BY <1>1, <1>3 DEF Execute, Send, NoAnswer, RequestWith
  <2> QED
    BY <2>2, <2>3, <2>4, <1>7, <1>8, <1>9 DEF Sends
<1> QED
  BY <1>5, <1>7, <1>8, <1>10, <1>11, SendInv

\* The call q of a later operation, with the request r of its step.
LaterCall(c, q, t, r) ==
  /\ q \in CallState /\ q = call[c] /\ q.op \in LaterOps
  /\ q.pc \in {"change", "capture", "cancel"}
  /\ t \in {"", "change", "capture"} /\ t = (IF q.op = "capture" THEN q.pc ELSE "")
  /\ r = RequestWith(c, q.pc, q.key, t)

LEMMA LaterProper ==
  ASSUME IInv, NEW c \in Callers, NEW q, NEW t, NEW r, LaterCall(c, q, t, r)
  PROVE  /\ Proper(r) /\ r \in HttpRequest /\ r.id = q.id /\ q.id \in OrderIds
         /\ r.endpoint = q.pc /\ r.header[1] = q.key
         /\ q.key # NoKey => bound[q.key][1] = q.op
         /\ q.op = "capture" => q.pc \in {"change", "capture"}
         /\ q.op \in {"void", "cancel"} => q.pc = "cancel"
         /\ q.op = "refund" => q.pc \in {"cancel", "change"}
<1> USE DEF LaterCall
<1>1. Goes(q)
  BY DEF IInv, Ongoing, Fine
<1>2. /\ Registered(q.id)
      /\ q.key # NoKey =>
           bound[q.key] # <<>> /\ bound[q.key][1] = q.op /\ bound[q.key][2] = q.id
      /\ \/ q.op = "capture" /\ q.pc = "change" /\ q.to < orders[q.id].held
         \/ q.op = "capture" /\ q.pc = "capture"
         \/ q.op \in {"void", "cancel", "refund"} /\ q.pc = "cancel"
         \/ q.op = "refund" /\ q.pc = "change" /\ q.to < orders[q.id].held
  BY <1>1 DEF Goes, PayOps, CompleteOps, LaterOps
<1>3. q.key \in AnyKey /\ q.pc \in Endpoints /\ Types
  BY DEF CallState, Endpoints, IInv
<1>4. Asks(r, q, q.pc, q.key, t)
  BY <1>3, RequestAsks
<1>5. /\ r \in HttpRequest /\ r.endpoint = q.pc /\ r.header[1] = q.key /\ r.header[2] = t
      /\ r.id = q.id /\ r.to = q.to
  BY <1>4 DEF Asks
<1>6. r.header[1] # NoKey => Fits(r.endpoint, r.header, r.id)
  BY <1>2, <1>5 DEF Fits
<1>7. Proper(r)
  BY <1>2, <1>5, <1>6 DEF Proper
<1> QED
  BY <1>2, <1>5, <1>7 DEF Registered

\* It ends with an answer, or fails.
LEMMA LaterEndInv ==
  ASSUME IInv, NEW c \in Callers, NEW q, NEW t, NEW r, LaterCall(c, q, t, r),
         ~ (q.op = "capture" /\ q.pc = "change"),
         Sends(c, r, Returned(q, "ok"), Returned(q, "failed"), Returned(q, "retryable"))
  PROVE  IInv'
<1>1. /\ Proper(r) /\ r \in HttpRequest /\ r.id = q.id /\ q.id \in OrderIds
      /\ r.endpoint = q.pc /\ r.header[1] = q.key
      /\ q.key # NoKey => bound[q.key][1] = q.op
      /\ q.op = "capture" => q.pc \in {"change", "capture"}
      /\ q.op \in {"void", "cancel"} => q.pc = "cancel"
      /\ q.op = "refund" => q.pc \in {"cancel", "change"}
  BY LaterProper
<1>2. "ok" \in Results /\ "failed" \in Results /\ "retryable" \in Results /\ q \in CallState
  BY DEF Results, LaterCall
<1>3. PICK yes \in CallState : /\ yes = Returned(q, "ok") /\ yes.pc = "done"
                               /\ yes.op = q.op /\ yes.id = q.id
  BY <1>2, ReturnedFields
<1>4. PICK no \in CallState : no = Returned(q, "failed") /\ Fine(no)
  BY <1>2, ReturnedFields, ReturnedFine
<1>5. PICK retry \in CallState : retry = Returned(q, "retryable") /\ Fine(retry)
  BY <1>2, ReturnedFields, ReturnedFine
<1>6. Sends(c, r, yes, no, retry)
  BY <1>3, <1>4, <1>5
<1>7. ASSUME Tells(r, r.id)' PROVE Fine(yes)'
  <2>1. bound' = bound
    BY DEF Sends
  <2>2. \/ Happened(q.pc, q.id)'
        \/ q.op = "refund" /\ (Happened("cancel", q.id)' \/ Happened("change", q.id)')
    BY <1>1, <1>7, <2>1 DEF Tells
  <2>3. Stands(yes)'
    BY <1>1, <1>3, <2>2 DEF Stands, LaterOps, PayOps, CompleteOps, LaterCall
  <2> QED
    BY <1>3, <2>3 DEF Fine
<1> QED
  BY <1>1, <1>4, <1>5, <1>6, <1>7, SendInv

LEMMA ReturnIs ==
  ASSUME NEW c \in Callers, NEW q, q = call[c], NEW res, Return(c, res)
  PROVE  call' = [call EXCEPT ![c] = Returned(q, res)]
BY Zenon DEF Return, Returned

LEMMA GoIs ==
  ASSUME Types, NEW c \in Callers, NEW q, q = call[c], NEW pc, Go(c, pc)
  PROVE  call' = [call EXCEPT ![c] = Gone(q, pc)]
<1>1. [call EXCEPT ![c].pc = pc] = [call EXCEPT ![c] = Gone(q, pc)]
  BY GoSets
<1> QED
  BY <1>1, Zenon DEF Go

\* A request whose answer ends the call, refused or lost, fails it.
Ends(c, r) ==
  /\ \/ \E x \in Outcomes(r) :
          /\ Serve(r, x)
          /\ IF x.ans = Rejected THEN Return(c, "failed") ELSE Return(c, "ok")
          /\ UNCHANGED <<late, lost>>
     \/ /\ lost < MaxLosses /\ lost' = lost + 1 /\ late' = late \cup {r}
        /\ Return(c, "retryable")
        /\ UNCHANGED provider
  /\ UNCHANGED <<perEndpoint, bound, calls>>

LEMMA EndsSends ==
  ASSUME NEW c \in Callers, NEW q, q = call[c], NEW r, Ends(c, r)
  PROVE  Sends(c, r, Returned(q, "ok"), Returned(q, "failed"), Returned(q, "retryable"))
BY ReturnIs DEF Ends, Sends

LEMMA CapturePaymentInv == ASSUME IInv, NEW c \in Callers, CapturePayment(c) PROVE IInv'
<1>1. PICK q \in CallState : q = call[c]
  BY DEF IInv, Types
<1>2. PICK r : r = RequestWith(c, "capture", q.key, "capture")
  OBVIOUS
<1>3. q.op = "capture" /\ q.pc = "capture"
  BY <1>1 DEF CapturePayment, At
<1>4. Ends(c, r)
  BY <1>1, <1>2 DEF CapturePayment, Send, NoAnswer, Ends, RequestWith, deriveIdempotencyKey
<1>5. LaterCall(c, q, "capture", r)
  BY <1>1, <1>2, <1>3 DEF LaterCall, LaterOps
<1> QED
  BY <1>1, <1>3, <1>4, <1>5, EndsSends, LaterEndInv

LEMMA CancelOrChangeInv == ASSUME IInv, NEW c \in Callers, CancelOrChange(c) PROVE IInv'
<1>1. PICK q \in CallState : q = call[c]
  BY DEF IInv, Types
<1>2. PICK pc \in {"cancel", "change"} :
        /\ q.pc = pc /\ q.op \in {"void", "cancel", "refund"}
        /\ Ends(c, RequestWith(c, pc, q.key, ""))
  BY <1>1 DEF CancelOrChange, Send, NoAnswer, Ends, RequestWith, At
<1>3. PICK r : r = RequestWith(c, pc, q.key, "")
  OBVIOUS
<1>4. LaterCall(c, q, "", r)
  BY <1>1, <1>2, <1>3 DEF LaterCall, LaterOps
<1> QED
  BY <1>1, <1>2, <1>3, <1>4, EndsSends, LaterEndInv

LEMMA ChangeBeforeCaptureInv ==
  ASSUME IInv, NEW c \in Callers, ChangeBeforeCapture(c)
  PROVE  IInv'
<1>1. PICK q \in CallState : q = call[c]
  BY DEF IInv, Types
<1>2. PICK r : r = RequestWith(c, "change", q.key, "change")
  OBVIOUS
<1>3. q.op = "capture" /\ q.pc = "change"
  BY <1>1 DEF ChangeBeforeCapture, At
<1>4. /\ Proper(r) /\ r \in HttpRequest /\ r.id \in OrderIds
  <2>1. LaterCall(c, q, "change", r)
    BY <1>1, <1>2, <1>3 DEF LaterCall, LaterOps
  <2> QED
    BY <2>1, LaterProper
<1>5. "failed" \in Results /\ "retryable" \in Results /\ "capture" \in Steps
  BY DEF Results, Steps
<1>6. PICK no \in CallState : no = Returned(q, "failed") /\ Fine(no)
  BY <1>5, ReturnedFields, ReturnedFine
<1>7. PICK retry \in CallState : retry = Returned(q, "retryable") /\ Fine(retry)
  BY <1>5, ReturnedFields, ReturnedFine
<1>8. PICK yes \in CallState : yes = Gone(q, "capture") /\ Fine(yes)
  <2>1. Goes(q)
    BY <1>1, <1>3 DEF IInv, Ongoing, Fine
  <2>2. Fine(Gone(q, "capture"))
    BY <1>3, <1>5, <2>1, GoneFields DEF Fine, Goes, PayOps, CompleteOps, LaterOps
  <2> QED
    BY <1>5, <2>2, GoneFields
<1>9. Sends(c, r, yes, no, retry)
  <2>1. /\ \/ \E x \in Outcomes(r) :
                /\ Serve(r, x)
                /\ IF x.ans = Rejected THEN Return(c, "failed") ELSE Go(c, "capture")
                /\ UNCHANGED <<late, lost>>
           \/ /\ lost < MaxLosses /\ lost' = lost + 1 /\ late' = late \cup {r}
              /\ Return(c, "retryable")
              /\ UNCHANGED provider
        /\ UNCHANGED <<perEndpoint, bound, calls>>
    BY <1>1, <1>2 DEF ChangeBeforeCapture, Send, NoAnswer, RequestWith, deriveIdempotencyKey
  <2>2. Types
    BY DEF IInv
  <2> QED
    BY <1>1, <1>6, <1>7, <1>8, <2>1, <2>2, ReturnIs, GoIs DEF Sends
<1> QED
  BY <1>4, <1>6, <1>7, <1>8, <1>9, SendInv

\* A caller has looked an order up, or tried.
Looks ==
  /\ \/ UNCHANGED lost
     \/ lost < MaxLosses /\ lost' = lost + 1
  /\ UNCHANGED <<orders, cache, taken, perEndpoint, late, bound, calls>>

LEMMA LooksInv ==
  ASSUME IInv, NEW c \in Callers, NEW z \in CallState, Fine(z),
         call' = [call EXCEPT ![c] = z], Looks
  PROVE  IInv'
<1>1. Onwards
  BY DEF Looks, Onwards, Grows
<1>2. Fine(z)'
  BY <1>1, FineStays
<1>3. /\ bound' = [k \in Keys |-> bound'[k]] /\ calls' \in 0..MaxCalls
      /\ lost' \in 0..MaxLosses
  BY FincodeAssumption DEF Looks, IInv, Types
<1>4. UNCHANGED <<provider, perEndpoint, late>>
  BY DEF Looks, provider
<1> QED
  BY <1>1, <1>2, <1>3, <1>4, ReadInv

LEMMA LooksReturns ==
  ASSUME IInv, NEW c \in Callers, NEW q \in CallState, q = call[c], NEW res \in Results,
         Return(c, res), Looks,
         res = "ok" => q.op \in PayOps \cup CompleteOps /\ Happened("execute", q.id)
  PROVE  IInv'
<1>1. PICK z \in CallState : /\ z = Returned(q, res) /\ z.pc = "done" /\ z.res = res
                             /\ z.op = q.op /\ z.id = q.id
  BY ReturnedFields
<1>2. Fine(z)
  BY <1>1 DEF Fine, Stands, PayOps, CompleteOps
<1>3. call' = [call EXCEPT ![c] = z]
  BY <1>1, ReturnIs
<1> QED
  BY <1>2, <1>3, LooksInv

LEMMA LooksGoes ==
  ASSUME IInv, NEW c \in Callers, NEW q \in CallState, q = call[c], NEW pc \in Steps,
         Go(c, pc), Looks, Fine(Gone(q, pc))
  PROVE  IInv'
<1>1. call' = [call EXCEPT ![c] = Gone(q, pc)]
  BY GoIs DEF IInv
<1> QED
  BY <1>1, GoneFields, LooksInv

\* An order in the state its execution leaves it in was executed.
LEMMA SuccessHappened ==
  ASSUME IInv, NEW i \in OrderIds, NEW job, orders[i].status = successStatus(job)
  PROVE  Happened("execute", i)
BY DEF IInv, Owned, Lives, Happened, Registered, successStatus

LEMMA ConfirmExecutedInv == ASSUME IInv, NEW c \in Callers, ConfirmExecuted(c) PROVE IInv'
<1>1. PICK q \in CallState : q = call[c]
  BY DEF IInv, Types
<1>2. q.op \in PayOps /\ q.pc = "confirm"
  BY <1>1 DEF ConfirmExecuted, At
<1>3. Goes(q)
  BY <1>1, <1>2 DEF IInv, Ongoing, Fine
<1>4. q.id \in OrderIds
  BY <1>2, <1>3 DEF Goes, PayOps, CompleteOps, LaterOps, Registered
<1>5. /\ Looks
      /\ \/ Return(c, "partial")
         \/ /\ orders[q.id].status = successStatus(JobOf(q.op))
            /\ Return(c, "ok")
  BY <1>1 DEF ConfirmExecuted, Retrieve, NoAnswer, Looks
<1>6. "ok" \in Results /\ "partial" \in Results
  BY DEF Results
<1>7. CASE Return(c, "partial")
  BY <1>1, <1>5, <1>6, <1>7, LooksReturns
<1>8. CASE orders[q.id].status = successStatus(JobOf(q.op)) /\ Return(c, "ok")
  <2>1. Happened("execute", q.id)
    BY <1>4, <1>8, SuccessHappened
  <2> QED
    BY <1>1, <1>2, <1>5, <1>6, <1>8, <2>1, LooksReturns
<1> QED
  BY <1>5, <1>7, <1>8

LEMMA ResolveInv == ASSUME IInv, NEW c \in Callers, resolveExistingOrder(c) PROVE IInv'
<1>1. PICK q \in CallState : q = call[c]
  BY DEF IInv, Types
<1>2. q.op \in PayOps /\ q.pc = "resolve"
  BY <1>1 DEF resolveExistingOrder, At
<1>3. Goes(q)
  BY <1>1, <1>2 DEF IInv, Ongoing, Fine
<1>4. q.id \in OrderIds /\ q.res # "ok"
  BY <1>2, <1>3 DEF Goes, PayOps, CompleteOps, LaterOps, OrderIds, CallState, AnyKey
<1>5. /\ Looks
      /\ \/ Return(c, Resolved(q, orders[q.id]))
         \/ Return(c, q.res)
         \/ Return(c, "retryable")
  BY <1>1 DEF resolveExistingOrder, Retrieve, NoAnswer, Looks
<1>6. PICK res : res = Resolved(q, orders[q.id])
  OBVIOUS
<1>7. /\ res \in {"failed", "ok", "partial", q.res}
      /\ res = "ok" => orders[q.id].status = successStatus(JobOf(q.op))
  BY <1>4, <1>6 DEF Resolved
<1>8. {res, q.res, "retryable"} \subseteq Results
  BY <1>7 DEF Results, CallState
<1>9. res = "ok" => Happened("execute", q.id)
  BY <1>4, <1>7, SuccessHappened
<1>10. CASE Return(c, res)
  <2>1. res \in Results
    BY <1>8
  <2> QED
    BY <1>1, <1>2, <1>5, <1>9, <1>10, <2>1, LooksReturns
<1>11. CASE Return(c, q.res)
  <2>1. q.res \in Results
    BY <1>8
  <2> QED
    BY <1>1, <1>4, <1>5, <1>11, <2>1, LooksReturns
<1>12. CASE Return(c, "retryable")
  <2>1. "retryable" \in Results
    BY <1>8
  <2> QED
    BY <1>1, <1>5, <1>12, <2>1, LooksReturns
<1> QED
  BY <1>5, <1>6, <1>10, <1>11, <1>12

LEMMA CompleteRetrievedInv ==
  ASSUME IInv, NEW c \in Callers, CompleteRetrieved(c)
  PROVE  IInv'
<1>1. PICK q \in CallState : q = call[c]
  BY DEF IInv, Types
<1>2. q.op \in CompleteOps /\ q.pc = "retrieve"
  BY <1>1 DEF CompleteRetrieved, At
<1>3. Goes(q)
  BY <1>1, <1>2 DEF IInv, Ongoing, Fine
<1>4. q.id \in OrderIds
  BY <1>2, <1>3 DEF Goes, PayOps, CompleteOps, LaterOps, Registered
<1>5. /\ Looks
      /\ \/ orders[q.id].status = successStatus(JobOf(q.op)) /\ Return(c, "ok")
         \/ Go(c, "execute")
         \/ \E err \in {"failed", "retryable"} : Return(c, err)
  BY <1>1 DEF CompleteRetrieved, Retrieve, NoAnswer, Looks
<1>6. CASE orders[q.id].status = successStatus(JobOf(q.op)) /\ Return(c, "ok")
  <2>1. Happened("execute", q.id) /\ "ok" \in Results
    BY <1>4, <1>6, SuccessHappened DEF Results
  <2> QED
    BY <1>1, <1>2, <1>5, <1>6, <2>1, LooksReturns
<1>7. CASE Go(c, "execute")
  <2>1. "execute" \in Steps
    BY DEF Steps
  <2>2. Fine(Gone(q, "execute"))
    BY <1>2, <1>3, <2>1, GoneFields DEF Fine, Goes, PayOps, CompleteOps, LaterOps
  <2> QED
    BY <1>1, <1>5, <1>7, <2>1, <2>2, LooksGoes
<1>8. ASSUME NEW err \in {"failed", "retryable"}, Return(c, err) PROVE IInv'
  <2>1. err \in Results /\ err # "ok"
    BY DEF Results
  <2> QED
    BY <1>1, <1>5, <1>8, <2>1, LooksReturns
<1> QED
  BY <1>5, <1>6, <1>7, <1>8

\* The retrieve that starts a later operation.
LEMMA LaterRetrieves ==
  ASSUME IInv, NEW c \in Callers, NEW q \in CallState, q = call[c], q.op \in LaterOps,
         q.pc = "retrieve"
  PROVE  /\ Goes(q) /\ q.id \in OrderIds /\ q.to = q.amount
         /\ Registered(q.id)
         /\ q.key # NoKey =>
              bound[q.key] # <<>> /\ bound[q.key][1] = q.op /\ bound[q.key][2] = q.id
<1>1. Goes(q)
  BY DEF IInv, Ongoing, Fine
<1> QED
  BY <1>1 DEF Goes, PayOps, CompleteOps, LaterOps, Registered

LEMMA LooksFails ==
  ASSUME IInv, NEW c \in Callers, Looks,
         \E err \in {"failed", "retryable", "invalid"} : Return(c, err)
  PROVE  IInv'
<1>1. PICK err \in {"failed", "retryable", "invalid"} : Return(c, err)
  OBVIOUS
<1>2. PICK q \in CallState : q = call[c]
  BY DEF IInv, Types
<1>3. err \in Results /\ err # "ok"
  BY DEF Results
<1> QED
  BY <1>1, <1>2, <1>3, LooksReturns

LEMMA CaptureRetrievedInv ==
  ASSUME IInv, NEW c \in Callers, CaptureRetrieved(c)
  PROVE  IInv'
<1>1. PICK q \in CallState : q = call[c]
  BY DEF IInv, Types
<1>2. q.op = "capture" /\ q.pc = "retrieve" /\ q.op \in LaterOps
  BY <1>1 DEF CaptureRetrieved, At, LaterOps
<1>3. /\ q.id \in OrderIds /\ q.to = q.amount
      /\ Registered(q.id)
      /\ q.key # NoKey =>
           bound[q.key] # <<>> /\ bound[q.key][1] = q.op /\ bound[q.key][2] = q.id
  BY <1>1, <1>2, LaterRetrieves
<1>4. PICK plan : plan = CapturePlan(q, orders[q.id])
  OBVIOUS
<1>5. /\ Looks
      /\ \/ plan # "invalid" /\ Go(c, plan)
         \/ \E err \in {"failed", "retryable", "invalid"} : Return(c, err)
  BY <1>1, <1>4 DEF CaptureRetrieved, Retrieve, NoAnswer, Looks
<1>6. CASE plan # "invalid" /\ Go(c, plan)
  <2>1. orders[q.id].amount <= orders[q.id].held
    BY <1>3 DEF IInv, Owned, Lives
  <2>2. q.amount \in Nat /\ orders[q.id].amount \in Nat /\ orders[q.id].held \in Nat
    BY <1>3, FincodeAssumption DEF CallState, Yen, IInv, Types, Order
  <2>3. \/ plan = "capture"
        \/ plan = "change" /\ q.to < orders[q.id].held
    BY <1>3, <1>4, <1>6, <2>1, <2>2 DEF CapturePlan
  <2>4. plan \in Steps
    BY <2>3 DEF Steps
  <2>5. /\ Gone(q, plan).pc = plan /\ Gone(q, plan).op = q.op /\ Gone(q, plan).key = q.key
        /\ Gone(q, plan).id = q.id /\ Gone(q, plan).to = q.to
    BY <2>4, GoneFields
  <2>6. Goes(Gone(q, plan))
    BY <1>2, <1>3, <2>3, <2>5 DEF Goes
  <2>7. Fine(Gone(q, plan))
    BY <2>3, <2>5, <2>6 DEF Fine
  <2> QED
    BY <1>1, <1>5, <1>6, <2>4, <2>7, LooksGoes
<1> QED
  BY <1>5, <1>6, LooksFails

LEMMA CancelRetrievedInv ==
  ASSUME IInv, NEW c \in Callers, CancelRetrieved(c)
  PROVE  IInv'
<1>1. PICK q \in CallState : q = call[c]
  BY DEF IInv, Types
<1>2. q.op \in {"void", "cancel"} /\ q.pc = "retrieve" /\ q.op \in LaterOps
  BY <1>1 DEF CancelRetrieved, At, LaterOps
<1>3. /\ q.id \in OrderIds /\ q.to = q.amount
      /\ Registered(q.id)
      /\ q.key # NoKey =>
           bound[q.key] # <<>> /\ bound[q.key][1] = q.op /\ bound[q.key][2] = q.id
  BY <1>1, <1>2, LaterRetrieves
<1>4. /\ Looks
      /\ \/ Go(c, "cancel")
         \/ \E err \in {"failed", "retryable", "invalid"} : Return(c, err)
  BY <1>1 DEF CancelRetrieved, Retrieve, NoAnswer, Looks
<1>5. CASE Go(c, "cancel")
  <2>1. "cancel" \in Steps
    BY DEF Steps
  <2>2. Fine(Gone(q, "cancel"))
    BY <1>2, <1>3, <2>1, GoneFields DEF Fine, Goes
  <2> QED
    BY <1>1, <1>4, <1>5, <2>1, <2>2, LooksGoes
<1> QED
  BY <1>4, <1>5, LooksFails

LEMMA RefundRetrievedInv ==
  ASSUME IInv, NEW c \in Callers, RefundRetrieved(c)
  PROVE  IInv'
<1>1. PICK q \in CallState : q = call[c]
  BY DEF IInv, Types
<1>2. q.op = "refund" /\ q.pc = "retrieve" /\ q.op \in LaterOps
  BY <1>1 DEF RefundRetrieved, At, LaterOps
<1>3. /\ q.id \in OrderIds /\ q.to = q.amount
      /\ Registered(q.id)
      /\ q.key # NoKey =>
           bound[q.key] # <<>> /\ bound[q.key][1] = q.op /\ bound[q.key][2] = q.id
  BY <1>1, <1>2, LaterRetrieves
<1>4. PICK plan : plan = RefundPlan(q, orders[q.id])
  OBVIOUS
<1>5. PICK o \in Order : o = orders[q.id]
  BY <1>3 DEF IInv, Types
<1>6. /\ Looks
      /\ \/ plan = "cancel" /\ Go(c, "cancel")
         \/ plan = "change" /\ call' = SetTo(c, "change", o.amount - q.amount)
         \/ \E err \in {"failed", "retryable", "invalid"} : Return(c, err)
  <2>1. plan \in {"invalid", "cancel", "change"}
    BY <1>4 DEF RefundPlan
  <2> QED
    BY <1>1, <1>4, <1>5, <2>1 DEF RefundRetrieved, Retrieve, NoAnswer, Looks, SetTo
<1>7. CASE plan = "cancel" /\ Go(c, "cancel")
  <2>1. "cancel" \in Steps
    BY DEF Steps
  <2>2. Fine(Gone(q, "cancel"))
    BY <1>2, <1>3, <2>1, GoneFields DEF Fine, Goes
  <2> QED
    BY <1>1, <1>6, <1>7, <2>1, <2>2, LooksGoes
<1>8. CASE plan = "change" /\ call' = SetTo(c, "change", o.amount - q.amount)
  <2>1. o.amount <= o.held
    BY <1>3, <1>5 DEF IInv, Owned, Lives
  <2>2. q.amount \in 0..MaxAmount /\ o.amount \in 0..MaxAmount /\ o.held \in 0..MaxAmount
    BY <1>5 DEF CallState, Yen, Order
  <2>3. q.amount # 0 /\ q.amount < o.amount
    BY <1>4, <1>5, <1>8, <2>2, FincodeAssumption DEF RefundPlan, Full
  <2>4. PICK to \in Yen : to = o.amount - q.amount /\ to < o.held
    BY <2>1, <2>2, <2>3, FincodeAssumption DEF Yen
  <2>5. "change" \in Steps
    BY DEF Steps
  <2>6. PICK z \in CallState : /\ z = GoneTo(q, "change", to)
                               /\ z.pc = "change" /\ z.op = q.op /\ z.key = q.key
                               /\ z.id = q.id /\ z.to = to
    BY <2>5, GoneToFields
  <2>7. call' = [call EXCEPT ![c] = z]
    BY <1>1, <1>8, <2>4, <2>6, SetToSets DEF IInv
  <2>8. Fine(z)
    BY <1>2, <1>3, <1>5, <2>4, <2>6 DEF Fine, Goes
  <2> QED
    BY <1>6, <2>7, <2>8, LooksInv
<1> QED
  BY <1>6, <1>7, <1>8, LooksFails

-----------------------------------------------------------------------------
(***************************************************************************)
(* The steps of fincode alone, and the invariant                           *)
(***************************************************************************)
LEMMA ServeLateInv == ASSUME IInv, ServeLate PROVE IInv'
<1>1. PICK r \in late : \E x \in Outcomes(r) :
        /\ Serve(r, x)
        /\ late' = late \ {r}
        /\ UNCHANGED <<perEndpoint, call, bound, calls, lost>>
  BY DEF ServeLate
<1>2. PICK x \in Outcomes(r) :
        /\ Serve(r, x)
        /\ late' = late \ {r}
        /\ UNCHANGED <<perEndpoint, call, bound, calls, lost>>
  BY <1>1
<1>3. r \in HttpRequest /\ Proper(r)
  BY DEF IInv, Types, Sent
<1>4. /\ orders' \in [OrderIds -> Order] /\ cache' \subseteq Entry
      /\ taken' \in [Keys \cup {NoKey} -> Nat]
      /\ Owned' /\ Saved' /\ Onwards
  BY <1>2, <1>3, ServeInv DEF IInv
<1>5. Types'
  BY <1>2, <1>4 DEF IInv, Types
<1>6. Sent'
  BY <1>2, <1>4, ProperStays DEF IInv, Types, Sent
<1>7. Ongoing'
  <2> SUFFICES ASSUME NEW c \in Callers PROVE Fine(call[c])'
    BY DEF Ongoing
  <2>1. PICK q \in CallState : q = call[c]
    BY DEF IInv, Types
  <2>2. Fine(q)'
    BY <1>4, <2>1, FineStays DEF IInv, Ongoing
  <2>3. q = call'[c]
    BY <1>2, <2>1
  <2> QED
    BY <2>2, <2>3, FineCall
<1> QED
  BY <1>4, <1>5, <1>6, <1>7 DEF IInv

\* Answers are forgotten, or nothing happens.
LEMMA ForgetInv ==
  ASSUME IInv, cache' \subseteq cache,
         UNCHANGED <<orders, taken, perEndpoint, late, call, bound, calls, lost>>
  PROVE  IInv'
<1>1. Types' /\ Owned'
  BY DEF IInv, Types, Owned
<1>2. Sent'
  <2>1. ASSUME NEW r \in late PROVE Proper(r)'
    BY SameFacts DEF IInv, Sent, Proper
  <2> QED
    BY <2>1 DEF Sent
<1>3. Saved'
  BY SameSaved DEF IInv
<1>4. Ongoing'
  BY DEF IInv, Ongoing, Fine, Stands, Goes, Happened, Registered
<1> QED
  BY <1>1, <1>2, <1>3, <1>4 DEF IInv

LEMMA ExpireInv == ASSUME IInv, Expire PROVE IInv'
BY ForgetInv DEF Expire

LEMMA StutterInv == ASSUME IInv, UNCHANGED vars PROVE IInv'
BY ForgetInv DEF vars

LEMMA InitInv == Init => IInv
<1> SUFFICES ASSUME Init PROVE IInv
  OBVIOUS
<1>1. Absent \in Order /\ Lives(Absent) /\ Absent.key = NoKey
  BY FincodeAssumption DEF Absent, Order, Statuses, Jobs, Lives
<1>2. Idle \in CallState /\ Idle.pc = "idle"
  BY FincodeAssumption
     DEF Idle, Full, CallState, Steps, AnyOp, PayOps, AnyKey, AnyId, Yen, Results
<1>3. Types
  BY <1>1, <1>2, FincodeAssumption DEF Init, Types
<1>4. Owned /\ Sent /\ Saved
  BY <1>1 DEF Init, Owned, Sent, Saved
<1>5. Ongoing
  BY <1>2 DEF Init, Ongoing, Fine
<1> QED
  BY <1>3, <1>4, <1>5 DEF IInv

LEMMA NextInv == IInv /\ [Next]_vars => IInv'
<1> SUFFICES ASSUME IInv, [Next]_vars PROVE IInv'
  OBVIOUS
<1>1. ASSUME NEW c \in Callers,
             \/ Charge(c) \/ Complete(c) \/ Later(c)
             \/ Register(c) \/ Execute(c) \/ ConfirmExecuted(c) \/ resolveExistingOrder(c)
             \/ CompleteRetrieved(c) \/ CaptureRetrieved(c) \/ ChangeBeforeCapture(c)
             \/ CapturePayment(c) \/ CancelRetrieved(c) \/ RefundRetrieved(c)
             \/ CancelOrChange(c)
      PROVE  IInv'
  BY <1>1, ChargeInv, CompleteInv, LaterInv, RegisterInv, ExecuteInv, ConfirmExecutedInv,
     ResolveInv, CompleteRetrievedInv, CaptureRetrievedInv, ChangeBeforeCaptureInv,
     CapturePaymentInv, CancelRetrievedInv, RefundRetrievedInv, CancelOrChangeInv
<1> QED
  BY <1>1, ServeLateInv, ExpireInv, StutterInv DEF Next

LEMMA SpecInv == Spec => []IInv
BY InitInv, NextInv, PTL DEF Spec

-----------------------------------------------------------------------------
(***************************************************************************)
(* The properties                                                          *)
(***************************************************************************)
\* Every variable holds a value of its kind (gateway.go, client.go).
THEOREM TypeCorrect == Spec => []TypeOK
<1>1. IInv => TypeOK
  <2> SUFFICES ASSUME IInv PROVE TypeOK
    OBVIOUS
  <2>1. \A e \in cache : e.ans.id \in OrderIds /\ e.ans.status \in Statuses
    BY DEF IInv, Types, Entry, Reply
  <2>2. \A r \in late : r.id \in OrderIds \cup {NoKey}
    BY DEF IInv, Types, HttpRequest, AnyId
  <2>3. ASSUME NEW c \in Callers
        PROVE  /\ call[c].op \in PayOps \cup CompleteOps \cup LaterOps
               /\ call[c].id \in OrderIds \cup {NoKey} /\ call[c].to \in 0..MaxAmount
               /\ call[c].res \in Results
    BY DEF IInv, Types, CallState, AnyOp, AnyId, Yen
  <2> QED
    BY <2>1, <2>2, <2>3 DEF IInv, Types, TypeOK
<1> QED
  BY <1>1, SpecInv, PTL

\* One key bills the card for one order at most, for any callers, losses and
\* late requests: the order id is the key (deriveOrderID).
THEOREM OneCharge == Spec => []OneChargePerKey
<1>1. IInv => OneChargePerKey
  <2> SUFFICES ASSUME IInv, NEW k \in Keys
      PROVE  Cardinality({i \in OrderIds : orders[i].billed /\ orders[i].key = k}) <= 1
    BY DEF OneChargePerKey
  <2> DEFINE S == {i \in OrderIds : orders[i].billed /\ orders[i].key = k}
  <2>1. S \subseteq {k}
    BY FincodeAssumption DEF IInv, Owned
  <2>2. IsFiniteSet({k}) /\ Cardinality({k}) = 1
    BY FS_Singleton
  <2>3. Cardinality(S) <= Cardinality({k})
    BY <2>1, <2>2, FS_Subset
  <2> QED
    BY <2>2, <2>3
<1> QED
  BY <1>1, SpecInv, PTL

\* No capture or refund lifts a total above the amount the customer agreed to.
THEOREM NeverAbove == Spec => []NeverAboveHold
<1>1. IInv => NeverAboveHold
  BY DEF IInv, Owned, Lives, NeverAboveHold
<1> QED
  BY <1>1, SpecInv, PTL

\* What the port reports as done has happened at fincode, whether or not the
\* replay of an answer is scoped by endpoint.
THEOREM OkIsDone == Spec => []OkMeansDone
<1>1. IInv => OkMeansDone
  <2> SUFFICES ASSUME IInv, NEW c \in Callers, call[c].pc = "done", call[c].res = "ok"
      PROVE  /\ call[c].op \in PayOps \cup CompleteOps => orders[call[c].id].billed
             /\ call[c].op = "capture" => orders[call[c].id].captured
             /\ call[c].op \in {"void", "cancel"} =>
                  orders[call[c].id].status = "CANCELED"
             /\ call[c].op = "refund" =>
                  \/ orders[call[c].id].status = "CANCELED"
                  \/ orders[call[c].id].amount < orders[call[c].id].held
    BY DEF OkMeansDone, Done, At
  <2>1. Stands(call[c])
    BY DEF IInv, Ongoing, Fine
  <2> QED
    BY <2>1 DEF Stands, Happened
<1> QED
  BY <1>1, SpecInv, PTL

-----------------------------------------------------------------------------
(***************************************************************************)
(* What a charge reports of a key that was used before                     *)
(***************************************************************************)
CallerStep(c) ==
  \/ Charge(c) \/ Complete(c) \/ Later(c)
  \/ Register(c) \/ Execute(c) \/ ConfirmExecuted(c) \/ resolveExistingOrder(c)
  \/ CompleteRetrieved(c) \/ CaptureRetrieved(c) \/ ChangeBeforeCapture(c)
  \/ CapturePayment(c) \/ CancelRetrieved(c) \/ RefundRetrieved(c) \/ CancelOrChange(c)

\* The call goes on or is over, and keeps its operation.
Proceeds(c) == \/ \E pc \in Steps : Go(c, pc)
               \/ \E res \in Results : Return(c, res)
Moves(c) == \E z : call' = [call EXCEPT ![c] = z]
Keeps(c) == \E z : call' = [call EXCEPT ![c] = z] /\ z.op = call[c].op

LEMMA ProceedsKeeps ==
  ASSUME Types, NEW c \in Callers, Proceeds(c)
  PROVE  Keeps(c)
<1>1. PICK q \in CallState : q = call[c]
  BY DEF Types
<1>2. ASSUME NEW pc \in Steps, Go(c, pc) PROVE Keeps(c)
  BY <1>1, <1>2, GoIs, GoneFields DEF Keeps
<1>3. ASSUME NEW res \in Results, Return(c, res) PROVE Keeps(c)
  BY <1>1, <1>3, ReturnIs, ReturnedFields DEF Keeps
<1> QED
  BY <1>2, <1>3 DEF Proceeds

\* Only a charge or authorization changes a call of one.
LEMMA OtherSteps ==
  ASSUME Types, NEW c \in Callers,
         \/ CompleteRetrieved(c) \/ CaptureRetrieved(c) \/ ChangeBeforeCapture(c)
         \/ CapturePayment(c) \/ CancelRetrieved(c) \/ RefundRetrieved(c)
         \/ CancelOrChange(c)
  PROVE  Keeps(c) /\ call[c].op \notin PayOps
<1>1. ASSUME \/ CompleteRetrieved(c) \/ CaptureRetrieved(c) \/ CancelRetrieved(c)
      PROVE  Proceeds(c)
  BY <1>1 DEF CompleteRetrieved, CaptureRetrieved, CancelRetrieved, Retrieve, CapturePlan,
              Proceeds, Steps, Results
<1>2. ASSUME \/ ChangeBeforeCapture(c) \/ CapturePayment(c) \/ CancelOrChange(c)
      PROVE  Proceeds(c)
  BY <1>2 DEF ChangeBeforeCapture, CapturePayment, CancelOrChange, Send, Proceeds, Steps,
              Results
<1>3. ASSUME RefundRetrieved(c) PROVE Keeps(c)
  <2>1. \/ Proceeds(c)
        \/ \E to : call' = SetTo(c, "change", to)
    BY <1>3 DEF RefundRetrieved, Retrieve, RefundPlan, Proceeds, Steps, Results, SetTo
  <2>2. ASSUME NEW to, call' = SetTo(c, "change", to) PROVE Keeps(c)
    <3>1. PICK q \in CallState : q = call[c]
      BY DEF Types
    <3>2. call' = [call EXCEPT ![c] = GoneTo(q, "change", to)]
      BY <2>2, <3>1, SetToSets
    <3>3. "change" \in Steps
      BY DEF Steps
    <3>4. GoneTo(q, "change", to).op = q.op
      BY <3>3, GoneFields DEF GoneTo, CallState
    <3> QED
      BY <3>1, <3>2, <3>4 DEF Keeps
  <2> QED
    BY <2>1, <2>2, ProceedsKeeps
<1>4. call[c].op \notin PayOps
  BY DEF CompleteRetrieved, CaptureRetrieved, CancelRetrieved, ChangeBeforeCapture,
         CapturePayment, CancelOrChange, RefundRetrieved, At, PayOps, CompleteOps
<1> QED
  BY <1>1, <1>2, <1>3, <1>4, ProceedsKeeps

LEMMA PaySteps ==
  ASSUME IInv, [Next]_vars, NEW c \in Callers, NEW z, z = call'[c], z.op \in PayOps
  PROVE  \/ z = call[c]
         \/ Charge(c) \/ Register(c) \/ Execute(c) \/ ConfirmExecuted(c)
         \/ resolveExistingOrder(c)
<1>1. call \in [Callers -> CallState]
  BY DEF IInv, Types
<1>2. ASSUME NEW d \in Callers, CallerStep(d) PROVE Moves(d)
  <2>1. ASSUME Charge(d) \/ Complete(d) \/ Later(d) PROVE Moves(d)
    BY <2>1 DEF Charge, Complete, Later, Start, Moves
  <2>2. ASSUME NEW pc, NEW res, NEW i, NEW b,
               \/ call' = SetWith(d, pc, res) \/ call' = SetReplayed(d, pc, i, b)
        PROVE  Moves(d)
    BY <2>2, SetWithSets, SetReplayedSets DEF IInv, Moves
  <2>3. ASSUME NEW res, Return(d, res) PROVE Moves(d)
    BY <2>3, ReturnIs DEF Moves
  <2>4. ASSUME NEW pc, Go(d, pc) PROVE Moves(d)
    BY <2>4, GoIs DEF IInv, Moves
  <2>5. ASSUME Register(d) PROVE Moves(d)
    <3>1. \/ \E pc, res : call' = SetWith(d, pc, res)
          \/ \E pc, i, b : call' = SetReplayed(d, pc, i, b)
          \/ \E res : Return(d, res)
      BY <2>5 DEF Register, Send, SetWith, SetReplayed
    <3> QED
      BY <3>1, <2>2, <2>3
  <2>6. ASSUME Execute(d) PROVE Moves(d)
    <3>1. (\E pc : Go(d, pc)) \/ (\E res : Return(d, res))
      BY <2>6 DEF Execute, Send
    <3> QED
      BY <3>1, <2>3, <2>4
  <2>7. ASSUME ConfirmExecuted(d) \/ resolveExistingOrder(d) PROVE Moves(d)
    <3>1. \E res : Return(d, res)
      BY <2>7 DEF ConfirmExecuted, resolveExistingOrder, Retrieve
    <3> QED
      BY <3>1, <2>3
  <2>8. Keeps(d) => Moves(d)
    BY DEF Keeps, Moves
  <2> QED
    BY <1>2, <2>1, <2>5, <2>6, <2>7, <2>8, OtherSteps DEF CallerStep, IInv
<1>3. ASSUME NEW d \in Callers, CallerStep(d), d # c PROVE z = call[c]
  BY <1>1, <1>2, <1>3 DEF Moves
<1>4. ASSUME Complete(c) \/ Later(c) PROVE FALSE
  <2>1. \E op \in CompleteOps \cup LaterOps : \E key, i, a, pc : Start(c, op, key, i, a, pc)
    BY <1>4 DEF Complete, Later
  <2>2. PICK op \in CompleteOps \cup LaterOps :
          \E key, i, a, pc : Start(c, op, key, i, a, pc)
    BY <2>1
  <2>3. PICK key, i, a, pc : Start(c, op, key, i, a, pc)
    BY <2>2
  <2>4. call' = [call EXCEPT ![c] = Started(op, key, i, a, pc)]
    BY <2>3, Zenon DEF Start, Started
  <2>5. z = Started(op, key, i, a, pc)
    BY <1>1, <2>4
  <2> QED
    BY <2>5 DEF Started, Idle, CompleteOps, LaterOps, PayOps
<1>5. ASSUME Keeps(c), call[c].op \notin PayOps PROVE FALSE
  BY <1>1, <1>5 DEF Keeps
<1>6. ASSUME CallerStep(c)
      PROVE  \/ Charge(c) \/ Register(c) \/ Execute(c) \/ ConfirmExecuted(c)
             \/ resolveExistingOrder(c)
  BY <1>4, <1>5, <1>6, OtherSteps DEF CallerStep, IInv
<1>7. ServeLate \/ Expire \/ UNCHANGED vars => z = call[c]
  BY DEF ServeLate, Expire, vars
<1> QED
  BY <1>3, <1>6, <1>7 DEF Next, CallerStep

\* What a step of the caller of the charge q leaves as its call z.
LEMMA RegisterEnds ==
  ASSUME IInv, NEW c \in Callers, Register(c), NEW q, q = call[c], NEW z, z = call'[c]
  PROVE  \/ q.key = NoKey /\ z.pc = "done" /\ z.res # "ok"
         \/ z.pc = "resolve"
         \/ /\ z.pc = "execute" /\ z.op = q.op /\ z.amount = q.amount
            /\ z.replayed \/ ( /\ orders'[z.id].held = q.to
                               /\ orders'[z.id].job = JobOf(q.op) )
<1>1. q \in CallState /\ Types /\ call \in [Callers -> CallState]
  BY DEF IInv, Types
<1>2. PICK r : r = RequestWith(c, "register", q.key, "")
  OBVIOUS
<1>3. RegisterCall(c, q, r)
  BY <1>1, <1>2 DEF RegisterCall, Register, At
<1>4. PICK b \in BOOLEAN : b = (Cached(r) # {})
  OBVIOUS
<1>5. Registers(c, q, r, b)
  BY <1>3, <1>4, RegisterShape
<1>6. ASSUME NEW err \in {"failed", "retryable"}, Return(c, err), q.key = NoKey
      PROVE  q.key = NoKey /\ z.pc = "done" /\ z.res # "ok"
  <2>1. err \in Results
    BY DEF Results
  <2>2. z = Returned(q, err)
    BY <1>1, <1>6, ReturnIs
  <2> QED
    BY <1>1, <1>6, <2>1, <2>2, ReturnedFields
<1>7. ASSUME NEW err \in {"failed", "retryable"},
             call' = [call EXCEPT ![c].pc = "resolve", ![c].res = err]
      PROVE  z.pc = "resolve"
  <2>1. err \in Results /\ "resolve" \in Steps
    BY DEF Results, Steps
  <2>2. call' = SetWith(c, "resolve", err)
    BY <1>7, Zenon DEF SetWith
  <2>3. z = GoneWith(q, "resolve", err)
    BY <1>1, <2>2, SetWithSets
  <2> QED
    BY <1>1, <2>1, <2>3, GoneWithFields
<1>8. ASSUME NEW x \in Outcomes(r), Serve(r, x), x.ans # Rejected, bound' = bound,
             call' = [call EXCEPT ![c].pc = "execute", ![c].id = x.ans.id, ![c].replayed = b]
      PROVE  /\ z.pc = "execute" /\ z.op = q.op /\ z.amount = q.amount
             /\ z.replayed \/ ( /\ orders'[z.id].held = q.to
                                /\ orders'[z.id].job = JobOf(q.op) )
  <2>1. /\ r \in HttpRequest /\ Proper(r) /\ r.endpoint = "register" /\ r.to = q.to
    BY <1>3, RegisterProper
  <2>2. PICK i \in OrderIds : i = x.ans.id
    BY <1>8, <2>1, ServeInv DEF IInv
  <2>3. i \in AnyId /\ "execute" \in Steps
    BY DEF AnyId, Steps
  <2>4. call' = SetReplayed(c, "execute", i, b)
    BY <1>8, <2>2, Zenon DEF SetReplayed
  <2>5. z = GoneReplayed(q, "execute", i, b)
    BY <1>1, <2>4, SetReplayedSets
  <2>6. z.pc = "execute" /\ z.op = q.op /\ z.amount = q.amount /\ z.id = i /\ z.replayed = b
    BY <1>1, <2>3, <2>5, GoneReplayedFields
  <2>7. ASSUME ~ b PROVE orders'[i].held = q.to /\ orders'[i].job = JobOf(q.op)
    <3> DEFINE j == Target(r)
    <3>1. ~ Replayed(r, x)
      BY <1>4, <2>7 DEF Replayed
    <3>2. /\ j \in OrderIds /\ x.order \in Effect(r, orders[j]) /\ x.ans = Answer(j, x.order)
          /\ orders' = [orders EXCEPT ![j] = x.order]
      BY <1>1, <1>8, <2>1, <3>1, ServeCases DEF Types
    <3> HIDE DEF j
    <3>3. orders[j] \in Order /\ Lives(orders[j])
      BY <3>2 DEF IInv, Types, Owned
    <3>4. x.order.held = r.to /\ x.order.job = r.job
      BY <2>1, <3>2, <3>3, EffectSound
    <3>5. r.job = JobOf(q.op)
      BY <1>3 DEF RegisterCall, RequestWith, Request, JobOf, PayOps
    <3>6. i = j /\ orders'[j] = x.order
      BY <1>1, <2>2, <3>2 DEF Answer, Types
    <3> QED
      BY <2>1, <3>4, <3>5, <3>6
  <2> QED
    BY <2>6, <2>7
<1> QED
  BY <1>5, <1>6, <1>7, <1>8 DEF Registers

LEMMA ExecuteEnds ==
  ASSUME IInv, NEW c \in Callers, Execute(c), NEW q, q = call[c], q.op \in PayOps,
         NEW z, z = call'[c]
  PROVE  \/ z = Gone(q, "confirm")
         \/ z.pc = "done" /\ z.res = "ok" /\ z.id = q.id
<1>1. q \in CallState /\ call \in [Callers -> CallState] /\ "ok" \in Results
  BY DEF IInv, Types, Results
<1>2. Go(c, "confirm") \/ Return(c, "ok")
  BY DEF Execute, Send
<1>3. CASE Go(c, "confirm")
  BY <1>1, <1>3, GoIs DEF IInv
<1>4. CASE Return(c, "ok")
  <2>1. z = Returned(q, "ok")
    BY <1>1, <1>4, ReturnIs
  <2> QED
    BY <1>1, <2>1, ReturnedFields
<1> QED
  BY <1>2, <1>3, <1>4

LEMMA ConfirmEnds ==
  ASSUME IInv, NEW c \in Callers, ConfirmExecuted(c), NEW q, q = call[c], NEW z, z = call'[c]
  PROVE  z.pc = "done" /\ z.res \in {"ok", "partial"} /\ z.id = q.id /\ q.pc = "confirm"
<1>1. q \in CallState /\ call \in [Callers -> CallState]
      /\ "ok" \in Results /\ "partial" \in Results
  BY DEF IInv, Types, Results
<1>2. Return(c, "ok") \/ Return(c, "partial")
  BY DEF ConfirmExecuted, Retrieve
<1>3. ASSUME NEW res \in {"ok", "partial"}, Return(c, res)
      PROVE  z.pc = "done" /\ z.res = res /\ z.id = q.id
  <2>1. z = Returned(q, res)
    BY <1>1, <1>3, ReturnIs
  <2> QED
    BY <1>1, <2>1, <1>3, ReturnedFields
<1>4. q.pc = "confirm"
  BY DEF ConfirmExecuted, At
<1> QED
  BY <1>2, <1>3, <1>4

LEMMA ResolveEnds ==
  ASSUME IInv, NEW c \in Callers, resolveExistingOrder(c), NEW q, q = call[c],
         NEW z, z = call'[c]
  PROVE  /\ q.id = q.key /\ q.id \in OrderIds /\ q.res # "ok" /\ orders' = orders
         /\ z.pc = "done" /\ z.id = q.id
         /\ \/ z.res = Resolved(q, orders[q.id])
            \/ z.res = q.res /\ orders[q.id].status = "ABSENT"
            \/ z.res = "retryable"
<1>1. q \in CallState /\ call \in [Callers -> CallState]
  BY DEF IInv, Types
<1>2. q.op \in PayOps /\ q.pc = "resolve"
  BY DEF resolveExistingOrder, At
<1>3. Goes(q)
  BY <1>2 DEF IInv, Ongoing, Fine
<1>4. q.id = q.key /\ q.id \in OrderIds /\ q.res # "ok"
  BY <1>1, <1>2, <1>3 DEF Goes, PayOps, CompleteOps, LaterOps, OrderIds, CallState, AnyKey
<1>5. PICK known : known = Resolved(q, orders[q.id])
  OBVIOUS
<1>6. /\ orders' = orders
      /\ \/ Return(c, known)
         \/ Return(c, q.res) /\ orders[q.id].status = "ABSENT"
         \/ Return(c, "retryable")
  BY <1>5 DEF resolveExistingOrder, Retrieve
<1>7. known \in Results /\ q.res \in Results /\ "retryable" \in Results
  BY <1>1, <1>5 DEF Resolved, Results, CallState
<1>8. ASSUME NEW res \in Results, Return(c, res)
      PROVE  z.pc = "done" /\ z.res = res /\ z.id = q.id
  <2>1. z = Returned(q, res)
    BY <1>1, <1>8, ReturnIs
  <2> QED
    BY <1>1, <2>1, ReturnedFields
<1> QED
  BY <1>4, <1>5, <1>6, <1>7, <1>8

\* What was registered of an order stays as it was.
HoldsStay ==
  \A i \in OrderIds : orders[i].status # "ABSENT" =>
    /\ orders'[i].status # "ABSENT" /\ orders'[i].held = orders[i].held
    /\ orders'[i].job = orders[i].job

LEMMA ServeHolds ==
  ASSUME Types, NEW r, NEW x \in Outcomes(r), Serve(r, x)
  PROVE  HoldsStay
<1> DEFINE i == Target(r)
           o == orders[i]
<1>1. orders' = [orders EXCEPT ![i] = x.order] /\ orders \in [OrderIds -> Order]
  BY DEF Serve, Types
<1>2. x.order = o \/ x.order \in Effect(r, o)
  BY DEF Outcomes
<1> HIDE DEF i
<1>3. ASSUME i \in OrderIds, o.status # "ABSENT", x.order \in Effect(r, o)
      PROVE  x.order.status # "ABSENT" /\ x.order.held = o.held /\ x.order.job = o.job
  <2>1. o \in Order
    BY <1>1, <1>3
  <2> HIDE DEF o
  <2> QED
    BY <1>3, <2>1 DEF Effect, Order, successStatus
<1> QED
  BY <1>1, <1>2, <1>3 DEF HoldsStay

LEMMA NextHolds == ASSUME Types, [Next]_vars PROVE HoldsStay
<1>1. ASSUME NEW c \in Callers, CallerStep(c)
      PROVE  orders' = orders \/ \E r : \E x \in Outcomes(r) : Serve(r, x)
  <2>1. CASE Charge(c) \/ Complete(c) \/ Later(c)
    BY <2>1 DEF Charge, Complete, Later, Start, provider
  <2>2. CASE \/ ConfirmExecuted(c) \/ resolveExistingOrder(c) \/ CompleteRetrieved(c)
             \/ CaptureRetrieved(c) \/ CancelRetrieved(c) \/ RefundRetrieved(c)
    BY <2>2 DEF ConfirmExecuted, resolveExistingOrder, CompleteRetrieved, CaptureRetrieved,
                CancelRetrieved, RefundRetrieved, Retrieve
  <2>3. CASE \/ Register(c) \/ Execute(c) \/ ChangeBeforeCapture(c) \/ CapturePayment(c)
             \/ CancelOrChange(c)
    BY <2>3 DEF Register, Execute, ChangeBeforeCapture, CapturePayment, CancelOrChange, Send,
                provider
  <2> QED
    BY <1>1, <2>1, <2>2, <2>3 DEF CallerStep
<1>2. ServeLate => \E r : \E x \in Outcomes(r) : Serve(r, x)
  BY DEF ServeLate
<1>3. Expire \/ UNCHANGED vars => orders' = orders
  BY DEF Expire, vars, provider
<1>4. orders' = orders => HoldsStay
  BY DEF HoldsStay
<1> QED
  BY <1>1, <1>2, <1>3, <1>4, ServeHolds DEF Next, CallerStep

\* The order of a charge on its way is the one it asked for, unless it was
\* given a replayed answer.
Paid(q) ==
  q.op \in PayOps =>
    /\ q.pc = "register" => q.to = q.amount
    /\ q.pc \in {"execute", "confirm"} /\ ~ q.replayed =>
         orders[q.id].held = q.amount /\ orders[q.id].job = JobOf(q.op)
Pays == \A c \in Callers : Paid(call[c])

LEMMA PaidStays ==
  ASSUME IInv, HoldsStay, NEW c \in Callers, NEW q, q = call[c], Paid(q)
  PROVE  Paid(q)'
<1>1. CASE q.op \in PayOps /\ q.pc \in {"execute", "confirm"}
  <2>1. Goes(q)
    BY <1>1 DEF IInv, Ongoing, Fine
  <2>2. Registered(q.id)
    BY <1>1, <2>1 DEF Goes, PayOps, CompleteOps, LaterOps
  <2> QED
    BY <1>1, <2>2 DEF Paid, HoldsStay, Registered
<1>2. CASE ~ (q.op \in PayOps /\ q.pc \in {"execute", "confirm"})
  BY <1>2 DEF Paid
<1> QED
  BY <1>1, <1>2

LEMMA PaysNext == IInv /\ Pays /\ [Next]_vars => Pays'
<1> SUFFICES ASSUME IInv, Pays, [Next]_vars, NEW c \in Callers
    PROVE  Paid(call[c])'
  BY DEF Pays
<1>1. HoldsStay
  BY NextHolds DEF IInv
<1>2. PICK q \in CallState : q = call[c]
  BY DEF IInv, Types
<1>3. PICK z : z = call'[c]
  OBVIOUS
<1>4. Paid(q)'
  BY <1>1, <1>2, PaidStays DEF Pays
<1>5. CASE Charge(c)
  <2>1. PICK op \in PayOps, key \in Keys \cup {NoKey}, a \in Amounts :
          Start(c, op, key, deriveOrderID(key), a, "register")
    BY <1>5 DEF Charge
  <2>2. op \in AnyOp /\ key \in AnyKey /\ key \in AnyId /\ a \in Yen /\ "register" \in Steps
    BY FincodeAssumption DEF AnyOp, AnyKey, AnyId, OrderIds, Amounts, Yen, Steps
  <2>3. call' = [call EXCEPT ![c] = Started(op, key, key, a, "register")]
    BY <2>1, Zenon DEF Start, Started, deriveOrderID
  <2>4. z = Started(op, key, key, a, "register")
    BY <1>3, <2>3 DEF IInv, Types
  <2>5. z.pc = "register" /\ z.to = z.amount
    BY <2>2, <2>4, StartedFields
  <2>6. Paid(z)'
    BY <2>5 DEF Paid
  <2> QED
    BY <1>3, <2>6 DEF Paid
<1>6. CASE Register(c)
  <2>1. q.op \in PayOps /\ q.pc = "register" /\ q.to = q.amount
    BY <1>2, <1>6 DEF Register, At, Pays, Paid
  <2>2. \/ q.key = NoKey /\ z.pc = "done" /\ z.res # "ok"
        \/ z.pc = "resolve"
        \/ /\ z.pc = "execute" /\ z.op = q.op /\ z.amount = q.amount
           /\ z.replayed \/ ( /\ orders'[z.id].held = q.to
                              /\ orders'[z.id].job = JobOf(q.op) )
    BY <1>2, <1>3, <1>6, RegisterEnds
  <2>3. Paid(z)'
    BY <2>1, <2>2 DEF Paid
  <2> QED
    BY <1>3, <2>3 DEF Paid
<1>7. CASE Execute(c) /\ q.op \in PayOps
  <2>1. z = Gone(q, "confirm") \/ z.pc = "done"
    BY <1>2, <1>3, <1>7, ExecuteEnds
  <2>2. q.pc = "execute" /\ "confirm" \in Steps
    BY <1>2, <1>7 DEF Execute, At, Steps
  <2>3. CASE z = Gone(q, "confirm")
    <3>1. /\ z.op = q.op /\ z.pc = "confirm" /\ z.id = q.id /\ z.amount = q.amount
          /\ z.replayed = q.replayed
      BY <1>2, <2>2, <2>3, GoneFields
    <3>2. Paid(z)'
      BY <1>4, <2>2, <3>1 DEF Paid
    <3> QED
      BY <1>3, <3>2 DEF Paid
  <2>4. CASE z.pc = "done"
    BY <1>3, <2>4 DEF Paid
  <2> QED
    BY <2>1, <2>3, <2>4
<1>8. CASE ConfirmExecuted(c) \/ resolveExistingOrder(c)
  <2>1. z.pc = "done"
    BY <1>2, <1>3, <1>8, ConfirmEnds, ResolveEnds
  <2> QED
    BY <1>3, <2>1 DEF Paid
<1>9. CASE z = call[c]
  BY <1>2, <1>3, <1>4, <1>9 DEF Paid
<1>10. CASE z.op \notin PayOps
  BY <1>3, <1>10 DEF Paid
<1>11. Execute(c) /\ z.op \in PayOps => q.op \in PayOps
  <2> SUFFICES ASSUME Execute(c), z.op \in PayOps PROVE q.op \in PayOps
    OBVIOUS
  <2>1. (\E pc : Go(c, pc)) \/ (\E res : Return(c, res))
    BY DEF Execute, Send
  <2>2. z.op = q.op
    BY <1>2, <1>3, <2>1 DEF Go, Return, IInv, Types, CallState, Idle
  <2> QED
    BY <2>2
<1> QED
  BY <1>3, <1>5, <1>6, <1>7, <1>8, <1>9, <1>10, <1>11, PaySteps

LEMMA PaysAlways == Spec => []Pays
<1>1. Init => Pays
  BY DEF Init, Pays, Paid, Idle
<1> QED
  BY <1>1, SpecInv, PaysNext, PTL DEF Spec

\* A charge that reports a success without a replayed answer did charge what it
\* asked for.
LEMMA ChargedAsAsked ==
  ASSUME IInv, Pays, [Next]_vars, NEW c \in Callers, NEW q, q = call[c], NEW z, z = call'[c],
         q.pc # "done", ~ q.replayed, z.op \in PayOps, z.pc = "done", z.res = "ok"
  PROVE  q.amount \in {orders'[q.id].held, orders'[q.id].amount} /\ orders'[q.id].job = JobOf(q.op)
<1>1. HoldsStay /\ Paid(q)
  BY NextHolds DEF IInv, Pays
<1>2. CASE Charge(c)
  <2>1. \E op, key, i, a : Start(c, op, key, i, a, "register")
    BY <1>2 DEF Charge
  <2>2. z.pc = "register"
    BY <2>1 DEF Start, Idle, IInv, Types
  <2> QED
    BY <2>2
<1>3. CASE Register(c)
  <2>1. z.pc # "done" \/ z.res # "ok"
    BY <1>3, RegisterEnds
  <2> QED
    BY <2>1
<1>4. CASE Execute(c) \/ ConfirmExecuted(c)
  <2>1. q.op \in PayOps /\ q.pc \in {"execute", "confirm"}
    <3>1. Execute(c) => q.op = z.op
      <4>1. Execute(c) => (\E pc : Go(c, pc)) \/ (\E res : Return(c, res))
        BY DEF Execute, Send
      <4>2. q \in CallState /\ call \in [Callers -> CallState]
        BY DEF IInv, Types
      <4>3. \A pc : Go(c, pc) => z.op = q.op
        BY <4>2 DEF Go, CallState
      <4>4. \A res : Return(c, res) => z.op = q.op
        BY <4>2 DEF Return, CallState
      <4> QED
        BY <4>1, <4>3, <4>4
    <3> QED
      BY <1>4, <3>1 DEF Execute, ConfirmExecuted, At
  <2>2. Goes(q)
    BY <2>1 DEF IInv, Ongoing, Fine
  <2>3. Registered(q.id)
    BY <2>1, <2>2 DEF Goes, PayOps, CompleteOps, LaterOps
  <2>4. orders[q.id].held = q.amount /\ orders[q.id].job = JobOf(q.op)
    BY <1>1, <2>1 DEF Paid
  <2> QED
    BY <1>1, <2>3, <2>4 DEF HoldsStay, Registered
<1>5. CASE resolveExistingOrder(c)
  <2>1. q.res # "ok" /\ orders' = orders /\ Resolved(q, orders[q.id]) = "ok"
    BY <1>5, ResolveEnds
  <2> QED
    BY <2>1 DEF Resolved
<1> QED
  BY <1>2, <1>3, <1>4, <1>5, PaySteps

\* A charge that reports a refusal for good is not the one that stands.
LEMMA RefusedNotStanding ==
  ASSUME IInv, [Next]_vars, NEW c \in Callers, NEW q, q = call[c], NEW z, z = call'[c],
         q.pc # "done", q.key # NoKey, q.op \in PayOps,
         z.op \in PayOps, z.pc = "done", z.res = "failed"
  PROVE  ~ (/\ orders'[q.key].job = JobOf(q.op) /\ orders'[q.key].amount = q.amount
            /\ orders'[q.key].status = successStatus(orders'[q.key].job))
<1>2. CASE Charge(c)
  <2>1. \E op, key, i, a : Start(c, op, key, i, a, "register")
    BY <1>2 DEF Charge
  <2>2. z.pc = "register"
    BY <2>1 DEF Start, Idle, IInv, Types
  <2> QED
    BY <2>2
<1>3. CASE Register(c)
  <2>1. z.pc # "done"
    BY <1>3, RegisterEnds
  <2> QED
    BY <2>1
<1>4. CASE Execute(c)
  <2>1. z = Gone(q, "confirm") \/ z.res = "ok"
    BY <1>4, ExecuteEnds
  <2>2. Gone(q, "confirm").pc = "confirm"
    BY GoneFields DEF IInv, Types, Steps
  <2> QED
    BY <2>1, <2>2
<1>5. CASE ConfirmExecuted(c)
  <2>1. z.res \in {"ok", "partial"}
    BY <1>5, ConfirmEnds
  <2> QED
    BY <2>1
<1>6. CASE resolveExistingOrder(c)
  <2>1. /\ orders' = orders /\ q.id = q.key
        /\ \/ Resolved(q, orders[q.key]) = "failed"
           \/ orders[q.key].status = "ABSENT"
    BY <1>6, ResolveEnds
  <2> QED
    BY <2>1 DEF Resolved, successStatus
<1> QED
  BY <1>2, <1>3, <1>4, <1>5, <1>6, PaySteps

\* KeyReuseRejected (resolveExistingOrder): a charge that succeeds and was not
\* given the replayed answer of another is a charge of the amount and the job it
\* asks for, whatever its key was used for before.
THEOREM ReuseIsRejected == Spec => KeyReuseRejected
<1> DEFINE Matches ==
      \A c \in Callers : LET q == call[c] IN
        q.pc # "done" /\ ~ q.replayed /\ Done(c, PayOps, "ok")'
          => LET o == orders'[q.id]
             IN q.amount \in {o.held, o.amount} /\ o.job = JobOf(q.op)
<1>1. IInv /\ Pays /\ [Next]_vars => [Matches]_vars
  BY ChargedAsAsked DEF Done, At
<1> HIDE DEF Matches
<1>2. Spec => [][Matches]_vars
  BY <1>1, SpecInv, PaysAlways, PTL DEF Spec
<1> QED
  BY <1>2 DEF KeyReuseRejected, Matches

\* FailedMeansNotBilled (registerAndExecute, resolveExistingOrder): however the
\* requests of a charge were lost, raced or served late, one that is reported as
\* failed for good is not the one that stands under its key.
THEOREM FailedIsNotBilled == Spec => FailedMeansNotBilled
<1> DEFINE Refused ==
      \A c \in Callers : LET q == call[c] IN
        q.pc # "done" /\ q.key # NoKey /\ q.op \in PayOps /\ Done(c, PayOps, "failed")'
          => LET o == orders'[deriveOrderID(q.key)]
             IN ~ (o.job = JobOf(q.op) /\ o.amount = q.amount /\ o.status = successStatus(o.job))
<1>1. IInv /\ [Next]_vars => [Refused]_vars
  BY RefusedNotStanding DEF Done, At, deriveOrderID
<1> HIDE DEF Refused
<1>2. Spec => [][Refused]_vars
  BY <1>1, SpecInv, PTL DEF Spec
<1> QED
  BY <1>2 DEF FailedMeansNotBilled, Refused
=============================================================================
