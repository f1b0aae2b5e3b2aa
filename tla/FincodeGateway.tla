--------------------------- MODULE FincodeGateway ---------------------------
(***************************************************************************)
(* The payment gateway of src/fincode/gateway.go over the HTTP client of   *)
(* src/fincode/client.go.  A port call is a sequence of HTTP requests, and *)
(* between two of them other calls run: one step of a caller is one        *)
(* request.  A request is answered, or the caller gives up on it (timeout, *)
(* reset, 429, 5xx): then it stays in late and may still be served at any  *)
(* later moment, or never.                                                 *)
(*                                                                         *)
(* fincode itself is external and modelled from what the client says:      *)
(* an order id is registered once; a request that carries the              *)
(* idempotent_key header of an answered one gets that answer again for 30  *)
(* minutes; an order is executed once; /change sets the total; /cancel     *)
(* releases a hold and reverses a capture.  Whether the header is scoped   *)
(* by endpoint is not documented (gateway.go:386-393): perEndpoint.        *)
(* Amounts are whole yen in 1..MaxAmount: jpyAmount refuses every other    *)
(* one, and the missing payment source, before a request is sent.          *)
(***************************************************************************)
EXTENDS Naturals, FiniteSets

CONSTANTS
  Callers,      \* port calls that run at the same time
  Keys,         \* idempotency keys
  NoKey,        \* the empty key
  MaxAmount,
  MaxAssigned,  \* ids fincode assigns to orders registered without a key
  MaxCalls,     \* bound on the number of port calls
  MaxLosses,    \* bound on the requests a caller gives up on
  KeyReuse,     \* whether callers reuse a key for another amount
  Expires,      \* whether the 30 minutes of the header can pass
  Ops           \* the operations of the port that are called

ASSUME FincodeAssumption ==
  /\ NoKey \notin Keys \cup 1..MaxAssigned
  /\ {MaxAmount, MaxAssigned, MaxCalls, MaxLosses} \subseteq Nat
  /\ {KeyReuse, Expires} \subseteq BOOLEAN

VARIABLES
  orders,       \* fincode: the orders, with a history of each
  cache,        \* fincode: the answers replayed to a repeated idempotent_key
  perEndpoint,  \* fincode: whether the replay is scoped by endpoint
  late,         \* requests their caller has given up on
  call,         \* per caller: the port call it is in, or the last one
  bound,        \* per key: the operation its first use was for
  taken,        \* per key: the yen its requests released or gave back
  calls, lost

provider == <<orders, cache, taken>>
vars == <<orders, cache, perEndpoint, late, call, bound, taken, calls, lost>>

Amounts == 1..MaxAmount
Full == 0       \* a nil Amount: all of it
OrderIds == Keys \cup 1..MaxAssigned
Jobs == {"AUTH", "CAPTURE"}
Statuses == {"ABSENT", "UNPROCESSED", "AUTHORIZED", "CAPTURED", "CANCELED"}
PayOps == {"charge", "authorize"}
CompleteOps == {"completeCharge", "completeAuthorize"}
LaterOps == {"capture", "void", "cancel", "refund"}
Results == {"ok", "partial", "retryable", "failed", "invalid"}

\* held, billed, captured and key are history: the amount registered, whether
\* the card was ever executed and captured, and whose order it is.
Order == [status: Statuses, job: Jobs, amount: 0..MaxAmount, held: 0..MaxAmount,
          billed: BOOLEAN, captured: BOOLEAN, key: Keys \cup {NoKey}]
Absent == [status |-> "ABSENT", job |-> "AUTH", amount |-> 0, held |-> 0,
           billed |-> FALSE, captured |-> FALSE, key |-> NoKey]

JobOf(op) == IF op \in {"authorize", "completeAuthorize"} THEN "AUTH" ELSE "CAPTURE"
successStatus(job) == IF job = "AUTH" THEN "AUTHORIZED" ELSE "CAPTURED"

\* The order id of a key; NoKey lets fincode assign one.
\* (Fault: the id is not derived, only the header protects the charge.)
deriveOrderIDNot(key) == NoKey
deriveOrderID(key) == key

\* (Fault: /change and /capture share the caller's key.)
deriveIdempotencyKeyNot(key, op) == <<key, "">>
deriveIdempotencyKey(key, op) == <<key, op>>

Idle == [op |-> "charge", key |-> NoKey, id |-> NoKey, amount |-> Full, to |-> 0,
         pc |-> "idle", res |-> "ok", replayed |-> FALSE]

TypeOK ==
  /\ orders \in [OrderIds -> Order]
  /\ \A e \in cache : e.ans.id \in OrderIds /\ e.ans.status \in Statuses
  /\ perEndpoint \in BOOLEAN
  /\ \A r \in late : r.id \in OrderIds \cup {NoKey}
  /\ \A c \in Callers :
        /\ call[c].op \in PayOps \cup CompleteOps \cup LaterOps
        /\ call[c].id \in OrderIds \cup {NoKey} /\ call[c].to \in 0..MaxAmount
        /\ call[c].res \in Results
  /\ taken \in [Keys \cup {NoKey} -> Nat]
  /\ calls \in 0..MaxCalls /\ lost \in 0..MaxLosses

Init ==
  /\ orders = [i \in OrderIds |-> Absent]
  /\ cache = {} /\ late = {}
  /\ perEndpoint \in BOOLEAN
  /\ call = [c \in Callers |-> Idle]
  /\ bound = [k \in Keys |-> <<>>]
  /\ taken = [k \in Keys \cup {NoKey} |-> 0]
  /\ calls = 0 /\ lost = 0

-----------------------------------------------------------------------------
(* fincode: what a request does to its order, the empty set if refused.     *)

Effect(r, o) ==
  CASE r.endpoint = "register" /\ o.status = "ABSENT" ->
         {[o EXCEPT !.status = "UNPROCESSED", !.job = r.job, !.amount = r.to,
                    !.held = r.to, !.key = r.key]}
    [] r.endpoint = "execute" /\ o.status = "UNPROCESSED" ->
         {[o EXCEPT !.status = successStatus(o.job), !.billed = TRUE,
                    !.captured = (o.job = "CAPTURE")]}
    [] r.endpoint = "capture" /\ o.status = "AUTHORIZED" ->
         {[o EXCEPT !.status = "CAPTURED", !.captured = TRUE]}
    [] r.endpoint = "change" /\ o.status = successStatus(r.job) ->
         {[o EXCEPT !.amount = r.to]}
    [] r.endpoint = "cancel" /\ o.status \in {"AUTHORIZED", "CAPTURED"} ->
         {[o EXCEPT !.status = "CANCELED"]}
    [] OTHER -> {}

Rejected == [id |-> NoKey, status |-> "ABSENT", amount |-> 0]
Answer(i, o) == [id |-> i, status |-> o.status, amount |-> o.amount]

\* The order a request is about: fincode assigns the next id to one without.
Unassigned == {i \in 1..MaxAssigned : orders[i].status = "ABSENT"}
Target(r) ==
  IF r.id # NoKey THEN r.id
  ELSE CHOOSE i \in Unassigned : \A j \in Unassigned : i <= j

Cached(r) ==
  {e \in cache : /\ r.header[1] # NoKey /\ e.header = r.header
                 /\ perEndpoint => e.endpoint = r.endpoint}

\* The card may be declined at every execute.
Outcomes(r) ==
  LET i == Target(r)
      done == Effect(r, orders[i])
  IN  IF r.id = NoKey /\ Unassigned = {} THEN {}
      ELSE IF Cached(r) # {} THEN {[ans |-> e.ans, order |-> orders[i]] : e \in Cached(r)}
      ELSE {[ans |-> Answer(i, o), order |-> o] : o \in done}
           \cup {[ans |-> Rejected, order |-> orders[i]] :
                   x \in {y \in {r.endpoint} : done = {} \/ y = "execute"}}

Given(r, o, p) ==
  IF r.endpoint = "cancel" /\ p.status # o.status THEN o.amount
  ELSE IF r.endpoint = "change" /\ r.job = "CAPTURE" /\ p.amount < o.amount
       THEN o.amount - p.amount ELSE 0

Serve(r, x) ==
  /\ orders' = [orders EXCEPT ![Target(r)] = x.order]
  /\ cache' = IF r.header[1] = NoKey \/ x.ans = Rejected \/ Cached(r) # {} THEN cache
              ELSE cache \cup {[header |-> r.header, endpoint |-> r.endpoint, ans |-> x.ans]}
  /\ taken' = [taken EXCEPT ![r.key] = @ + Given(r, orders[Target(r)], x.order)]

\* A request nobody waits for is served after all.
ServeLate ==
  \E r \in late : \E x \in Outcomes(r) :
    /\ Serve(r, x)
    /\ late' = late \ {r}
    /\ UNCHANGED <<perEndpoint, call, bound, calls, lost>>

\* The 30 minutes of a replayed answer are over.
Expire ==
  /\ Expires
  /\ \E e \in cache : cache' = cache \ {e}
  /\ UNCHANGED <<orders, taken, perEndpoint, late, call, bound, calls, lost>>

-----------------------------------------------------------------------------
(* One HTTP request of caller c: answered, refused, or given up.  A refusal *)
(* is final and a request given up is retryable (wrapGatewayError).         *)

At(c, ops, pc) == call[c].op \in ops /\ call[c].pc = pc
Go(c, pc) == call' = [call EXCEPT ![c].pc = pc]
Return(c, res) ==
  call' = [call EXCEPT ![c] = [Idle EXCEPT !.op = call[c].op, !.id = call[c].id, !.amount = call[c].amount,
                                 !.pc = "done", !.res = res]]

Request(c, endpoint, header) ==
  [endpoint |-> endpoint, id |-> call[c].id, to |-> call[c].to,
   job |-> IF call[c].op \in {"authorize", "capture"} THEN "AUTH" ELSE "CAPTURE",
   header |-> header, key |-> call[c].key]

\* The request or its answer is lost: nobody can tell which.
NoAnswer == lost < MaxLosses /\ lost' = lost + 1

Send(r, OnAnswer(_), OnError(_)) ==
  /\ \/ \E x \in Outcomes(r) :
          /\ Serve(r, x)
          /\ IF x.ans = Rejected THEN OnError("failed") ELSE OnAnswer(x.ans)
          /\ UNCHANGED <<late, lost>>
     \/ /\ NoAnswer
        /\ late' = late \cup {r}
        /\ OnError("retryable")
        /\ UNCHANGED provider
  /\ UNCHANGED <<perEndpoint, bound, calls>>

\* GET /v1/payments/{id}: the order, 404, or no answer.
Retrieve(i, OnOrder(_), OnError(_)) ==
  /\ \/ /\ orders[i].status # "ABSENT"
        /\ OnOrder(orders[i])
        /\ UNCHANGED lost
     \/ /\ orders[i].status = "ABSENT"
        /\ OnError("failed")
        /\ UNCHANGED lost
     \/ /\ NoAnswer
        /\ OnError("retryable")
  /\ UNCHANGED <<orders, cache, taken, perEndpoint, late, bound, calls>>

-----------------------------------------------------------------------------
(* The port calls.  A key is used for one operation; KeyReuse lets a caller *)
(* charge with a used key again, for another amount or job.                 *)

Start(c, op, key, i, amount, pc) ==
  /\ op \in Ops
  /\ call[c].pc \in {"idle", "done"}
  /\ calls < MaxCalls
  /\ calls' = calls + 1
  /\ call' = [call EXCEPT ![c] = [Idle EXCEPT !.op = op, !.key = key, !.id = i,
                                    !.amount = amount, !.to = amount, !.pc = pc]]
  /\ UNCHANGED <<provider, perEndpoint, late, lost>>

Purpose(op, i, amount) ==
  IF KeyReuse /\ op \in PayOps THEN <<"charge", NoKey, Full>> ELSE <<op, i, amount>>

Bind(op, key, i, amount) ==
  IF key = NoKey THEN UNCHANGED bound
  ELSE /\ bound[key] \in {<<>>, Purpose(op, i, amount)}
       /\ bound' = [bound EXCEPT ![key] = Purpose(op, i, amount)]

\* Charge, Authorize: register an order under the id derived from the key.
Charge(c) ==
  \E op \in PayOps, key \in Keys \cup {NoKey}, a \in Amounts :
    /\ Bind(op, key, NoKey, a)
    /\ Start(c, op, key, deriveOrderID(key), a, "register")

\* CompleteCharge, CompleteAuthorize: finish the order of a partial failure.
Complete(c) ==
  \E op \in CompleteOps, i \in OrderIds :
    /\ orders[i].status # "ABSENT" /\ orders[i].job = JobOf(op)
    /\ Start(c, op, NoKey, i, orders[i].held, "retrieve")
    /\ UNCHANGED bound

\* Capture, Void, Cancel, Refund of an order the caller knows, executed or not;
\* refunds of one order are serialized by the callers (gateway.go:514-518).
Later(c) ==
  \E op \in LaterOps, key \in Keys \cup {NoKey}, i \in OrderIds :
  \E a \in IF op \in {"capture", "refund"} THEN Amounts \cup {Full} ELSE {Full} :
    /\ orders[i].status # "ABSENT"
    /\ op = "refund" => \A d \in Callers \ {c} :
         call[d].op = "refund" /\ call[d].id = i => call[d].pc \in {"idle", "done"}
    /\ Bind(op, key, i, a)
    /\ Start(c, op, key, i, a, "retrieve")

\* registerAndExecute, first request.
Register(c) ==
  LET q == call[c]
      registered(ans) ==
        call' = [call EXCEPT ![c].pc = "execute", ![c].id = ans.id,
                             ![c].replayed = Cached(Request(c, "register", <<q.key, "">>)) # {}]
      failed(err) == IF deriveOrderID(q.key) = NoKey THEN Return(c, err)
                     ELSE call' = [call EXCEPT ![c].pc = "resolve", ![c].res = err]
  IN  /\ At(c, PayOps, "register")
      /\ Send(Request(c, "register", <<q.key, "">>), registered, failed)

\* executeRegistered, of registerAndExecute and of the completions.
Execute(c) ==
  LET executed(ans) == Return(c, "ok")
      failed(err) == IF call[c].op \in PayOps THEN Go(c, "confirm") ELSE Return(c, err)
  IN  /\ At(c, PayOps \cup CompleteOps, "execute")
      /\ Send(Request(c, "execute", <<NoKey, "">>), executed, failed)

\* registerAndExecute: did the failed execute land after all?
ConfirmExecuted(c) ==
  LET found(o) == Return(c, IF o.status = successStatus(JobOf(call[c].op)) THEN "ok" ELSE "partial")
      failed(err) == Return(c, "partial")
  IN  At(c, PayOps, "confirm") /\ Retrieve(call[c].id, found, failed)

\* What the state of the order under the key says of this request.
\* (Fault: the guard against a key reused for another amount or job is dropped.)
ResolvedUnguarded(q, o) ==
  IF o.status = successStatus(JobOf(q.op)) THEN "ok"
  ELSE IF o.status \in {"UNPROCESSED", "AUTHORIZED"} THEN "partial" ELSE q.res
\* (Fault: the refusal of the register is reported as it is.)
Unresolved(q, o) == q.res
Resolved(q, o) ==
  IF o.amount # q.amount \/ o.job # JobOf(q.op) THEN "failed"
  ELSE IF o.status = successStatus(JobOf(q.op)) THEN "ok"
  ELSE IF o.status \in {"UNPROCESSED", "AUTHORIZED"} THEN "partial"
  ELSE q.res

resolveExistingOrder(c) ==
  LET found(o) == Return(c, Resolved(call[c], o))
      failed(err) == Return(c, IF err = "failed" THEN call[c].res ELSE "retryable")
  IN  At(c, PayOps, "resolve") /\ Retrieve(call[c].id, found, failed)

\* CompleteCharge, CompleteAuthorize: do not execute what is executed.
CompleteRetrieved(c) ==
  LET found(o) == IF o.status = successStatus(JobOf(call[c].op)) THEN Return(c, "ok")
                  ELSE Go(c, "execute")
      failed(err) == Return(c, err)
  IN  At(c, CompleteOps, "retrieve") /\ Retrieve(call[c].id, found, failed)

\* Capture: never above the hold, and below it the total is changed first.
\* (Fault: no guard above the hold.)
CaptureAnyPlan(q, o) == IF q.amount \notin {Full, o.amount} THEN "change" ELSE "capture"
CapturePlan(q, o) ==
  IF q.amount > o.amount THEN "invalid"
  ELSE IF q.amount \notin {Full, o.amount} THEN "change" ELSE "capture"

CaptureRetrieved(c) ==
  LET found(o) == LET plan == CapturePlan(call[c], o)
                  IN IF plan = "invalid" THEN Return(c, plan) ELSE Go(c, plan)
      failed(err) == Return(c, err)
  IN  At(c, {"capture"}, "retrieve") /\ Retrieve(call[c].id, found, failed)

ChangeBeforeCapture(c) ==
  LET changed(ans) == Go(c, "capture")
      failed(err) == Return(c, err)
      header == deriveIdempotencyKey(call[c].key, "change")
  IN  At(c, {"capture"}, "change") /\ Send(Request(c, "change", header), changed, failed)

CapturePayment(c) ==
  LET captured(ans) == Return(c, "ok")
      failed(err) == Return(c, err)
      header == deriveIdempotencyKey(call[c].key, "capture")
  IN  At(c, {"capture"}, "capture") /\ Send(Request(c, "capture", header), captured, failed)

\* Void refuses a captured payment; Cancel does not look.
CancelRetrieved(c) ==
  LET found(o) == IF call[c].op = "void" /\ o.status = "CAPTURED" THEN Return(c, "failed")
                  ELSE Go(c, "cancel")
      failed(err) == Return(c, err)
  IN  At(c, {"void", "cancel"}, "retrieve") /\ Retrieve(call[c].id, found, failed)

\* Refund: the whole total is a cancel, a part of it a change of the total.
\* (Fault: no guard above the total.)
RefundAnyPlan(q, o) == IF q.amount \in {Full, o.amount} THEN "cancel" ELSE "change"
RefundPlan(q, o) ==
  IF q.amount > o.amount THEN "invalid"
  ELSE IF q.amount \in {Full, o.amount} THEN "cancel" ELSE "change"

RefundRetrieved(c) ==
  LET q == call[c]
      found(o) ==
        LET plan == RefundPlan(q, o)
        IN  IF plan = "invalid" THEN Return(c, plan)
            ELSE IF plan = "cancel" THEN Go(c, plan)
            ELSE call' = [call EXCEPT ![c].pc = plan, ![c].to = o.amount - q.amount]
      failed(err) == Return(c, err)
  IN  At(c, {"refund"}, "retrieve") /\ Retrieve(q.id, found, failed)

\* The last request of Void, Cancel and Refund, under the caller's own key.
CancelOrChange(c) ==
  LET done(ans) == Return(c, "ok")
      failed(err) == Return(c, err)
  IN  \/ /\ At(c, {"void", "cancel", "refund"}, "cancel")
         /\ Send(Request(c, "cancel", <<call[c].key, "">>), done, failed)
      \/ /\ At(c, {"refund"}, "change")
         /\ Send(Request(c, "change", <<call[c].key, "">>), done, failed)

Next ==
  \/ \E c \in Callers :
       \/ Charge(c) \/ Complete(c) \/ Later(c)
       \/ Register(c) \/ Execute(c) \/ ConfirmExecuted(c) \/ resolveExistingOrder(c)
       \/ CompleteRetrieved(c) \/ CaptureRetrieved(c) \/ ChangeBeforeCapture(c)
       \/ CapturePayment(c) \/ CancelRetrieved(c) \/ RefundRetrieved(c) \/ CancelOrChange(c)
  \/ ServeLate \/ Expire

Spec == Init /\ [][Next]_vars

-----------------------------------------------------------------------------
Done(c, ops, res) == At(c, ops, "done") /\ call[c].res = res

\* However a charge is retried, raced, timed out and served late, one key bills
\* the card for one order at most (deriveOrderID: the dedup is permanent).
OneChargePerKey ==
  \A k \in Keys : Cardinality({i \in OrderIds : orders[i].billed /\ orders[i].key = k}) <= 1

\* No interleaving of captures and refunds lifts a total above the hold the
\* customer agreed to (the guard of Capture; refunds only lower).
NeverAboveHold == \A i \in OrderIds : orders[i].amount <= orders[i].held

\* A success the port reports has happened at fincode: not a replayed answer of
\* another request, not an order in another state.
OkMeansDone ==
  \A c \in Callers : LET q == call[c] IN
    /\ Done(c, PayOps \cup CompleteOps, "ok") => orders[q.id].billed
    /\ Done(c, {"capture"}, "ok") => orders[q.id].captured
    /\ Done(c, {"void", "cancel"}, "ok") => orders[q.id].status = "CANCELED"
    /\ Done(c, {"refund"}, "ok") => \/ orders[q.id].status = "CANCELED"
                                    \/ orders[q.id].amount < orders[q.id].held

\* A charge reported as failed for good is not the one that stands at fincode
\* (registerAndExecute resolves a refused register against the order).
FailedMeansNotBilled ==
  [][\A c \in Callers : LET q == call[c] IN
       q.pc # "done" /\ q.key # NoKey /\ q.op \in PayOps /\ Done(c, PayOps, "failed")'
         => LET o == orders'[deriveOrderID(q.key)]
            IN ~ (o.job = JobOf(q.op) /\ o.amount = q.amount /\ o.status = successStatus(o.job))]_vars

\* A key used again for another amount or job is not answered with the outcome
\* of the first use (resolveExistingOrder), when the register is not replayed
\* and the order's total was not lowered to just this amount since.
KeyReuseRejected ==
  [][\A c \in Callers : LET q == call[c] IN
       q.pc # "done" /\ ~ q.replayed /\ Done(c, PayOps, "ok")'
         => LET o == orders'[q.id]
            IN q.amount \in {o.held, o.amount} /\ o.job = JobOf(q.op)]_vars

\* The same of every charge, as gateway.go:291-299 and README.md say it.
KeyReuseNeverReplays ==
  \A c \in Callers : LET q == call[c] IN
    Done(c, PayOps, "ok") => orders[q.id].held = q.amount /\ orders[q.id].job = JobOf(q.op)

\* A partial refund retried with its key inside the window is one refund
\* (gateway.go:520-526).
RefundRetryIsSafe ==
  \A k \in Keys : bound[k] # <<>> /\ bound[k][1] = "refund" /\ bound[k][3] # Full
                    => taken[k] <= bound[k][3]
=============================================================================
