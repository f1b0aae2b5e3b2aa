---------------------------- MODULE StripeGateway ----------------------------
(***************************************************************************)
(* The payment gateway of src/stripe/gateway.go and the webhook handler of *)
(* src/stripe/webhook.go, with the consumer that books what those say.     *)
(* Unlike fincode every port call is one mutating request; the hard part   *)
(* is what comes after it: a payment by konbini, bank transfer or PayPay   *)
(* settles hours later, a refund is pending and may still fail, and the    *)
(* news come as webhooks, in any order, again until they are accepted.     *)
(*                                                                         *)
(* Stripe, its customers and the deduplicating consumer are external.  An  *)
(* intent and a refund carry the sequence of their statuses: each status   *)
(* is an event, so the events are a function of the state.  Stripe's       *)
(* "pending" stands for its "requires_action" of a refund as well: the     *)
(* adapter treats both alike.  The 24 hours after which Stripe forgets an  *)
(* idempotency key do not pass here.                                       *)
(***************************************************************************)
EXTENDS Naturals, Sequences, FiniteSets

CONSTANTS
  Keys,        \* idempotency keys of Charge and Authorize
  Refunds,     \* idempotency keys of Refund
  Methods,     \* types of payment methods used, a subset of AllMethods
  MaxIntents,  \* bound on the PaymentIntents
  MaxTime,     \* bound on the clock
  Tolerance    \* WebhookConfig.Tolerance

AllMethods == {"card", "konbini", "customer_balance", "paypay"}
Hold == 2      \* minor units of every intent; a partial capture takes 1

ASSUME StripeAssumption ==
  /\ {MaxIntents, MaxTime, Tolerance} \subseteq Nat
  /\ Methods \subseteq AllMethods
  /\ Keys \cap Refunds = {}  \* told is indexed by both: a call has a key of its own

ASSUME KeysAssumption == "" \notin Keys  \* every payment has a key

VARIABLES
  intents,   \* Stripe: the PaymentIntents
  refunds,   \* Stripe: per refund key, its intent and its statuses so far
  saved,     \* Stripe: per key, the intent whose first answer is replayed, or 0
  late,      \* requests whose caller has given up on them
  told,      \* per key of a charge or a refund: what the last answer said
  captured,  \* per intent: the amount Capture reported
  seen,      \* events the handler accepted and the consumer has booked, once each
  clock

stripe == <<intents, refunds, saved>>
vars == <<intents, refunds, saved, late, told, captured, seen, clock>>

Ids == 1..MaxIntents
IntentStatuses ==
  {"requires_action", "processing", "succeeded", "requires_capture", "canceled",
   "requires_payment_method"}
RefundStatuses == {"pending", "succeeded", "failed", "canceled"}
\* Answers to a request other than the intent; "transport" is no answer.
Errors == {"transport", "api_error", "rate_limit", "card_error", "invalid_request"}
Told == {"none", "unknown", "succeeded", "authorized", "requires_action", "pending",
         "canceled", "failed"}
None == [key |-> "", method |-> "card", manual |-> FALSE, received |-> 0, past |-> <<>>]

Has(x, status) == \E n \in DOMAIN x.past : x.past[n][1] = status
Now(x) == IF x.past = <<>> THEN "none" ELSE x.past[Len(x.past)][1]
Reach(x, status) == [x EXCEPT !.past = Append(@, <<status, clock>>)]

isAsyncSettlementType(m) == m \in {"konbini", "customer_balance"}
isChargeOnlyType(m) == isAsyncSettlementType(m) \/ m = "paypay"

\* What the port is told of an intent, and of an error: it may try again.
\* (Fault: Stripe's status is passed on.)
mapIntentStatusRaw(s) == s
mapIntentStatus(s) ==
  CASE s = "succeeded" -> "succeeded"
    [] s = "requires_capture" -> "authorized"
    [] s = "requires_action" -> "requires_action"
    [] s = "canceled" -> "canceled"
    [] s = "requires_payment_method" -> "failed"
    [] OTHER -> "pending"

\* (Fault: an error of the API itself is final.)
isRetryableRateLimit(err) == err = "rate_limit"
isRetryable(err) == err \in {"rate_limit", "api_error"}
wrapGatewayError(err) == IF err = "transport" \/ isRetryable(err) THEN "unknown" ELSE "failed"

TypeOK ==
  /\ \A i \in Ids : /\ intents[i].key \in Keys \cup {""}
                    /\ intents[i].method \in AllMethods /\ intents[i].received \in 0..Hold
                    /\ \A n \in DOMAIN intents[i].past :
                         intents[i].past[n] \in IntentStatuses \X (0..MaxTime)
  /\ \A r \in Refunds : \A n \in DOMAIN refunds[r].past :
       refunds[r].past[n] \in RefundStatuses \X (0..MaxTime)
  /\ saved \in [Keys -> 0..MaxIntents]
  /\ told \in [Keys \cup Refunds -> Told]
  /\ captured \in [Ids -> 0..Hold]
  /\ clock \in 0..MaxTime

Init ==
  /\ intents = [i \in Ids |-> None]
  /\ refunds = [r \in Refunds |-> [intent |-> 0, past |-> <<>>]]
  /\ saved = [k \in Keys |-> 0]
  /\ late = {} /\ seen = {} /\ clock = 0
  /\ told = [k \in Keys \cup Refunds |-> "none"]
  /\ captured = [i \in Ids |-> 0]

-----------------------------------------------------------------------------
(* Requests.  A new intent is confirmed at once: a card settles, is held, is *)
(* declined or asks for 3D Secure; every other method asks for an action.    *)

Confirmed(q) ==
  IF isChargeOnlyType(q.method) THEN {"requires_action"}
  ELSE {"requires_action", "requires_payment_method",
        IF q.manual THEN "requires_capture" ELSE "succeeded"}

\* The key under which Stripe saves the answer.
\* (Fault: the key of the request is not forwarded.)
setIdempotencyKeyNot(q) == ""
setIdempotencyKey(q) == q.key

\* POST /v1/payment_intents serves q; the answer is about intent i.
Create(q, i) ==
  \/ /\ setIdempotencyKey(q) # "" /\ saved[q.key] # 0
     /\ i = saved[q.key]
     /\ UNCHANGED stripe
  \/ /\ setIdempotencyKey(q) = "" \/ saved[q.key] = 0
     /\ intents[i] = None /\ \A j \in 1..(i - 1) : intents[j] # None
     /\ \E s \in Confirmed(q) :
          intents' = [intents EXCEPT ![i] =
            Reach([None EXCEPT !.key = q.key, !.method = q.method, !.manual = q.manual,
                     !.received = IF s = "succeeded" THEN Hold ELSE 0], s)]
     /\ saved' = [saved EXCEPT ![q.key] = i]
     /\ UNCHANGED refunds

Of(i, q) == intents[i].key = q.key /\ intents[i].method = q.method /\ intents[i].manual = q.manual

\* The answer about an intent with status s: a declined card is an error.
toResponse(s) ==
  IF s = "requires_payment_method" THEN wrapGatewayError("card_error") ELSE mapIntentStatus(s)

\* Charge and Authorize, called and, while the outcome is unknown, retried with
\* the same request.  Stripe may still serve a request it has not answered, or
\* has answered with an error of its own; a retry adds nothing to these.
Pay(manual, methods) ==
  \E k \in Keys, m \in methods :
    LET q == [key |-> k, method |-> m, manual |-> manual]
    IN  /\ told[k] \in {"none", "unknown"}
        /\ \A p \in late : p.key = k => p = q
        /\ \A i \in Ids : intents[i].key = k => Of(i, q)
        /\ \/ \E i \in Ids : /\ Create(q, i)
                             /\ told' = [told EXCEPT ![k] = toResponse(intents'[i].past[1][1])]
                             /\ UNCHANGED late
           \/ /\ told[k] = "none"
              /\ \E err \in Errors \ {"card_error"} :
                   /\ told' = [told EXCEPT ![k] = wrapGatewayError(err)]
                   /\ late' = IF err \in {"transport", "api_error"} THEN late \cup {q} ELSE late
              /\ UNCHANGED stripe
        /\ UNCHANGED <<captured, seen, clock>>

Charge == Pay(FALSE, Methods)

\* Authorize refuses the methods that have nothing to hold.
Authorize == Pay(TRUE, {m \in Methods : ~ isChargeOnlyType(m)})

\* A request nobody waits for is served after all.
ServeLate ==
  \E q \in late, i \in Ids :
    /\ Create(q, i)
    /\ late' = late \ {q}
    /\ UNCHANGED <<told, captured, seen, clock>>

\* The amount Capture reports of the intent in Stripe's answer.
Captured(x) == IF x.received = 0 /\ Now(x) = "succeeded" THEN Hold ELSE x.received

\* Capture: all of the hold or a part, settled at once or in processing.
Capture ==
  \E i \in Ids, a \in 1..Hold, s \in {"succeeded", "processing"} :
    /\ Now(intents[i]) = "requires_capture"
    /\ intents' = [intents EXCEPT ![i] =
         Reach([@ EXCEPT !.received = IF s = "succeeded" THEN a ELSE 0], s)]
    /\ captured' \in {captured, [captured EXCEPT ![i] = Captured(intents'[i])]}
    /\ UNCHANGED <<refunds, saved, late, told, seen, clock>>

\* Void, Cancel: an intent that has not been paid.
VoidOrCancel ==
  \E i \in Ids :
    /\ Now(intents[i]) \in {"requires_capture", "requires_action", "requires_payment_method"}
    /\ intents' = [intents EXCEPT ![i] = Reach(@, "canceled")]
    /\ UNCHANGED <<refunds, saved, late, told, captured, seen, clock>>

mapRefundStatus(s) == IF s \in {"succeeded", "failed", "canceled"} THEN s ELSE "pending"

\* Refund: the refund of a card is booked at once, of any other method later.
Refund ==
  \E r \in Refunds, i \in Ids :
    /\ refunds[r].past = <<>> /\ Now(intents[i]) = "succeeded"
    /\ \E s \in {"pending"} \cup {x \in {"succeeded"} : intents[i].method = "card"} :
         /\ refunds' = [refunds EXCEPT ![r] = Reach([@ EXCEPT !.intent = i], s)]
         /\ told' \in {told, [told EXCEPT ![r] = mapRefundStatus(s)]}
    /\ UNCHANGED <<intents, saved, late, captured, seen, clock>>

\* The customer pays, approves or fails to; Stripe settles or gives up.
Settle ==
  \E i \in Ids :
    /\ \/ /\ Now(intents[i]) = "requires_action"
          /\ \E s \in {"requires_payment_method", "processing",
                       IF intents[i].manual THEN "requires_capture" ELSE "succeeded"} :
               intents' = [intents EXCEPT ![i] =
                 Reach([@ EXCEPT !.received = IF s = "succeeded" THEN Hold ELSE 0], s)]
       \/ /\ Now(intents[i]) = "processing"
          /\ \/ intents' = [intents EXCEPT ![i] = Reach([@ EXCEPT !.received = Hold], "succeeded")]
             \/ intents' = [intents EXCEPT ![i] = Reach(@, "requires_payment_method")]
    /\ UNCHANGED <<refunds, saved, late, told, captured, seen, clock>>

\* A pending refund settles, fails or is called off; a settled one may still fail.
SettleRefund ==
  \E r \in Refunds, s \in {"succeeded", "failed", "canceled"} :
    /\ \/ Now(refunds[r]) = "pending"
       \/ Now(refunds[r]) = "succeeded" /\ s = "failed"
    /\ refunds' = [refunds EXCEPT ![r] = Reach(@, s)]
    /\ UNCHANGED <<intents, saved, late, told, captured, seen, clock>>

-----------------------------------------------------------------------------
(* Webhooks.  The event of the n-th status of an intent or a refund.        *)

IntentEvent(i, n) ==
  LET s == intents[i].past[n][1]
  IN  [name |-> CASE s = "requires_payment_method" -> "payment_intent.payment_failed"
                  [] s = "requires_capture" -> "payment_intent.amount_capturable_updated"
                  [] s = "requires_action" -> "payment_intent.requires_action"
                  [] s = "processing" -> "payment_intent.processing"
                  [] s = "canceled" -> "payment_intent.canceled"
                  [] OTHER -> "payment_intent.succeeded",
       intent |-> i, refund |-> "", about |-> intents[i].method, created |-> intents[i].past[n][2]]

\* charge.refunded embeds the newest refund, or none to an endpoint of an API
\* version since 2022-11-15; charge.refund.updated is the same as refund.updated.
RefundEvents(r, n) ==
  LET s == refunds[r].past[n][1]
      about(name, status) == [name |-> name, intent |-> refunds[r].intent, refund |-> r,
                              about |-> status, created |-> refunds[r].past[n][2]]
  IN  IF n = 1
      THEN {about("refund.created", s), about("charge.refunded", s), about("charge.refunded", "")}
      ELSE IF s = "failed" THEN {about("refund.updated", s), about("refund.failed", s)}
      ELSE {about("refund.updated", s)}

Events ==
  (UNION {{IntentEvent(i, n) : n \in DOMAIN intents[i].past} : i \in Ids})
  \cup (UNION {UNION {RefundEvents(r, n) : n \in DOMAIN refunds[r].past} : r \in Refunds})

\* The status of the refund decides, not the name of the event.
classifyRefundEvent(e) ==
  CASE e.about = "succeeded" -> "RefundSucceeded"
    [] e.about \in {"failed", "canceled"} -> "RefundFailed"
    [] OTHER -> "raw"

\* With no refund embedded there is no status to go by.
classifyChargeRefundedEvent(e) == IF e.about = "" THEN "raw" ELSE classifyRefundEvent(e)

classifyRequiresActionEvent(e) ==
  IF isAsyncSettlementType(e.about) THEN "PaymentInstructionCreated" ELSE "raw"

stripeEventMap(name) ==
  CASE name = "payment_intent.succeeded" -> "PaymentSucceeded"
    [] name = "payment_intent.payment_failed" -> "PaymentFailed"
    [] name = "payment_intent.processing" -> "PaymentPending"
    [] name = "refund.failed" -> "RefundFailed"
    [] OTHER -> "raw"

toWebhookEventType(e) ==
  CASE e.name \in {"refund.created", "refund.updated"} -> classifyRefundEvent(e)
    [] e.name = "charge.refunded" -> classifyChargeRefundedEvent(e)
    [] e.name = "payment_intent.requires_action" -> classifyRequiresActionEvent(e)
    [] OTHER -> stripeEventMap(e.name)

\* The types the consumer books; it accepts the others and does nothing.
Money == {"PaymentSucceeded", "PaymentFailed", "RefundSucceeded", "RefundFailed"}

\* The signed timestamp of a request is t, the handler's clock shows now.
\* (Fault: the age of the event is checked, not the age of the request.)
verifyCreatedAt(e, t, now) == now <= e.created + Tolerance
verifyTimestamp(e, t, now) == now <= t + Tolerance /\ t <= now + Tolerance

\* A request with event e arrives that Stripe signed at time t: Stripe signs
\* every attempt anew and tries again until the event is accepted.
ParseAndVerify(e, t, now) ==
  /\ e \notin seen
  /\ seen' = IF verifyTimestamp(e, t, now) /\ toWebhookEventType(e) \in Money
             THEN seen \cup {e} ELSE seen
  /\ UNCHANGED <<stripe, late, told, captured, clock>>

Redelivered == \E e \in Events : ParseAndVerify(e, clock, clock)

\* A request that was long under way, or a handler whose clock is slow or fast.
Delayed ==
  \E e \in Events, now \in 0..MaxTime : \E t \in e.created..clock : ParseAndVerify(e, t, now)

Tick ==
  /\ clock < MaxTime
  /\ clock' = clock + 1
  /\ UNCHANGED <<stripe, late, told, captured, seen>>

Next ==
  \/ Charge \/ Authorize \/ ServeLate \/ Capture \/ VoidOrCancel \/ Refund
  \/ Settle \/ SettleRefund \/ Redelivered \/ Delayed \/ Tick

\* Stripe redelivers, and the handler answers what it gets.
Fairness == WF_vars(Redelivered)

Spec == Init /\ [][Next]_vars /\ Fairness

-----------------------------------------------------------------------------
Booked(type) == {e \in seen : toWebhookEventType(e) = type}

\* While Stripe remembers the key, retries and late requests are one intent.
OneIntentPerKey ==
  \A i, j \in Ids : intents[i].key = intents[j].key /\ intents[i].key # "" => i = j

\* What is booked, on an answer or on an event, has happened at Stripe.  Paid has
\* been received: not the voucher that was issued, not the payment in
\* processing, not a hold.  Refunded was refunded, whatever became of it later
\* (refunds are created pending: issue #13), and a refund is given up only when
\* it failed or was called off.  Dunning starts only for a payment that failed,
\* never for one that was called off; and a charge that is reported as failed
\* for good is not paid by a request that Stripe serves late.
BookedMeansHappened ==
  /\ \A e \in Booked("PaymentSucceeded") : intents[e.intent].received > 0
  /\ \A k \in Keys : told[k] = "succeeded" =>
       \E i \in Ids : intents[i].key = k /\ intents[i].received > 0
  /\ \A k \in Keys : told[k] = "failed" =>
       \A i \in Ids : intents[i].key = k => intents[i].received = 0
  /\ \A i \in Ids : captured[i] <= intents[i].received
  /\ \A e \in Booked("RefundSucceeded") : Has(refunds[e.refund], "succeeded")
  /\ \A e \in Booked("RefundFailed") :
       Has(refunds[e.refund], "failed") \/ Has(refunds[e.refund], "canceled")
  /\ \A r \in Refunds : told[r] = "succeeded" => Has(refunds[r], "succeeded")
  /\ \A e \in Booked("PaymentFailed") : Has(intents[e.intent], "requires_payment_method")

\* However late the event is accepted, a settled payment and the end of a refund,
\* which may be a second one, become known: a pending refund that settles, one
\* that fails, even after it settled, and one that is called off (redeliveries
\* are signed anew: webhook.go:63-78).
SettlementIsBooked ==
  /\ \A i \in Ids : Has(intents[i], "succeeded")
       ~> \E e \in Booked("PaymentSucceeded") : e.intent = i
  /\ \A r \in Refunds : Has(refunds[r], "succeeded")
       ~> \E e \in Booked("RefundSucceeded") : e.refund = r
  /\ \A r \in Refunds : Now(refunds[r]) \in {"failed", "canceled"}
       ~> \E e \in Booked("RefundFailed") : e.refund = r
=============================================================================
