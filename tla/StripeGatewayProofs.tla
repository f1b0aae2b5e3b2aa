------------------------ MODULE StripeGatewayProofs ------------------------
(***************************************************************************)
(* Theorems about StripeGateway, for any keys, methods and clocks: its     *)
(* types, that one idempotency key is one intent, and that nothing is      *)
(* booked that has not happened.                                           *)
(*                                                                         *)
(* The argument: a status once reached stays in the past of its intent or  *)
(* refund, so whatever an answer or an event says stays true however late  *)
(* it is booked (Answers, News).  "succeeded" is moreover the last status  *)
(* of an intent (Final), so the amount received is never lowered under one *)
(* that was reported (Captures).  And the answer that Stripe saves for a   *)
(* key names the only intent made with it (Saves), so that a payment       *)
(* reported as failed for good has either an intent that was declined at   *)
(* once, or none and no request under way that could make one (Failures).  *)
(***************************************************************************)
EXTENDS StripeGateway, SequenceTheorems, TLAPS

Past(S) == Seq(S \X (0..MaxTime))

Intent == [key : Keys \cup {""}, method : AllMethods, manual : BOOLEAN,
           received : 0..Hold, past : Past(IntentStatuses)]
RefundState == [intent : 0..MaxIntents, past : Past(RefundStatuses)]
Request == [key : Keys, method : AllMethods, manual : BOOLEAN]

Types ==
  /\ intents \in [Ids -> Intent] /\ refunds \in [Refunds -> RefundState]
  /\ saved \in [Keys -> 0..MaxIntents] /\ late \subseteq Request
  /\ told \in [Keys \cup Refunds -> Told]
  /\ captured \in [Ids -> 0..Hold] /\ clock \in 0..MaxTime

\* An intent that was paid stays so, with what was received.
Final(x) == Has(x, "succeeded") => Now(x) = "succeeded" /\ x.received > 0

Settled == \A i \in Ids : Final(intents[i])

\* The answer saved for a key is about the intent made with it.
Saves ==
  /\ \A i \in Ids : intents[i].key # "" => saved[intents[i].key] = i
  /\ \A k \in Keys : saved[k] # 0 =>
       intents[saved[k]].key = k /\ intents[saved[k]].past # <<>>

Answers ==
  /\ \A k \in Keys : told[k] = "succeeded" =>
       \E i \in Ids : intents[i].key = k /\ Has(intents[i], "succeeded")
  /\ \A r \in Refunds : told[r] = "succeeded" => Has(refunds[r], "succeeded")

\* What Capture reported was received, and nothing changes after it.
Captures ==
  \A i \in Ids : /\ captured[i] <= intents[i].received
                 /\ captured[i] > 0 => Now(intents[i]) = "succeeded"

\* An intent that was declined at once is never paid.
Declined(x) ==
  x.past # <<>> /\ x.past[1][1] = "requires_payment_method" =>
    x.received = 0 /\ Now(x) \in {"requires_payment_method", "canceled"}

\* No request with the key k was served or can still be.
Unused(k) == saved[k] = 0 /\ \A q \in late : q.key # k

Failures ==
  /\ \A i \in Ids : Declined(intents[i])
  /\ \A k \in Keys :
       /\ told[k] = "none" => Unused(k)
       /\ told[k] = "failed" =>
            \/ Unused(k)
            \/ saved[k] # 0 /\ intents[saved[k]].past[1][1] = "requires_payment_method"

\* What the event e says of its intent or refund has happened.
True(e) ==
  /\ toWebhookEventType(e) = "PaymentSucceeded" =>
       e.intent \in Ids /\ Has(intents[e.intent], "succeeded")
  /\ toWebhookEventType(e) = "PaymentFailed" =>
       e.intent \in Ids /\ Has(intents[e.intent], "requires_payment_method")
  /\ toWebhookEventType(e) = "RefundSucceeded" =>
       e.refund \in Refunds /\ Has(refunds[e.refund], "succeeded")
  /\ toWebhookEventType(e) = "RefundFailed" =>
       /\ e.refund \in Refunds
       /\ Has(refunds[e.refund], "failed") \/ Has(refunds[e.refund], "canceled")

News == \A e \in seen : True(e)

IInv == Types /\ Settled /\ Saves /\ Answers /\ Failures /\ Captures /\ News
-----------------------------------------------------------------------------
(***************************************************************************)
(* Pasts                                                                   *)
(***************************************************************************)
LEMMA IntentFields ==
  ASSUME NEW x \in Intent
  PROVE  /\ x.key \in Keys \cup {""} /\ x.method \in AllMethods /\ x.manual \in BOOLEAN
         /\ x.received \in 0..Hold /\ x.received \in Nat
         /\ x.past \in Past(IntentStatuses)
<1>1. /\ x.key \in Keys \cup {""} /\ x.method \in AllMethods /\ x.manual \in BOOLEAN
      /\ x.past \in Past(IntentStatuses)
  BY DEF Intent
<1>2. x.received \in 0..Hold
  BY DEF Intent
<1>3. x.received \in Nat
  BY <1>2 DEF Hold
<1> QED
  BY <1>1, <1>2, <1>3

\* A past p has the status s.
Holds(p, s) == \E n \in DOMAIN p : p[n][1] = s

\* A past p with one more status.
Longer(p, s, t) == Append(p, <<s, t>>)

LEMMA PastAppend ==
  ASSUME NEW S, NEW p \in Past(S), NEW s \in S, NEW t \in 0..MaxTime
  PROVE  LET q == Longer(p, s, t)
         IN  /\ q \in Past(S) /\ q # <<>> /\ q[Len(q)][1] = s
             /\ \A u : Holds(q, u) <=> u = s \/ Holds(p, u)
             /\ p # <<>> => q[1] = p[1]
             /\ p = <<>> => q[1][1] = s
<1> DEFINE q == Append(p, <<s, t>>)
<1>1. <<s, t>> \in S \X (0..MaxTime) /\ <<s, t>>[1] = s
  OBVIOUS
<1>2. p \in Seq(S \X (0..MaxTime))
  BY DEF Past
<1>3. /\ q \in Seq(S \X (0..MaxTime)) /\ q # <<>> /\ Len(q) = Len(p) + 1
      /\ \A n \in 1..Len(p) : q[n] = p[n]
      /\ q[Len(p) + 1] = <<s, t>>
  <2> DEFINE P == S \X (0..MaxTime)
  <2>1. p \in Seq(P) /\ <<s, t>> \in P
    BY <1>1, <1>2
  <2>2. PICK e : e = <<s, t>>
    OBVIOUS
  <2> HIDE DEF P
  <2>3. /\ Append(p, e) \in Seq(P) /\ Append(p, e) # <<>>
        /\ Len(Append(p, e)) = Len(p) + 1
        /\ \A n \in 1..Len(p) : Append(p, e)[n] = p[n]
        /\ Append(p, e)[Len(p) + 1] = e
    BY <2>1, <2>2, AppendProperties
  <2> QED
    BY <2>2, <2>3 DEF P
<1>4. Len(p) \in Nat /\ DOMAIN p = 1..Len(p) /\ DOMAIN q = 1..(Len(p) + 1)
  BY <1>2, <1>3, LenProperties
<1> HIDE DEF q
<1>5. ASSUME NEW u
      PROVE  Holds(q, u) <=> u = s \/ Holds(p, u)
  <2>1. ASSUME NEW n \in DOMAIN q, q[n][1] = u
        PROVE  u = s \/ \E m \in DOMAIN p : p[m][1] = u
    <3>1. n \in 1..Len(p) \/ n = Len(p) + 1
      BY <1>4
    <3> QED
      BY <3>1, <2>1, <1>1, <1>3, <1>4
  <2>2. ASSUME u = s PROVE \E n \in DOMAIN q : q[n][1] = u
    <3>1. Len(p) + 1 \in DOMAIN q
      BY <1>4
    <3> QED
      BY <3>1, <2>2, <1>1, <1>3
  <2>3. ASSUME NEW n \in DOMAIN p, p[n][1] = u PROVE \E m \in DOMAIN q : q[m][1] = u
    <3>1. n \in DOMAIN q /\ q[n] = p[n]
      BY <1>3, <1>4
    <3> QED
      BY <3>1, <2>3
  <2> QED
    BY <2>1, <2>2, <2>3 DEF Holds
<1>6. p # <<>> => q[1] = p[1]
  <2>1. ASSUME p # <<>> PROVE 1 \in 1..Len(p)
    BY <2>1, <1>2, <1>4, EmptySeq
  <2> QED
    BY <2>1, <1>3
<1>7. q[Len(q)][1] = s
  BY <1>1, <1>3
<1>9. p = <<>> => q[1][1] = s
  <2>1. ASSUME p = <<>> PROVE Len(p) + 1 = 1
    BY <2>1, <1>2, <1>4, EmptySeq
  <2> QED
    BY <2>1, <1>1, <1>3
<1>8. q \in Past(S)
  BY <1>3 DEF Past
<1> QED
  BY <1>3, <1>5, <1>6, <1>7, <1>8, <1>9 DEF q, Longer

\* An intent that reaches a status.
LEMMA ReachIntent ==
  ASSUME NEW x \in Intent, NEW s \in IntentStatuses, clock \in 0..MaxTime
  PROVE  LET y == Reach(x, s)
         IN  /\ y \in Intent /\ y.key = x.key /\ y.method = x.method
             /\ y.manual = x.manual /\ y.received = x.received
             /\ y.past # <<>> /\ Now(y) = s
             /\ \A t : Has(y, t) <=> Has(x, t) \/ t = s
             /\ x.past # <<>> => y.past[1] = x.past[1]
             /\ x.past = <<>> => y.past[1][1] = s
<1> DEFINE q == Longer(x.past, s, clock)
<1>1. x.past \in Past(IntentStatuses)
  BY IntentFields
<1>2. q \in Past(IntentStatuses) /\ q # <<>> /\ q[Len(q)][1] = s
  BY <1>1, PastAppend
<1>5. \A u : Holds(q, u) <=> u = s \/ Holds(x.past, u)
  BY <1>1, PastAppend
<1>8. (x.past # <<>> => q[1] = x.past[1]) /\ (x.past = <<>> => q[1][1] = s)
  BY <1>1, PastAppend
<1>3. Reach(x, s) = [x EXCEPT !.past = q]
  BY DEF Reach, Longer
<1> HIDE DEF q
<1>4. /\ Reach(x, s) \in Intent /\ Reach(x, s).key = x.key
      /\ Reach(x, s).method = x.method /\ Reach(x, s).manual = x.manual
      /\ Reach(x, s).received = x.received /\ Reach(x, s).past = q
  BY <1>2, <1>3 DEF Intent
<1>6. Now(Reach(x, s)) = s
  BY <1>2, <1>4 DEF Now
<1>7. \A t : Has(Reach(x, s), t) <=> Has(x, t) \/ t = s
  BY <1>4, <1>5 DEF Has, Holds
<1> QED
  BY <1>2, <1>4, <1>6, <1>7, <1>8

LEMMA ReachRefund ==
  ASSUME NEW x \in RefundState, NEW s \in RefundStatuses, clock \in 0..MaxTime
  PROVE  /\ Reach(x, s) \in RefundState
         /\ \A t : Has(Reach(x, s), t) <=> Has(x, t) \/ t = s
<1> DEFINE q == Longer(x.past, s, clock)
<1>1. x.past \in Past(RefundStatuses)
  BY DEF RefundState
<1>2. /\ q \in Past(RefundStatuses)
      /\ \A u : Holds(q, u) <=> u = s \/ Holds(x.past, u)
  BY <1>1, PastAppend
<1>3. Reach(x, s) = [x EXCEPT !.past = q]
  BY DEF Reach, Longer
<1> HIDE DEF q
<1>4. Reach(x, s) \in RefundState /\ Reach(x, s).past = q
  BY <1>2, <1>3 DEF RefundState
<1> QED
  BY <1>2, <1>4 DEF Has, Holds

LEMMA NothingHappened ==
  /\ None \in Intent /\ None.key = "" /\ None.received = 0 /\ None.past = <<>>
  /\ \A t : ~Has(None, t)
<1>1. <<>> \in Past(IntentStatuses)
  BY DEF Past
<1> QED
  BY <1>1 DEF None, Intent, AllMethods, Has, Hold

-----------------------------------------------------------------------------
LEMMA InitInv == Init => IInv
<1> SUFFICES ASSUME Init PROVE IInv
  OBVIOUS
<1>1. <<>> \in Past(RefundStatuses) /\ 0 \in 0..MaxIntents /\ 0 \in 0..MaxTime
  BY StripeAssumption DEF Past
<1>2. \A i \in Ids : intents[i] = None
  BY DEF Init
<1>3. Types
  <2>1. intents \in [Ids -> Intent]
    BY NothingHappened DEF Init
  <2>2. refunds \in [Refunds -> RefundState]
    BY <1>1 DEF Init, RefundState
  <2> QED
    BY <1>1, <2>1, <2>2 DEF Init, Types, Told, Hold
<1>4. Settled
  BY <1>2, NothingHappened DEF Settled, Final
<1>5. Saves /\ Answers /\ News
  BY <1>2, NothingHappened DEF Init, Saves, Answers, News
<1>7. Failures
  BY <1>2, NothingHappened, StripeAssumption DEF Init, Failures, Declined, Unused
<1>6. Captures
  <2>1. \A i \in Ids : captured[i] = 0 /\ intents[i].received = 0
    BY <1>2, NothingHappened DEF Init
  <2> QED
    BY <2>1 DEF Captures
<1> QED
  BY <1>3, <1>4, <1>5, <1>6, <1>7 DEF IInv

\* What was said stays true while no intent and no refund loses a status.
LEMMA TrueStays ==
  ASSUME NEW e, True(e),
         \A i \in Ids : \A t : Has(intents[i], t) => Has(intents'[i], t),
         \A r \in Refunds : \A t : Has(refunds[r], t) => Has(refunds'[r], t)
  PROVE  True(e)'
BY DEF True

\* x is what the intent i may become once it is confirmed.
Follows(x, i) ==
  /\ x \in Intent /\ x.key = intents[i].key /\ x.past # <<>> /\ Final(x) /\ Declined(x)
  /\ intents[i].past # <<>> => x.past[1] = intents[i].past[1]
  /\ \A t : Has(intents[i], t) => Has(x, t)

\* Capture may report c of the intent x.
MayReport(c, x) == c \in 0..Hold /\ c <= x.received /\ (c > 0 => Now(x) = "succeeded")

LEMMA IntentInv ==
  ASSUME IInv, NEW i \in Ids, NEW x, NEW c, Follows(x, i), MayReport(c, x),
         intents' = [intents EXCEPT ![i] = x], captured' = [captured EXCEPT ![i] = c],
         UNCHANGED <<refunds, saved, late, told, seen, clock>>
  PROVE  IInv'
<1> USE DEF Follows, MayReport
<1>1. Types'
  BY DEF IInv, Types
<1>2. \A j \in Ids : /\ intents'[j] = IF j = i THEN x ELSE intents[j]
                     /\ captured'[j] = IF j = i THEN c ELSE captured[j]
  BY DEF IInv, Types
<1>3. \A j \in Ids : /\ intents'[j].key = intents[j].key
                     /\ intents[j].past # <<>> => intents'[j].past[1] = intents[j].past[1]
                     /\ intents[j].past # <<>> => intents'[j].past # <<>>
                     /\ \A t : Has(intents[j], t) => Has(intents'[j], t)
  BY <1>2
<1>4. Settled'
  BY <1>2 DEF IInv, Settled
<1>5. Saves'
  <2>1. \A k \in Keys : saved[k] # 0 => saved[k] \in Ids
    BY StripeAssumption DEF IInv, Types, Ids
  <2> QED
    BY <2>1, <1>3 DEF IInv, Saves
<1>6. Answers'
  BY <1>3 DEF IInv, Answers
<1>7. Captures'
  BY <1>2 DEF IInv, Captures
<1>8. News'
  BY <1>3, TrueStays DEF IInv, News
<1>9. Failures'
  <2>1. \A j \in Ids : Declined(intents'[j])
    BY <1>2 DEF IInv, Failures
  <2>2. ASSUME NEW k \in Keys, saved[k] # 0
        PROVE  intents'[saved[k]].past[1] = intents[saved[k]].past[1]
    <3>1. saved[k] \in Ids
      BY <2>2, StripeAssumption DEF IInv, Types, Ids
    <3>2. intents[saved[k]].past # <<>>
      BY <2>2 DEF IInv, Saves
    <3> QED
      BY <3>1, <3>2, <1>3
  <2> QED
    BY <2>1, <2>2 DEF IInv, Failures, Unused
<1> QED
  BY <1>1, <1>4, <1>5, <1>6, <1>7, <1>8, <1>9 DEF IInv

\* Nothing was reported of an intent that has not succeeded.
LEMMA NotCaptured ==
  ASSUME IInv, NEW i \in Ids, Now(intents[i]) # "succeeded"
  PROVE  captured[i] = 0 /\ captured = [captured EXCEPT ![i] = 0]
<1>1. captured[i] \in 0..Hold
  BY DEF IInv, Types
<1>2. ~(captured[i] > 0)
  BY DEF IInv, Captures
<1>3. captured[i] = 0
  BY <1>1, <1>2 DEF Hold
<1> QED
  BY <1>3 DEF IInv, Types

\* An intent of which a was received reaches the status s.
Receives(x, a, s) == Reach([x EXCEPT !.received = a], s)

LEMMA ReceivesIntent ==
  ASSUME NEW x \in Intent, NEW a \in 0..Hold, NEW s \in IntentStatuses, clock \in 0..MaxTime
  PROVE  LET y == Receives(x, a, s)
         IN  /\ y \in Intent /\ y.key = x.key /\ y.received = a
             /\ y.past # <<>> /\ Now(y) = s
             /\ \A t : Has(y, t) <=> Has(x, t) \/ t = s
             /\ x.past # <<>> => y.past[1] = x.past[1]
<1> DEFINE z == [x EXCEPT !.received = a]
<1>1. /\ z \in Intent /\ z.key = x.key /\ z.received = a /\ z.past = x.past
  BY DEF Intent
<1>2. Receives(x, a, s) = Reach(z, s)
  BY DEF Receives
<1>3. \A t : Has(z, t) <=> Has(x, t)
  BY <1>1 DEF Has
<1> HIDE DEF z
<1> QED
  BY <1>1, <1>2, <1>3, ReachIntent

\* The intent i, which has not succeeded, reaches s as x.
Reaches(x, i, s) ==
  /\ x \in Intent /\ x.key = intents[i].key /\ x.past # <<>> /\ Now(x) = s
  /\ \A t : Has(x, t) <=> Has(intents[i], t) \/ t = s
  /\ s = "succeeded" => x.received > 0
  /\ intents[i].past # <<>> => x.past[1] = intents[i].past[1]

\* The intent i can still be paid, or it ends unpaid as x.
Open(i, s, x) ==
  \/ Now(intents[i]) \in {"requires_action", "processing", "requires_capture"}
  \/ /\ Now(intents[i]) = "requires_payment_method"
     /\ s = "canceled" /\ x.received = intents[i].received

LEMMA ReachesFollows ==
  ASSUME IInv, NEW i \in Ids, NEW s, NEW x, Reaches(x, i, s), Open(i, s, x)
  PROVE  Follows(x, i) /\ MayReport(0, x)
<1>1. ~Has(intents[i], "succeeded")
  BY DEF IInv, Settled, Final, Open
<1>4. Declined(x)
  <2>1. intents[i].past # <<>>
    BY DEF Open, Now
  <2>2. Declined(intents[i])
    BY DEF IInv, Failures
  <2> QED
    BY <2>1, <2>2 DEF Declined, Reaches, Open
<1>2. Final(x)
  BY <1>1 DEF Final, Reaches
<1>3. x.received \in Nat
  BY IntentFields DEF Reaches
<1> QED
  BY <1>2, <1>3, <1>4 DEF Reaches, Follows, MayReport, Hold

LEMMA StatusInv ==
  ASSUME IInv, NEW i \in Ids, NEW s, NEW x, Reaches(x, i, s), Open(i, s, x),
         intents' = [intents EXCEPT ![i] = x],
         UNCHANGED <<refunds, saved, late, told, captured, seen, clock>>
  PROVE  IInv'
<1>1. captured' = [captured EXCEPT ![i] = 0]
  BY NotCaptured DEF Open
<1>2. Follows(x, i) /\ MayReport(0, x)
  BY ReachesFollows
<1> QED
  BY <1>1, <1>2, IntentInv

LEMMA CaptureInv == ASSUME IInv, Capture PROVE IInv'
<1>1. PICK i \in Ids, a \in 1..Hold, s \in {"succeeded", "processing"} :
           /\ Now(intents[i]) = "requires_capture"
           /\ intents' = [intents EXCEPT ![i] =
                Reach([@ EXCEPT !.received = IF s = "succeeded" THEN a ELSE 0], s)]
           /\ captured' \in {captured, [captured EXCEPT ![i] = Captured(intents'[i])]}
           /\ UNCHANGED <<refunds, saved, late, told, seen, clock>>
  BY Zenon DEF Capture
<1> DEFINE b == IF s = "succeeded" THEN a ELSE 0
<1>2. intents[i] \in Intent /\ clock \in 0..MaxTime
  BY DEF IInv, Types
<1> PICK d \in Intent : d = intents[i]
  BY <1>2
<1>3. b \in 0..Hold /\ (s = "succeeded" => b > 0) /\ s \in IntentStatuses
  BY DEF Hold, IntentStatuses
<1> HIDE DEF b
<1>4. /\ Reaches(Receives(d, b, s), i, s) /\ Receives(d, b, s).received = b
  BY <1>2, <1>3, ReceivesIntent DEF Reaches
<1> PICK x : x = Receives(d, b, s)
  OBVIOUS
<1>8. Open(i, s, x)
  BY <1>1 DEF Open
<1>5. intents' = [intents EXCEPT ![i] = x]
  BY <1>1 DEF Receives, b, IInv, Types
<1>6. CASE captured' = captured
  BY <1>1, <1>4, <1>5, <1>6, <1>8, StatusInv
<1>7. CASE captured' = [captured EXCEPT ![i] = Captured(intents'[i])]
  <2>1. intents'[i] = x
    BY <1>5 DEF IInv, Types
  <2>2. Captured(x) = b
    BY <1>3, <1>4 DEF Captured, Reaches, b
  <2>3. b <= x.received /\ (b > 0 => Now(x) = "succeeded")
    BY <1>3, <1>4 DEF Hold, Reaches, b
  <2>4. Follows(x, i) /\ MayReport(b, x)
    BY <1>1, <1>3, <1>4, <1>8, <2>3, ReachesFollows DEF MayReport
  <2> QED
    BY <1>1, <1>5, <1>7, <2>1, <2>2, <2>4, IntentInv
<1> QED
  BY <1>1, <1>6, <1>7

LEMMA VoidOrCancelInv == ASSUME IInv, VoidOrCancel PROVE IInv'
<1>1. PICK i \in Ids :
           /\ Now(intents[i]) \in
                {"requires_capture", "requires_action", "requires_payment_method"}
           /\ intents' = [intents EXCEPT ![i] = Reach(@, "canceled")]
           /\ UNCHANGED <<refunds, saved, late, told, captured, seen, clock>>
  BY Zenon DEF VoidOrCancel
<1>2. intents[i] \in Intent /\ clock \in 0..MaxTime /\ "canceled" \in IntentStatuses
  BY DEF IInv, Types, IntentStatuses
<1> DEFINE x == Reach(intents[i], "canceled")
<1>3. Reaches(x, i, "canceled") /\ Open(i, "canceled", x)
  BY <1>1, <1>2, ReachIntent DEF Reaches, Open
<1>4. intents' = [intents EXCEPT ![i] = x]
  BY <1>1 DEF IInv, Types
<1> HIDE DEF x
<1> QED
  BY <1>1, <1>3, <1>4, StatusInv

LEMMA SettleInv == ASSUME IInv, Settle PROVE IInv'
<1>1. PICK i \in Ids :
        /\ \/ /\ Now(intents[i]) = "requires_action"
              /\ \E s \in {"requires_payment_method", "processing",
                           IF intents[i].manual THEN "requires_capture" ELSE "succeeded"} :
                   intents' = [intents EXCEPT ![i] =
                     Reach([@ EXCEPT !.received = IF s = "succeeded" THEN Hold ELSE 0], s)]
           \/ /\ Now(intents[i]) = "processing"
              /\ \/ intents' = [intents EXCEPT ![i] =
                                  Reach([@ EXCEPT !.received = Hold], "succeeded")]
                 \/ intents' = [intents EXCEPT ![i] = Reach(@, "requires_payment_method")]
        /\ UNCHANGED <<refunds, saved, late, told, captured, seen, clock>>
  BY Zenon DEF Settle
<1>2. intents[i] \in Intent /\ clock \in 0..MaxTime
  BY DEF IInv, Types
<1>3. ASSUME NEW s \in IntentStatuses, NEW a \in 0..Hold, s = "succeeded" => a > 0,
             Now(intents[i]) \in {"requires_action", "processing"},
             intents' = [intents EXCEPT ![i] = Receives(intents[i], a, s)]
      PROVE  IInv'
  <2> PICK x : x = Receives(intents[i], a, s)
    OBVIOUS
  <2>1. Reaches(x, i, s) /\ Open(i, s, x)
    BY <1>2, <1>3, ReceivesIntent DEF Reaches, Open
  <2> QED
    BY <1>1, <1>3, <2>1, StatusInv
<1>4. CASE Now(intents[i]) = "requires_action"
  <2>1. PICK s \in IntentStatuses :
          intents' = [intents EXCEPT ![i] =
            Reach([@ EXCEPT !.received = IF s = "succeeded" THEN Hold ELSE 0], s)]
    BY <1>1, <1>4 DEF IntentStatuses
  <2> DEFINE a == IF s = "succeeded" THEN Hold ELSE 0
  <2>2. a \in 0..Hold /\ (s = "succeeded" => a > 0)
    BY DEF Hold
  <2>3. intents' = [intents EXCEPT ![i] = Receives(intents[i], a, s)]
    BY <2>1 DEF Receives, IInv, Types
  <2> HIDE DEF a
  <2> QED
    BY <1>3, <1>4, <2>2, <2>3
<1>5. CASE /\ Now(intents[i]) = "processing"
           /\ intents' = [intents EXCEPT ![i] = Reach([@ EXCEPT !.received = Hold], "succeeded")]
  <2>1. intents' = [intents EXCEPT ![i] = Receives(intents[i], Hold, "succeeded")]
    BY <1>5 DEF Receives, IInv, Types
  <2>2. Hold \in 0..Hold /\ Hold > 0 /\ "succeeded" \in IntentStatuses
    BY DEF Hold, IntentStatuses
  <2> QED
    BY <1>3, <1>5, <2>1, <2>2
<1>6. CASE /\ Now(intents[i]) = "processing"
           /\ intents' = [intents EXCEPT ![i] = Reach(@, "requires_payment_method")]
  <2> DEFINE x == Reach(intents[i], "requires_payment_method")
  <2>1. Reaches(x, i, "requires_payment_method") /\ Open(i, "requires_payment_method", x)
    BY <1>2, <1>6, ReachIntent DEF Reaches, Open, IntentStatuses
  <2>2. intents' = [intents EXCEPT ![i] = x]
    BY <1>6 DEF IInv, Types
  <2> HIDE DEF x
  <2> QED
    BY <1>1, <1>6, <2>1, <2>2, StatusInv
<1> QED
  BY <1>1, <1>4, <1>5, <1>6

\* A step that gives the refund r one more status, and may tell of it.
LEMMA RefundStateInv ==
  ASSUME IInv, NEW r \in Refunds, NEW y \in RefundState, NEW u \in Told,
         refunds' = [refunds EXCEPT ![r] = y],
         \A t : Has(refunds[r], t) => Has(y, t),
         told' = [told EXCEPT ![r] = u], u = "succeeded" => Has(y, "succeeded"),
         UNCHANGED <<intents, saved, late, captured, seen, clock>>
  PROVE  IInv'
<1>1. Types'
  BY DEF IInv, Types
<1>2. /\ \A q \in Refunds : refunds'[q] = IF q = r THEN y ELSE refunds[q]
      /\ \A k \in Keys \cup Refunds : told'[k] = IF k = r THEN u ELSE told[k]
  BY DEF IInv, Types
<1>3. \A q \in Refunds : \A t : Has(refunds[q], t) => Has(refunds'[q], t)
  BY <1>2
<1>4. Settled' /\ Saves' /\ Captures'
  BY DEF IInv, Settled, Saves, Captures
<1>5. Answers'
  <2>1. \A k \in Keys : told'[k] = told[k]
    BY <1>2, StripeAssumption
  <2>2. ASSUME NEW q \in Refunds, told'[q] = "succeeded" PROVE Has(refunds'[q], "succeeded")
    BY <1>2, <1>3, <2>2 DEF IInv, Answers
  <2> QED
    BY <2>1, <2>2 DEF IInv, Answers
<1>6. News'
  BY <1>3, TrueStays DEF IInv, News
<1>7. Failures'
  <2>1. \A k \in Keys : told'[k] = told[k]
    BY <1>2, StripeAssumption
  <2> QED
    BY <2>1 DEF IInv, Failures, Unused
<1> QED
  BY <1>1, <1>4, <1>5, <1>6, <1>7 DEF IInv

LEMMA RefundInv == ASSUME IInv, Refund PROVE IInv'
<1>1. PICK r \in Refunds, i \in Ids :
        /\ refunds[r].past = <<>>
        /\ \E s \in {"pending"} \cup {x \in {"succeeded"} : intents[i].method = "card"} :
             /\ refunds' = [refunds EXCEPT ![r] = Reach([@ EXCEPT !.intent = i], s)]
             /\ told' \in {told, [told EXCEPT ![r] = mapRefundStatus(s)]}
        /\ UNCHANGED <<intents, saved, late, captured, seen, clock>>
  BY Zenon DEF Refund
<1>2. PICK s \in RefundStatuses :
        /\ refunds' = [refunds EXCEPT ![r] = Reach([@ EXCEPT !.intent = i], s)]
        /\ told' \in {told, [told EXCEPT ![r] = mapRefundStatus(s)]}
  BY <1>1 DEF RefundStatuses
<1>3. refunds[r] \in RefundState /\ clock \in 0..MaxTime /\ i \in 0..MaxIntents
  BY StripeAssumption DEF IInv, Types, Ids
<1> DEFINE z == [refunds[r] EXCEPT !.intent = i]
<1>4. z \in RefundState /\ \A t : ~Has(refunds[r], t)
  BY <1>1, <1>3 DEF RefundState, Has
<1>5. refunds' = [refunds EXCEPT ![r] = Reach(z, s)]
  BY <1>2 DEF IInv, Types
<1> HIDE DEF z
<1>6. Reach(z, s) \in RefundState /\ Has(Reach(z, s), s)
  BY <1>3, <1>4, ReachRefund
<1>7. CASE told' = told
  <2>1. told[r] \in Told /\ told[r] # "succeeded" /\ told' = [told EXCEPT ![r] = told[r]]
    BY <1>4, <1>7 DEF IInv, Types, Answers
  <2> QED
    BY <1>1, <1>4, <1>5, <1>6, <2>1, RefundStateInv
<1>8. CASE told' = [told EXCEPT ![r] = mapRefundStatus(s)]
  <2>1. mapRefundStatus(s) \in Told /\ (mapRefundStatus(s) = "succeeded" => s = "succeeded")
    BY DEF mapRefundStatus, Told
  <2> QED
    BY <1>1, <1>4, <1>5, <1>6, <1>8, <2>1, RefundStateInv
<1> QED
  BY <1>2, <1>7, <1>8

LEMMA SettleRefundInv == ASSUME IInv, SettleRefund PROVE IInv'
<1>1. PICK r \in Refunds, s \in {"succeeded", "failed", "canceled"} :
        /\ refunds' = [refunds EXCEPT ![r] = Reach(@, s)]
        /\ UNCHANGED <<intents, saved, late, told, captured, seen, clock>>
  BY Zenon DEF SettleRefund
<1>2. refunds[r] \in RefundState /\ clock \in 0..MaxTime /\ s \in RefundStatuses
  BY DEF IInv, Types, RefundStatuses
<1>3. /\ Reach(refunds[r], s) \in RefundState
      /\ \A t : Has(refunds[r], t) => Has(Reach(refunds[r], s), t)
  BY <1>2, ReachRefund
<1>4. refunds' = [refunds EXCEPT ![r] = Reach(refunds[r], s)]
  BY <1>1 DEF IInv, Types
<1>5. /\ told[r] \in Told /\ told' = [told EXCEPT ![r] = told[r]]
      /\ told[r] = "succeeded" => Has(refunds[r], "succeeded")
  BY <1>1 DEF IInv, Types, Answers
<1> QED
  BY <1>1, <1>3, <1>4, <1>5, RefundStateInv
-----------------------------------------------------------------------------
(***************************************************************************)
(* Requests                                                                *)
(***************************************************************************)
\* The intent that a request creates, before it has a status.
Created(k, m, manual, a) ==
  [None EXCEPT !.key = k, !.method = m, !.manual = manual, !.received = a]

LEMMA CreatedFields ==
  ASSUME NEW k \in Keys, NEW m \in AllMethods, NEW manual \in BOOLEAN, NEW a \in 0..Hold
  PROVE  LET z == Created(k, m, manual, a)
         IN  z \in Intent /\ z.key = k /\ z.received = a /\ z.past = <<>>
<1> DEFINE z1 == [None EXCEPT !.key = k]
           z2 == [z1 EXCEPT !.method = m]
           z3 == [z2 EXCEPT !.manual = manual]
           z4 == [z3 EXCEPT !.received = a]
<1>1. z4 = Created(k, m, manual, a)
  BY Zenon DEF Created
<1>2. z1 \in Intent /\ z1.key = k /\ z1.past = <<>>
  BY NothingHappened DEF Intent
<1> HIDE DEF z1
<1>3. z2 \in Intent /\ z2.key = k /\ z2.past = <<>>
  BY <1>2 DEF Intent
<1> HIDE DEF z2
<1>4. z3 \in Intent /\ z3.key = k /\ z3.past = <<>>
  BY <1>3 DEF Intent
<1> HIDE DEF z3
<1>5. z4 \in Intent /\ z4.key = k /\ z4.past = <<>> /\ z4.received = a
  BY <1>4 DEF Intent
<1> QED
  BY <1>1, <1>5

\* What a request of q makes of the intents; the answer is about intent i.
LEMMA CreateInv ==
  ASSUME IInv, NEW q \in Request, NEW i \in Ids, Create(q, i),
         \/ told' = told /\ q \in late
         \/ told' = [told EXCEPT ![q.key] = toResponse(intents'[i].past[1][1])],
         late' \subseteq late, UNCHANGED <<captured, seen, clock>>
  PROVE  IInv'
<1>0. q.key \in Keys /\ q.method \in AllMethods /\ q.manual \in BOOLEAN /\ clock \in 0..MaxTime
  BY DEF Request, IInv, Types
<1>1. /\ intents' \in [Ids -> Intent] /\ saved' \in [Keys -> 0..MaxIntents]
      /\ refunds' = refunds
      /\ intents'[i].key = q.key /\ intents'[i].past # <<>>
      /\ \A j \in Ids \ {i} : intents'[j] = intents[j]
      /\ Final(intents'[i]) /\ \A t : Has(intents[i], t) => Has(intents'[i], t)
      /\ Declined(intents'[i]) /\ saved'[q.key] = i
      /\ \A k \in Keys \ {q.key} : saved'[k] = saved[k] /\ saved[k] # i
      /\ \/ saved[q.key] = 0
         \/ intents' = intents /\ saved[q.key] = i
      /\ intents'[i] = intents[i] \/ captured[i] = 0
      /\ Saves'
  <2>1. CASE /\ setIdempotencyKey(q) # "" /\ saved[q.key] # 0
             /\ i = saved[q.key]
             /\ UNCHANGED stripe
    <3>1. /\ intents' = intents /\ saved' = saved /\ refunds' = refunds
          /\ saved[q.key] = i /\ intents[i].key = q.key /\ intents[i].past # <<>>
      BY <2>1, <1>0 DEF stripe, IInv, Saves
    <3>2. \A k \in Keys \ {q.key} : saved[k] # i
      <4>1. i # 0
        BY StripeAssumption DEF Ids
      <4> QED
        BY <3>1, <4>1 DEF IInv, Saves
    <3> QED
      BY <3>1, <3>2 DEF IInv, Types, Saves, Settled, Failures
  <2>2. CASE /\ setIdempotencyKey(q) = "" \/ saved[q.key] = 0
             /\ intents[i] = None /\ \A j \in 1..(i - 1) : intents[j] # None
             /\ \E s \in Confirmed(q) :
                  intents' = [intents EXCEPT ![i] =
                    Reach([None EXCEPT !.key = q.key, !.method = q.method,
                             !.manual = q.manual,
                             !.received = IF s = "succeeded" THEN Hold ELSE 0], s)]
             /\ saved' = [saved EXCEPT ![q.key] = i]
             /\ UNCHANGED refunds
    <3>1. PICK s \in IntentStatuses :
            intents' = [intents EXCEPT ![i] =
              Reach([None EXCEPT !.key = q.key, !.method = q.method, !.manual = q.manual,
                       !.received = IF s = "succeeded" THEN Hold ELSE 0], s)]
      BY <2>2 DEF Confirmed, IntentStatuses
    <3> DEFINE a == IF s = "succeeded" THEN Hold ELSE 0
               z == Created(q.key, q.method, q.manual, a)
    <3>2. a \in 0..Hold /\ (s = "succeeded" => a > 0) /\ (s # "succeeded" => a = 0)
      BY DEF Hold
    <3>3. intents' = [intents EXCEPT ![i] = Reach(z, s)]
      BY <3>1 DEF Created
    <3> HIDE DEF a
    <3>4. /\ z \in Intent /\ z.key = q.key /\ z.past = <<>>
          /\ s = "succeeded" => z.received > 0
          /\ s # "succeeded" => z.received = 0
      BY <3>2, <1>0, CreatedFields
    <3>5. \A t : ~Has(z, t)
      BY <3>4 DEF Has
    <3> HIDE DEF z
    <3> PICK x : x = Reach(z, s)
      OBVIOUS
    <3>6. /\ x \in Intent /\ x.key = q.key /\ x.past # <<>> /\ Now(x) = s
          /\ x.received = z.received /\ x.past[1][1] = s /\ \A t : Has(x, t) <=> t = s
      BY <3>4, <3>5, <1>0, ReachIntent
    <3>7. intents' = [intents EXCEPT ![i] = x]
      BY <3>3
    <3>8. /\ intents' \in [Ids -> Intent]
          /\ intents'[i] = x /\ \A j \in Ids \ {i} : intents'[j] = intents[j]
      BY <3>6, <3>7 DEF IInv, Types
    <3>9. Final(x) /\ Declined(x)
      BY <3>4, <3>6 DEF Final, Declined
    <3>10. \A t : Has(intents[i], t) => Has(x, t)
      BY <2>2, NothingHappened
    <3>11. captured[i] = 0
      <4>1. intents[i].past = <<>>
        BY <2>2, NothingHappened
      <4> QED
        BY <4>1, NotCaptured DEF Now
    <3>12. i \in 0..MaxIntents /\ i # 0
      BY StripeAssumption DEF Ids
    <3>13. /\ saved' \in [Keys -> 0..MaxIntents]
           /\ saved'[q.key] = i /\ \A k \in Keys \ {q.key} : saved'[k] = saved[k]
      BY <2>2, <3>12, <1>0 DEF IInv, Types
    <3>14. Saves'
      <4>1. ASSUME NEW j \in Ids, intents'[j].key # ""
            PROVE  saved'[intents'[j].key] = j
        <5>1. CASE j = i
          BY <5>1, <3>6, <3>8, <3>13
        <5>2. CASE j # i
          <6>1. intents'[j] = intents[j] /\ intents[j].key \in Keys /\ j # 0
            <7>1. intents'[j] = intents[j] /\ intents[j] \in Intent
              BY <5>2, <3>8 DEF IInv, Types
            <7>2. j # 0
              BY StripeAssumption DEF Ids
            <7> QED
              BY <4>1, <7>1, <7>2, IntentFields
          <6>2. saved[intents[j].key] = j
            BY <4>1, <6>1 DEF IInv, Saves
          <6>3. intents[j].key # q.key
            BY <2>2, <4>1, <6>1, <6>2 DEF setIdempotencyKey
          <6> QED
            BY <6>1, <6>2, <6>3, <3>13
        <5> QED
          BY <5>1, <5>2
      <4>2. ASSUME NEW k \in Keys, saved'[k] # 0
            PROVE  intents'[saved'[k]].key = k /\ intents'[saved'[k]].past # <<>>
        <5>1. CASE k = q.key
          BY <5>1, <3>6, <3>8, <3>13
        <5>2. CASE k # q.key
          <6>1. saved'[k] = saved[k] /\ saved[k] \in Ids
            BY <4>2, <5>2, <3>13, StripeAssumption DEF IInv, Types, Ids
          <6>2. intents[saved[k]].key = k /\ intents[saved[k]].past # <<>>
            BY <4>2, <6>1 DEF IInv, Saves
          <6>3. saved[k] # i
            BY <2>2, <6>2, NothingHappened
          <6> QED
            BY <6>1, <6>2, <6>3, <3>8
        <5> QED
          BY <5>1, <5>2
      <4> QED
        BY <4>1, <4>2 DEF Saves
    <3>15. \A k \in Keys \ {q.key} : saved[k] # i
      BY <2>2, <3>12, NothingHappened, StripeAssumption DEF IInv, Saves
    <3>16. saved[q.key] = 0
      BY <2>2, <1>0, KeysAssumption DEF setIdempotencyKey
    <3> QED
      BY <2>2, <3>6, <3>8, <3>9, <3>10, <3>11, <3>13, <3>14, <3>15, <3>16
  <2> QED
    BY <2>1, <2>2 DEF Create
<1>2. \A j \in Ids : \A t : Has(intents[j], t) => Has(intents'[j], t)
  BY <1>1
<1>3. \E s \in IntentStatuses : intents'[i].past[1][1] = s /\ Has(intents'[i], s)
  <2> DEFINE p == intents'[i].past
  <2>1. p \in Past(IntentStatuses) /\ p # <<>>
    BY <1>1, IntentFields
  <2> HIDE DEF p
  <2>2. p \in Seq(IntentStatuses \X (0..MaxTime))
    BY <2>1 DEF Past
  <2>3. 1 \in DOMAIN p /\ p[1] \in IntentStatuses \X (0..MaxTime)
    BY <2>1, <2>2, EmptySeq, LenProperties, ElementOfSeq
  <2> QED
    BY <2>3 DEF Has, p
<1>4. told' \in [Keys \cup Refunds -> Told]
  <2>1. toResponse(intents'[i].past[1][1]) \in Told
    BY DEF toResponse, wrapGatewayError, mapIntentStatus, Told
  <2> QED
    BY <2>1 DEF IInv, Types, Told
<1>5. Types'
  BY <1>1, <1>4 DEF IInv, Types
<1>6. Settled'
  BY <1>1 DEF IInv, Settled
<1>7. Captures'
  <2> SUFFICES ASSUME NEW j \in Ids
      PROVE  /\ captured[j] <= intents'[j].received
             /\ captured[j] > 0 => Now(intents'[j]) = "succeeded"
    BY DEF Captures
  <2>1. CASE intents'[j] = intents[j]
    BY <2>1 DEF IInv, Captures
  <2>2. CASE intents'[j] # intents[j]
    <3>1. captured[j] = 0 /\ intents'[j] \in Intent
      BY <2>2, <1>1
    <3>2. intents'[j].received \in Nat
      BY <3>1, IntentFields
    <3> QED
      BY <3>1, <3>2
  <2> QED
    BY <2>1, <2>2
<1>8. Answers'
  <2>1. ASSUME NEW k \in Keys, told'[k] = "succeeded"
        PROVE  \E j \in Ids : intents'[j].key = k /\ Has(intents'[j], "succeeded")
    <3>1. CASE told'[k] = told[k]
      <4>1. PICK j \in Ids : intents[j].key = k /\ Has(intents[j], "succeeded")
        BY <2>1, <3>1 DEF IInv, Answers
      <4>2. Has(intents'[j], "succeeded")
        BY <4>1, <1>2
      <4>3. intents'[j].key = k
        <5>1. CASE intents'[j] = intents[j]
          BY <4>1, <5>1
        <5>2. CASE intents'[j] # intents[j]
          <6>1. j = i
            BY <5>2, <1>1
          <6>2. intents[i] # None
            BY <4>1, <6>1, NothingHappened
          <6> QED
            BY <5>2, <6>1, <6>2 DEF Create, stripe
        <5> QED
          BY <5>1, <5>2
      <4> QED
        BY <4>2, <4>3
    <3>2. CASE told'[k] # told[k]
      <4>1. k = q.key /\ toResponse(intents'[i].past[1][1]) = "succeeded"
        BY <2>1, <3>2, <1>0 DEF IInv, Types
      <4>2. intents'[i].past[1][1] = "succeeded"
        BY <4>1, <1>3 DEF toResponse, wrapGatewayError, mapIntentStatus, IntentStatuses
      <4> QED
        BY <4>1, <4>2, <1>1, <1>3
    <3> QED
      BY <3>1, <3>2
  <2>2. ASSUME NEW r \in Refunds PROVE told'[r] = told[r]
    BY <1>0, StripeAssumption DEF IInv, Types
  <2> QED
    BY <2>1, <2>2, <1>1 DEF IInv, Answers
<1>9. News'
  BY <1>1, <1>2, TrueStays DEF IInv, News
<1>10. Failures'
  <2>1. \A j \in Ids : Declined(intents'[j])
    BY <1>1 DEF IInv, Failures
  <2>2. ASSUME NEW k \in Keys, k # q.key
        PROVE  /\ told'[k] = "none" => Unused(k)'
               /\ told'[k] = "failed" =>
                    \/ Unused(k)'
                    \/ /\ saved'[k] # 0
                       /\ intents'[saved'[k]].past[1][1] = "requires_payment_method"
    <3>1. told'[k] = told[k] /\ saved'[k] = saved[k] /\ saved[k] # i
      BY <2>2, <1>1 DEF IInv, Types
    <3>2. saved[k] # 0 => intents'[saved[k]] = intents[saved[k]]
      BY <3>1, <1>1, StripeAssumption DEF IInv, Types, Ids
    <3> QED
      BY <3>1, <3>2 DEF IInv, Failures, Unused
  <2>3. /\ told'[q.key] # "none"
        /\ told'[q.key] = "failed" =>
             intents'[i].past[1][1] = "requires_payment_method"
    <3>1. CASE told' = told /\ q \in late
      <4>1. ~Unused(q.key)
        BY <3>1 DEF Unused
      <4> QED
        BY <3>1, <4>1, <1>0, <1>1 DEF IInv, Failures
    <3>2. CASE told' = [told EXCEPT ![q.key] = toResponse(intents'[i].past[1][1])]
      <4>1. told'[q.key] = toResponse(intents'[i].past[1][1])
        BY <3>2, <1>0 DEF IInv, Types
      <4> QED
        BY <4>1, <1>3 DEF toResponse, wrapGatewayError, isRetryable, mapIntentStatus
    <3> QED
      BY <3>1, <3>2
  <2>4. saved'[q.key] = i /\ i # 0
    BY <1>1, StripeAssumption DEF Ids
  <2> QED
    BY <2>1, <2>2, <2>3, <2>4 DEF Failures
<1> QED
  BY <1>1, <1>5, <1>6, <1>7, <1>8, <1>9, <1>10 DEF IInv

\* An error answers the first request of a key, which Stripe may serve later
\* if the error leaves that open.
LEMMA ErrorInv ==
  ASSUME IInv, NEW q \in Request, NEW err \in Errors, told[q.key] = "none",
         told' = [told EXCEPT ![q.key] = wrapGatewayError(err)],
         late' = IF err \in {"transport", "api_error"} THEN late \cup {q} ELSE late,
         UNCHANGED <<intents, refunds, saved, captured, seen, clock>>
  PROVE  IInv'
<1>1. q.key \in Keys
  BY DEF Request
<1>2. Types'
  BY <1>1 DEF IInv, Types, Told, wrapGatewayError
<1>3. \A k \in Keys \cup Refunds :
        told'[k] = IF k = q.key THEN wrapGatewayError(err) ELSE told[k]
  BY <1>1 DEF IInv, Types
<1>4. Answers'
  BY <1>3 DEF IInv, Answers, wrapGatewayError
<1>7. Failures'
  <2>1. \A j \in Ids : Declined(intents'[j])
    BY DEF IInv, Failures
  <2>2. ASSUME NEW k \in Keys, k # q.key
        PROVE  /\ told'[k] = "none" => Unused(k)'
               /\ told'[k] = "failed" =>
                    \/ Unused(k)'
                    \/ /\ saved'[k] # 0
                       /\ intents'[saved'[k]].past[1][1] = "requires_payment_method"
    <3>1. Unused(k) => Unused(k)'
      BY <2>2 DEF Unused
    <3> QED
      BY <2>2, <3>1, <1>3 DEF IInv, Failures
  <2>3. told'[q.key] # "none" /\ (told'[q.key] = "failed" => Unused(q.key)')
    <3>1. Unused(q.key)
      BY <1>1 DEF IInv, Failures
    <3>2. CASE err \in {"transport", "api_error"}
      BY <3>2, <1>1, <1>3 DEF wrapGatewayError, isRetryable
    <3>3. CASE err \notin {"transport", "api_error"}
      BY <3>1, <3>3, <1>1, <1>3 DEF wrapGatewayError, Unused
    <3> QED
      BY <3>2, <3>3
  <2> QED
    BY <2>1, <2>2, <2>3 DEF Failures
<1>5. Settled' /\ Saves' /\ Captures'
  BY DEF IInv, Settled, Saves, Captures
<1>6. News'
  BY TrueStays DEF IInv, News
<1> QED
  BY <1>2, <1>4, <1>5, <1>6, <1>7 DEF IInv

LEMMA PayInv ==
  ASSUME IInv, NEW manual \in BOOLEAN, NEW methods \in SUBSET Methods, Pay(manual, methods)
  PROVE  IInv'
<1>1. PICK k \in Keys, m \in methods :
        LET q == [key |-> k, method |-> m, manual |-> manual]
        IN  /\ \/ \E i \in Ids : /\ Create(q, i)
                                 /\ told' = [told EXCEPT ![k] =
                                      toResponse(intents'[i].past[1][1])]
                                 /\ UNCHANGED late
               \/ /\ told[k] = "none"
                  /\ \E err \in Errors \ {"card_error"} :
                       /\ told' = [told EXCEPT ![k] = wrapGatewayError(err)]
                       /\ late' = IF err \in {"transport", "api_error"}
                                  THEN late \cup {q} ELSE late
                  /\ UNCHANGED stripe
            /\ UNCHANGED <<captured, seen, clock>>
  BY Zenon DEF Pay
<1> DEFINE q == [key |-> k, method |-> m, manual |-> manual]
<1>2. q \in Request /\ q.key = k
  BY StripeAssumption DEF Request
<1> HIDE DEF q
<1>3. ASSUME NEW i \in Ids, Create(q, i), late' = late,
             told' = [told EXCEPT ![k] = toResponse(intents'[i].past[1][1])]
      PROVE  IInv'
  BY <1>1, <1>2, <1>3, CreateInv
<1>4. ASSUME NEW err \in Errors, told[k] = "none",
             told' = [told EXCEPT ![k] = wrapGatewayError(err)],
             late' = IF err \in {"transport", "api_error"} THEN late \cup {q} ELSE late,
             UNCHANGED stripe
      PROVE  IInv'
  BY <1>1, <1>2, <1>4, ErrorInv DEF stripe
<1> QED
  BY <1>1, <1>3, <1>4 DEF q

LEMMA ServeLateInv == ASSUME IInv, ServeLate PROVE IInv'
<1>1. PICK q \in late, i \in Ids :
        Create(q, i) /\ late' = late \ {q} /\ UNCHANGED <<told, captured, seen, clock>>
  BY DEF ServeLate
<1>2. q \in Request
  BY DEF IInv, Types
<1> QED
  BY <1>1, <1>2, CreateInv
-----------------------------------------------------------------------------
(***************************************************************************)
(* Events                                                                  *)
(***************************************************************************)
LEMMA PastStatus ==
  ASSUME NEW S, NEW p \in Past(S), NEW n \in DOMAIN p
  PROVE  p[n][1] \in S
<1>1. p \in Seq(S \X (0..MaxTime)) /\ n \in 1..Len(p)
  BY LenProperties DEF Past
<1>2. p[n] \in S \X (0..MaxTime)
  BY <1>1, ElementOfSeq
<1> QED
  BY <1>2

\* Every event that Stripe may send says what has happened.
LEMMA EventsTrue == ASSUME IInv, NEW e \in Events PROVE True(e)
<1>1. CASE \E i \in Ids : \E n \in DOMAIN intents[i].past : e = IntentEvent(i, n)
  <2>0. PICK i \in Ids : \E n \in DOMAIN intents[i].past : e = IntentEvent(i, n)
    BY <1>1
  <2>1. PICK n \in DOMAIN intents[i].past : e = IntentEvent(i, n)
    BY <2>0
  <2>2. intents[i] \in Intent
    BY DEF IInv, Types
  <2>3. intents[i].past[n][1] \in IntentStatuses
    BY <2>2, IntentFields, PastStatus
  <2> PICK s \in IntentStatuses : s = intents[i].past[n][1]
    BY <2>3
  <2>4. Has(intents[i], s)
    BY DEF Has
  <2>5. e.intent = i
    BY <2>1 DEF IntentEvent
  <2>6. e.name = CASE s = "requires_payment_method" -> "payment_intent.payment_failed"
                   [] s = "requires_capture" -> "payment_intent.amount_capturable_updated"
                   [] s = "requires_action" -> "payment_intent.requires_action"
                   [] s = "processing" -> "payment_intent.processing"
                   [] s = "canceled" -> "payment_intent.canceled"
                   [] OTHER -> "payment_intent.succeeded"
    BY <2>1 DEF IntentEvent
  <2>7. /\ toWebhookEventType(e) = "PaymentSucceeded" => s = "succeeded"
        /\ toWebhookEventType(e) = "PaymentFailed" => s = "requires_payment_method"
        /\ toWebhookEventType(e) \notin {"RefundSucceeded", "RefundFailed"}
    BY <2>6 DEF toWebhookEventType, classifyRequiresActionEvent, stripeEventMap, IntentStatuses
  <2> QED
    BY <2>4, <2>5, <2>7 DEF True
<1>2. CASE \E r \in Refunds : \E n \in DOMAIN refunds[r].past : e \in RefundEvents(r, n)
  <2>0. PICK r \in Refunds : \E n \in DOMAIN refunds[r].past : e \in RefundEvents(r, n)
    BY <1>2
  <2>1. PICK n \in DOMAIN refunds[r].past : e \in RefundEvents(r, n)
    BY <2>0
  <2> PICK s : s = refunds[r].past[n][1]
    OBVIOUS
  <2>2. Has(refunds[r], s)
    BY DEF Has
  <2>3. /\ e.refund = r /\ e.about \in {s, ""}
        /\ e.name \in {"refund.created", "charge.refunded", "refund.updated", "refund.failed"}
        /\ e.name = "refund.failed" => s = "failed"
    <3> DEFINE about(name, status) ==
          [name |-> name, intent |-> refunds[r].intent, refund |-> r,
           about |-> status, created |-> refunds[r].past[n][2]]
    <3>1. \/ e = about("refund.created", s)
          \/ e = about("charge.refunded", s)
          \/ e = about("charge.refunded", "")
          \/ e = about("refund.updated", s)
          \/ s = "failed" /\ e = about("refund.failed", s)
      BY <2>1, Zenon DEF RefundEvents
    <3>2. ASSUME NEW name, NEW status, e = about(name, status)
          PROVE  e.refund = r /\ e.about = status /\ e.name = name
      BY <3>2
    <3> HIDE DEF about
    <3>3. \/ /\ e.refund = r /\ e.about = s
             /\ e.name \in {"refund.created", "charge.refunded", "refund.updated"}
          \/ e.refund = r /\ e.about = "" /\ e.name = "charge.refunded"
          \/ e.refund = r /\ e.about = s /\ s = "failed" /\ e.name = "refund.failed"
      BY <3>1, <3>2, Zenon
    <3> QED
      BY <3>3
  <2>4. /\ toWebhookEventType(e) = "RefundSucceeded" => s = "succeeded"
        /\ toWebhookEventType(e) = "RefundFailed" => s \in {"failed", "canceled"}
        /\ toWebhookEventType(e) \notin {"PaymentSucceeded", "PaymentFailed"}
    BY <2>3 DEF toWebhookEventType, classifyRefundEvent, classifyChargeRefundedEvent,
       stripeEventMap
  <2> QED
    BY <2>2, <2>3, <2>4 DEF True
<1> QED
  BY <1>1, <1>2 DEF Events

LEMMA ParseAndVerifyInv ==
  ASSUME IInv, NEW e \in Events, NEW t, NEW now, ParseAndVerify(e, t, now) PROVE IInv'
<1> USE DEF ParseAndVerify, stripe
<1>1. Types'
  BY DEF IInv, Types
<1>2. Settled' /\ Saves' /\ Captures' /\ Answers' /\ Failures'
  BY DEF IInv, Settled, Saves, Captures, Answers, Failures, Unused
<1>3. News'
  <2>1. seen' \subseteq seen \cup {e}
    OBVIOUS
  <2>2. \A d \in seen' : True(d)
    BY <2>1, EventsTrue DEF IInv, News
  <2> QED
    BY <2>2, TrueStays DEF News
<1> QED
  BY <1>1, <1>2, <1>3 DEF IInv

LEMMA TickInv == ASSUME IInv, Tick PROVE IInv'
<1> USE DEF Tick, stripe
<1>1. clock' \in 0..MaxTime
  BY StripeAssumption DEF IInv, Types
<1>2. Types'
  BY <1>1 DEF IInv, Types
<1>3. Settled' /\ Saves' /\ Captures' /\ Answers' /\ Failures'
  BY DEF IInv, Settled, Saves, Captures, Answers, Failures, Unused
<1>4. News'
  BY TrueStays DEF IInv, News
<1> QED
  BY <1>2, <1>3, <1>4 DEF IInv

LEMMA StutterInv == ASSUME IInv, UNCHANGED vars PROVE IInv'
<1> USE DEF vars, stripe
<1>1. Types'
  BY DEF IInv, Types
<1>2. Settled' /\ Saves' /\ Captures' /\ Answers' /\ Failures'
  BY DEF IInv, Settled, Saves, Captures, Answers, Failures, Unused
<1>3. News'
  BY TrueStays DEF IInv, News
<1> QED
  BY <1>1, <1>2, <1>3 DEF IInv

LEMMA NextInv == IInv /\ [Next]_vars => IInv'
<1> SUFFICES ASSUME IInv, [Next]_vars PROVE IInv'
  OBVIOUS
<1>1. CASE Charge \/ Authorize
  BY <1>1, PayInv DEF Charge, Authorize
<1>2. CASE ServeLate \/ Capture \/ VoidOrCancel \/ Refund \/ Settle \/ SettleRefund \/ Tick
  BY <1>2, ServeLateInv, CaptureInv, VoidOrCancelInv, RefundInv, SettleInv, SettleRefundInv,
     TickInv
<1>3. CASE Redelivered \/ Delayed
  BY <1>3, ParseAndVerifyInv DEF Redelivered, Delayed
<1>4. CASE UNCHANGED vars
  BY <1>4, StutterInv
<1> QED
  BY <1>1, <1>2, <1>3, <1>4 DEF Next

LEMMA SpecInv == Spec => []IInv
<1> QED
  BY InitInv, NextInv, PTL DEF Spec
-----------------------------------------------------------------------------
\* The variables hold values of their types in every reachable state.
THEOREM TypeCorrect == Spec => []TypeOK
<1>1. ASSUME IInv PROVE TypeOK
  <2>1. ASSUME NEW i \in Ids
        PROVE  /\ intents[i].key \in Keys \cup {""}
               /\ intents[i].method \in AllMethods /\ intents[i].received \in 0..Hold
               /\ \A n \in DOMAIN intents[i].past :
                    intents[i].past[n] \in IntentStatuses \X (0..MaxTime)
    <3>1. intents[i] \in Intent
      BY <1>1 DEF IInv, Types
    <3>2. intents[i].past \in Seq(IntentStatuses \X (0..MaxTime))
      BY <3>1, IntentFields DEF Past
    <3> QED
      BY <3>1, <3>2, IntentFields, LenProperties, ElementOfSeq
  <2>2. ASSUME NEW r \in Refunds, NEW n \in DOMAIN refunds[r].past
        PROVE  refunds[r].past[n] \in RefundStatuses \X (0..MaxTime)
    <3>1. refunds[r].past \in Seq(RefundStatuses \X (0..MaxTime))
      BY <1>1 DEF IInv, Types, RefundState, Past
    <3> QED
      BY <3>1, LenProperties, ElementOfSeq
  <2> QED
    BY <1>1, <2>1, <2>2 DEF IInv, Types, TypeOK
<1> QED
  BY <1>1, SpecInv, PTL

\* One idempotency key of Charge or Authorize makes one intent, whatever is
\* retried and whatever is served late.
THEOREM KeysAreIntents == Spec => []OneIntentPerKey
<1>1. IInv => OneIntentPerKey
  BY DEF IInv, Saves, OneIntentPerKey
<1> QED
  BY <1>1, SpecInv, PTL

\* Nothing is booked, on an answer of the gateway or on an event the webhook
\* handler accepted, that has not happened at Stripe.
THEOREM BookedHappened == Spec => []BookedMeansHappened
<1>1. ASSUME IInv PROVE BookedMeansHappened
  <2>1. \A i \in Ids : Has(intents[i], "succeeded") => intents[i].received > 0
    BY <1>1 DEF IInv, Settled, Final
  <2>2. ASSUME NEW k \in Keys, told[k] = "failed", NEW i \in Ids, intents[i].key = k
        PROVE  intents[i].received = 0
    <3>0. i # 0
      BY StripeAssumption DEF Ids
    <3>1. saved[k] = i /\ i # 0
      BY <1>1, <2>2, <3>0, KeysAssumption DEF IInv, Saves
    <3>2. intents[i].past # <<>> /\ intents[i].past[1][1] = "requires_payment_method"
      BY <1>1, <2>2, <3>1 DEF IInv, Saves, Failures, Unused
    <3> QED
      BY <1>1, <3>2 DEF IInv, Failures, Declined
  <2> QED
    BY <1>1, <2>1, <2>2 DEF IInv, Answers, Captures, News, True, Booked, BookedMeansHappened
<1> QED
  BY <1>1, SpecInv, PTL
=============================================================================
