------------------------- MODULE MySqlSubscription -------------------------
(***************************************************************************)
(* EventStore.Subscribe of mysql/eventstore.go: MySQL has no notification, *)
(* so the goroutine polls LoadAll, sends what it got and sleeps until the  *)
(* next tick unless the page was full.  The environment (EventLog's        *)
(* Publish) and the consumer are those of PgSubscription.                  *)
(***************************************************************************)
EXTENDS EventLog, Sequences, FiniteSets

CONSTANTS PollBatchSize,   \* rows of a LoadAll page
          SubscribeBuffer, \* capacity of the channel
          MaxFaults,       \* bound: how many polls may fail
          MaxRestarts      \* bound: how often the consumer subscribes again

ASSUME PollAssumption ==
    /\ PollBatchSize \in Nat \ {0} /\ SubscribeBuffer \in Nat \ {0}
    /\ MaxFaults \in Nat /\ MaxRestarts \in Nat

VARIABLES
    phase,         \* "poll", "send", "sleep" or "closed"
    ch,            \* the events channel
    pos,           \* the poll cursor: the last event sent
    batch,         \* rows of the current page not sent yet
    fullBatch,     \* that page had pollBatchSize rows
    cancelled,     \* the context of the subscription is done
    faultsLeft,    \* failures the bound still allows
    checkpoint,    \* position the consumer would subscribe from
    restartsLeft   \* restarts the bound still allows

pollVars     == <<pos, batch, fullBatch>>
consumerVars == <<consumed, checkpoint, restartsLeft>>
vars == <<events, phase, ch, pollVars, cancelled, faultsLeft, consumerVars>>

Init ==
    /\ LogInit
    /\ phase = "poll" /\ ch = <<>>
    /\ pos = 0 /\ batch = {} /\ fullBatch = FALSE
    /\ cancelled = FALSE /\ faultsLeft = MaxFaults
    /\ checkpoint = 0 /\ restartsLeft = MaxRestarts

\* The rows LoadAll selects.  (Fault: the position is taken as the next one.)
AfterNext(p) == {r \in events : r.pos > p + 1}
After(p) == {r \in events : r.pos > p}

\* LoadAll: the first n rows of S, ORDER BY global_position LIMIT n.
\* (Fault: one row too many.)
FirstRowsAndOne(S, n) == {r \in S : Cardinality({q \in S : q.pos <= r.pos}) <= n + 1}
FirstRows(S, n) == {r \in S : Cardinality({q \in S : q.pos <= r.pos}) <= n}
-----------------------------------------------------------------------------
Commit(R) ==
    /\ Publish(R)
    /\ UNCHANGED <<phase, ch, pollVars, cancelled, faultsLeft, checkpoint,
                   restartsLeft>>

\* LoadAll succeeds.
Poll ==
    /\ phase = "poll" /\ ~cancelled
    /\ batch' = FirstRows(After(pos), PollBatchSize)
    /\ fullBatch' = (Cardinality(batch') = PollBatchSize)
    /\ phase' = "send"
    /\ UNCHANGED <<events, ch, pos, cancelled, faultsLeft, consumerVars>>

\* LoadAll fails: the loop waits for the next tick.  (What of it is reported
\* is reportSubErr's concern, the same function as in PgSubscription.)
PollFails ==
    /\ phase = "poll" /\ ~cancelled
    /\ faultsLeft > 0 /\ faultsLeft' = faultsLeft - 1
    /\ phase' = "sleep"
    /\ UNCHANGED <<events, ch, pollVars, cancelled, consumerVars>>

\* The next event of the page is sent; a full channel blocks the loop.
Send ==
    /\ phase = "send" /\ Len(ch) < SubscribeBuffer
    /\ \E r \in batch :
          /\ \A q \in batch : r.pos <= q.pos
          /\ ch' = Append(ch, r)
          /\ pos' = r.pos
          /\ batch' = batch \ {r}
    /\ UNCHANGED <<events, phase, fullBatch, cancelled, faultsLeft, consumerVars>>

\* A full page is followed by another poll at once, any other by a wait.
BatchDone ==
    /\ phase = "send" /\ batch = {}
    /\ phase' = IF fullBatch THEN "poll" ELSE "sleep"
    /\ UNCHANGED <<events, ch, pollVars, cancelled, faultsLeft, consumerVars>>

Tick ==
    /\ phase = "sleep" /\ ~cancelled
    /\ phase' = "poll"
    /\ UNCHANGED <<events, ch, pollVars, cancelled, faultsLeft, consumerVars>>

\* The context is cancelled; whatever the loop waits for, it returns and the
\* deferred close runs.
Cancel ==
    /\ phase # "closed" /\ ~cancelled
    /\ cancelled' = TRUE
    /\ UNCHANGED <<events, phase, ch, pollVars, faultsLeft, consumerVars>>

Stop ==
    /\ phase # "closed" /\ cancelled
    /\ phase' = "closed"
    /\ UNCHANGED <<events, ch, pollVars, cancelled, faultsLeft, consumerVars>>

\* The consumer takes an event and saves its position now or later.
Consume ==
    /\ ch # <<>>
    /\ consumed' = consumed \union {Head(ch)}
    /\ ch' = Tail(ch)
    /\ checkpoint' \in {checkpoint, Head(ch).pos}
    /\ UNCHANGED <<events, phase, pollVars, cancelled, faultsLeft, restartsLeft>>

\* The consumer's process died, or its channel was closed: Subscribe again.
Resubscribe ==
    /\ restartsLeft > 0 /\ restartsLeft' = restartsLeft - 1
    /\ phase' = "poll" /\ ch' = <<>>
    /\ pos' = checkpoint /\ batch' = {} /\ fullBatch' = FALSE
    /\ cancelled' = FALSE
    /\ UNCHANGED <<events, consumed, checkpoint, faultsLeft>>
-----------------------------------------------------------------------------
LoopStep == Poll \/ Send \/ BatchDone \/ Tick \/ Stop

Next ==
    \/ \E R \in SUBSET Row : Commit(R)
    \/ LoopStep
    \/ PollFails
    \/ Cancel
    \/ Consume
    \/ Resubscribe

Spec == Init /\ [][Next]_vars

\* The goroutine and the consumer keep running; the ticker ticks.
FairSpec == Spec /\ WF_vars(LoopStep) /\ WF_vars(Consume)
-----------------------------------------------------------------------------
\* Every variable holds a value of its kind (mysql/eventstore.go 343-388).
TypeOK ==
    /\ events \in SUBSET Row /\ consumed \in SUBSET Row
    /\ phase \in {"poll", "send", "sleep", "closed"} /\ ch \in Seq(Row)
    /\ pos \in Nat /\ batch \in SUBSET Row /\ Cardinality(batch) <= PollBatchSize
    /\ fullBatch \in BOOLEAN
    /\ cancelled \in BOOLEAN /\ faultsLeft \in Nat
    /\ checkpoint \in Nat /\ restartsLeft \in Nat

\* A committed event reaches the consumer, unless the channel is closed: an
\* outage delays it, a full page is never the last one read.
Delivered ==
    \A r \in Row : r \in events ~> (r \in consumed \/ phase = "closed")
=============================================================================
