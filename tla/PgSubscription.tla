--------------------------- MODULE PgSubscription ---------------------------
(***************************************************************************)
(* PostgresEventStore.Subscribe (postgres/eventstore.go): the goroutine    *)
(* behind one subscription, the LISTEN connection it holds, the buffered   *)
(* channel it sends to, and the consumer of that channel.                  *)
(*                                                                         *)
(* One action is one step at which the goroutine can block, fail or be     *)
(* overtaken: acquire a connection, LISTEN, run one LoadAll page, send one *)
(* event, wait for a notification, end a failed cycle, wait out the        *)
(* backoff.  Committed rows arrive from outside, by EventLog's Publish.    *)
(***************************************************************************)
EXTENDS EventLog, Sequences, FiniteSets

CONSTANTS Batch,          \* catchUpBatch: rows of a LoadAll page
          Buffer,         \* subscriberBuffer: capacity of the channel
          BackoffMax,     \* subReconnectMaxBackoff, in units of the initial 100ms
          MaxReconnects,  \* WithSubscriptionMaxReconnects; 0 retries forever
          ErrorKinds,     \* what a failed step returns: "conn", "deadline"
          MaxFaults,      \* bound: how many steps may fail,
          EndlessFaults,  \*        unless any number may
          MaxRestarts     \* bound: how often the consumer subscribes again

ASSUME SubAssumption ==
    /\ Batch \in Nat \ {0} /\ Buffer \in Nat \ {0} /\ BackoffMax \in Nat \ {0}
    /\ MaxReconnects \in Nat /\ MaxFaults \in Nat /\ MaxRestarts \in Nat
    /\ EndlessFaults \in BOOLEAN /\ (EndlessFaults => MaxReconnects > 0)
    /\ ErrorKinds \subseteq {"conn", "deadline"}

VARIABLES
    phase,         \* where the goroutine is
    ch,            \* the events channel
    position,      \* position of runSubscription: the last event sent
    page,          \* rows of the current LoadAll page not sent yet
    fullPage,      \* that page had catchUpBatch rows: load another one
    notes,         \* notifications queued on the LISTEN connection
    established,   \* establishedAt: "zero", "fresh" (< 30s ago) or "healthy"
    reconnects,    \* consecutive reconnect attempts since the last healthy cycle
    backoff,       \* the next wait
    failure,       \* kind of the error that ended the cycle
    streak,        \* history: cycles that failed since the last healthy one
    silent,        \* history: a failed cycle ended and no error was reported
    cancelled,     \* the context of the subscription is done
    faultsLeft,    \* failures the bound still allows
    checkpoint,    \* position the consumer would subscribe from
    restartsLeft   \* restarts the bound still allows

pageVars     == <<position, page, fullPage>>
connVars     == <<notes, established>>
loopVars     == <<reconnects, backoff, failure, streak, silent>>
envVars      == <<cancelled, faultsLeft>>
consumerVars == <<consumed, checkpoint, restartsLeft>>
vars == <<events, phase, ch, pageVars, connVars, loopVars, envVars, consumerVars>>

Phases == {"acquire", "listen", "load", "send", "wait", "failed", "backoff", "closed"}

\* The connection is LISTENing: commits queue a notification on it.
\* (Fault: LISTEN is issued only when the catch-up is over.)
ListeningLate == phase = "wait"
Listening == phase \in {"load", "send", "wait"}

\* The rows LoadAll selects.  (Fault: the position is taken as the next one.)
AfterNext(p) == {r \in events : r.pos > p + 1}
After(p) == {r \in events : r.pos > p}

\* LoadAll: the first n rows of S, ORDER BY global_position LIMIT n.
FirstRows(S, n) == {r \in S : Cardinality({q \in S : q.pos <= r.pos}) <= n}

Smaller(m, n) == IF m <= n THEN m ELSE n

\* Bound of the history variable streak, above what limit and faults allow.
MaxStreak == MaxReconnects + MaxFaults + 2

Init ==
    /\ LogInit
    /\ phase = "acquire" /\ ch = <<>>
    /\ position = 0 /\ page = {} /\ fullPage = FALSE
    /\ notes = 0 /\ established = "zero"
    /\ reconnects = 0 /\ backoff = 1 /\ failure = "none"
    /\ streak = 0 /\ silent = FALSE
    /\ cancelled = FALSE /\ faultsLeft = MaxFaults
    /\ checkpoint = 0 /\ restartsLeft = MaxRestarts
-----------------------------------------------------------------------------
\* The insert trigger notifies the listening sessions when the rows commit.
Notify == notes' = IF Listening THEN notes + 1 ELSE notes

Commit(R) ==
    /\ Publish(R)
    /\ Notify
    /\ UNCHANGED <<phase, ch, pageVars, established, loopVars, envVars, checkpoint,
                   restartsLeft>>
-----------------------------------------------------------------------------
(***************************************************************************)
(* listenAndTail                                                           *)
(***************************************************************************)
Acquire ==
    /\ phase = "acquire" /\ ~cancelled
    /\ phase' = "listen"
    /\ UNCHANGED <<events, ch, pageVars, connVars, loopVars, envVars, consumerVars>>

Listen ==
    /\ phase = "listen" /\ ~cancelled
    /\ phase' = "load"
    /\ UNCHANGED <<events, ch, pageVars, connVars, loopVars, envVars, consumerVars>>

\* catchUp reads a page of the events after *position.
LoadPage ==
    /\ phase = "load" /\ ~cancelled
    /\ page' = FirstRows(After(position), Batch)
    /\ fullPage' = (Cardinality(page') >= Batch)
    /\ phase' = "send"
    /\ UNCHANGED <<events, ch, position, connVars, loopVars, envVars, consumerVars>>

\* catchUp sends the next event of the page; a full channel blocks it.
Send ==
    /\ phase = "send" /\ Len(ch) < Buffer
    /\ \E r \in page :
          /\ \A q \in page : r.pos <= q.pos
          /\ ch' = Append(ch, r)
          /\ position' = r.pos
          /\ page' = page \ {r}
    /\ UNCHANGED <<events, phase, fullPage, connVars, loopVars, envVars, consumerVars>>

\* The page is sent: load the next one, or return to the tail loop.  The
\* first return from catchUp is the moment the cycle is established.
PageDone ==
    /\ phase = "send" /\ page = {}
    /\ IF fullPage
         THEN phase' = "load" /\ UNCHANGED established
         ELSE /\ phase' = "wait"
              /\ established' = IF established = "zero" THEN "fresh" ELSE established
    /\ UNCHANGED <<events, ch, pageVars, notes, loopVars, envVars, consumerVars>>

\* waitForNotification takes one notification off the connection's queue.
WaitForNotification ==
    /\ phase = "wait" /\ ~cancelled /\ notes > 0
    /\ notes' = notes - 1
    /\ phase' = "load"
    /\ UNCHANGED <<events, ch, pageVars, established, loopVars, envVars, consumerVars>>

\* 30 seconds pass since the cycle established (the clock seam s.now).
StayUp ==
    /\ Listening /\ established = "fresh"
    /\ established' = "healthy"
    /\ UNCHANGED <<events, phase, ch, pageVars, notes, loopVars, envVars, consumerVars>>

\* The step at hand returns an error: the connection is released, with the
\* notifications queued on it, and the cycle is over.
Fail(kind) ==
    /\ phase \in {"acquire", "listen", "load", "wait"} /\ ~cancelled
    /\ EndlessFaults \/ faultsLeft > 0
    /\ faultsLeft' = IF EndlessFaults THEN faultsLeft ELSE faultsLeft - 1
    /\ phase' = "failed" /\ failure' = kind /\ notes' = 0
    /\ UNCHANGED <<events, ch, pageVars, established, reconnects, backoff, streak,
                   silent, cancelled, consumerVars>>
-----------------------------------------------------------------------------
(***************************************************************************)
(* runSubscription                                                         *)
(***************************************************************************)
\* reportSubErr drops an error that wraps a context error.
Reported(kind) == kind # "deadline"

\* The cycle that failed had established and then stayed up.  (Fault: the
\* budget is reset by every cycle that established.)
HealthyOnceUp == established # "zero"
Healthy == established = "healthy"

\* The wait that follows.  (Faults: reset to zero; not reset.)
BackoffZero == IF Healthy THEN 0 ELSE backoff
BackoffKept == backoff
NextBackoff == IF Healthy THEN 1 ELSE backoff

\* The loop body after listenAndTail returned an error: report it, reset the
\* budget after a healthy cycle, give up when the budget is exhausted.
EndCycle ==
    /\ phase = "failed" /\ ~cancelled
    /\ silent' = (silent \/ ~Reported(failure))
    /\ LET attempts == IF Healthy THEN 0 ELSE reconnects
       IN  IF MaxReconnects > 0 /\ attempts >= MaxReconnects
             THEN phase' = "closed" /\ reconnects' = attempts
             ELSE phase' = "backoff" /\ reconnects' = attempts + 1
    /\ backoff' = NextBackoff
    /\ streak' = IF established = "healthy" THEN 1 ELSE Smaller(streak + 1, MaxStreak)
    /\ UNCHANGED <<events, ch, pageVars, connVars, failure, envVars, consumerVars>>

\* The timer of the backoff fires; the next wait is twice as long, capped.
\* The next listenAndTail starts with a zero establishedAt.
Reconnect ==
    /\ phase = "backoff" /\ ~cancelled
    /\ phase' = "acquire"
    /\ backoff' = Smaller(2 * backoff, BackoffMax)
    /\ failure' = "none" /\ established' = "zero"
    /\ UNCHANGED <<events, ch, pageVars, notes, reconnects, streak, silent, envVars,
                   consumerVars>>

\* The context is cancelled; every blocking step returns, the loop sees
\* ctx.Err() and the deferred close runs.
Cancel ==
    /\ phase # "closed" /\ ~cancelled
    /\ cancelled' = TRUE
    /\ UNCHANGED <<events, phase, ch, pageVars, connVars, loopVars, faultsLeft,
                   consumerVars>>

StopsIn == phase # "closed"

Stop ==
    /\ StopsIn /\ cancelled
    /\ phase' = "closed" /\ notes' = 0
    /\ UNCHANGED <<events, ch, pageVars, established, loopVars, envVars, consumerVars>>
-----------------------------------------------------------------------------
(***************************************************************************)
(* The consumer of the channel (core's ProjectionService, external): it    *)
(* takes the events in order, saves its position now or later, and may     *)
(* subscribe again from the saved one: after the channel is closed, or     *)
(* because its process died with the goroutine and the buffer.             *)
(***************************************************************************)
Consume ==
    /\ ch # <<>>
    /\ consumed' = consumed \union {Head(ch)}
    /\ ch' = Tail(ch)
    /\ checkpoint' \in {checkpoint, Head(ch).pos}
    /\ UNCHANGED <<events, phase, pageVars, connVars, loopVars, envVars, restartsLeft>>

\* Subscribe: a new channel and a new goroutine, from fromPosition.
Subscribe(fromPosition) ==
    /\ phase' = "acquire" /\ ch' = <<>>
    /\ position' = fromPosition /\ page' = {} /\ fullPage' = FALSE
    /\ notes' = 0 /\ established' = "zero"
    /\ reconnects' = 0 /\ backoff' = 1 /\ failure' = "none" /\ streak' = 0
    /\ cancelled' = FALSE

Resubscribe ==
    /\ restartsLeft > 0 /\ restartsLeft' = restartsLeft - 1
    /\ Subscribe(checkpoint)
    /\ UNCHANGED <<events, consumed, checkpoint, silent, faultsLeft>>
-----------------------------------------------------------------------------
CycleStep == Acquire \/ Listen \/ LoadPage \/ Send \/ PageDone \/ WaitForNotification
LoopStep  == EndCycle \/ Reconnect \/ Stop

SubNext ==
    \/ CycleStep
    \/ LoopStep
    \/ StayUp
    \/ \E kind \in ErrorKinds : Fail(kind)
    \/ Cancel
    \/ Consume
    \/ Resubscribe

Next == (\E R \in SUBSET Row : Commit(R)) \/ SubNext

Spec == Init /\ [][Next]_vars

\* The goroutine and the consumer keep running: a timer fires, a query
\* answers.  Nothing is assumed of failures, commits or cancellation.
Fairness == WF_vars(CycleStep) /\ WF_vars(LoopStep) /\ WF_vars(Consume)

FairSpec == Spec /\ Fairness
-----------------------------------------------------------------------------
(***************************************************************************)
(* Properties                                                              *)
(***************************************************************************)
\* Every variable holds a value of its kind (postgres/eventstore.go 531-661).
TypeOK ==
    /\ events \in SUBSET Row /\ consumed \in SUBSET Row
    /\ phase \in Phases /\ ch \in Seq(Row)
    /\ position \in Nat /\ page \in SUBSET Row /\ fullPage \in BOOLEAN
    /\ notes \in Nat /\ established \in {"zero", "fresh", "healthy"}
    /\ reconnects \in Nat /\ backoff \in Nat \ {0}
    /\ failure \in {"none"} \union ErrorKinds
    /\ streak \in Nat /\ silent \in BOOLEAN
    /\ cancelled \in BOOLEAN /\ faultsLeft \in Nat
    /\ checkpoint \in Nat /\ restartsLeft \in Nat

\* Lossless delivery, the promise of Subscribe's comment: whatever the page
\* boundaries, reconnects, restarts and buffered events, an event the
\* subscription has passed is in the channel or was received.
NothingSkipped ==
    \A r \in events : r.pos <= position =>
        r \in consumed \/ \E i \in DOMAIN ch : ch[i] = r

\* What the loop counts is the outage it is in: its counter is the number of
\* cycles that failed since the last healthy one, the wait before a reconnect is
\* 100ms doubled for every one of these, capped, and it gives up only after
\* MaxReconnects of them and one.
OutageCounted ==
    /\ phase # "closed" => reconnects = streak
    /\ (phase = "closed" /\ ~cancelled) => streak = MaxReconnects + 1
    /\ phase = "backoff" => backoff = Smaller(2 ^ (streak - 1), BackoffMax)

\* WithSubscriptionErrorHandler (lines 95-102): the callback fires once per
\* failed connection cycle.
EveryFailedCycleReported == ~silent

\* A committed event reaches the consumer, unless the subscription is closed.
Delivered ==
    \A r \in Row : r \in events ~> (r \in consumed \/ phase = "closed")

\* The channel is closed, which gives the consumer control back: when the
\* subscription is cancelled, and when with a reconnect limit an outage has no
\* healthy cycle, even if LISTEN keeps succeeding.
SubscriptionEnds ==
    /\ cancelled ~> (phase = "closed" \/ ~cancelled)
    /\ ([]<>(phase = "failed") /\ <>[](established # "healthy")) => <>(phase = "closed")
=============================================================================
