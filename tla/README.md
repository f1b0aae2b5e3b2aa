# A verification project for contract-to-cash/adapters

The repository implements the ports of a contract-to-cash core: an event store,
transaction managers and repositories over PostgreSQL and MySQL, and payment
gateways over fincode and Stripe. The core itself is a library the repository
imports; it and the databases are modelled from how this code uses them and are
marked external.

This directory holds TLA+ modules translated from the Go source, TLC instances
of them (`MC*.tla`, `*.cfg`) and proofs checked by TLAPS (`*Proofs.tla`).
`PROJECT.json` gives, for every definition, the source lines it stands for.

    tlc -config MCPgEventStore.cfg MCPgEventStore.tla
    tlapm EventStoreProofs.tla

## 1. The system

| component | state | operations | talks to |
|---|---|---|---|
| event store, append (`eventstore.go`) | table `events`, `global_position` sequence, append lock | `Append` | its own or an ambient transaction |
| event store, subscription | LISTEN connection (postgres) or poll cursor (mysql), channel, reconnect budget | `Subscribe` | `LoadAll`, the insert trigger, core's `ProjectionService` |
| event store, snapshots and reads | table `snapshots` | `SaveSnapshot`, `LoadSnapshot(Before)`, `Load*` | contract repository |
| transaction managers (`tx_manager.go`) | the transaction carried by the context | `RunInTx` | every repository |
| invoice repository | `invoices` (`version`, `lock_version`), `invoice_history` | `Save`, `FindByID` (FOR UPDATE in a transaction), `FindByIDAsOf`, lists | ambient or own transaction |
| balance repository | `balance_entries`, applications, refunds | `Save`, `FindAvailable`, `FindExpired`, ... | core's balance service and expiration batch |
| contract repository | none of its own: the stream of a contract | `Save`, `FindByID`, `FindByIDAsOf`, due lists | event store, snapshots, read model |
| payment, credit note repositories | rows with an optimistic lock; idempotency key | `Save`, finds | transactions |
| price, product, usage repositories | rows, upserted | `Save`, finds | transactions |
| projectors, checkpoint store | read models, `projection_checkpoints` | `Project`, `Rebuild`, `Load`/`Save`/`Reset` | subscription, event store |
| migration runners | `schema_migrations` | `Migrate` | the database |
| fincode gateway and webhooks | none; the order lives at the provider | register, execute, capture, void, refund, verify | fincode API |
| stripe gateway and webhooks | none; the intent lives at the provider | charge, authorize, capture, void, refund, verify | Stripe API |

### What is hard

* A position in the event log is drawn at INSERT and becomes visible at COMMIT,
  while readers ask for "everything after p" and never look back (issue #60).
* A subscription must lose nothing between LISTEN and catch-up, across
  reconnects, at page boundaries, behind a full channel, and across restarts of
  its consumer from an old checkpoint.
* `Append` and `Save` run in their own transaction or in somebody else's; an
  ambient transaction may have read before, may roll back after success, and in
  PostgreSQL is dead after one failed statement while in MySQL it is not.
* Entities in memory carry an optimistic-lock version that outlives
  transactions; answers to commits get lost; callers retry.
* Bitemporal history windows must be disjoint and complete under all of it.
* A provider call is not transactional with anything: an order may be
  registered and not executed, a refund is a read-modify-write.

`PROJECT.json` lists the hazards line by line, with the property that would
catch each, or why none does.

### What makes each part correct

* *Append*: a stream is numbered 1..n; a batch is all or nothing; success means
  durable; one contract per idempotency key, and who loses the race for the key
  is not told to retry; commit order is position order; a waiting append is
  served.
* *Subscription*: nothing passed is lost, delivery is in order, rest means
  caught up, the budget and the backoff count the current outage, a cancelled or
  exhausted subscription closes its channel.
* *Invoice repository*: no lost update; one history row per version, adjacent
  windows, never closed before they began; "as of now" is the present.
* *Balance repository*: credit is spent once; repeated batch runs drain what
  expired.
* *Contract repository, projectors*: an as-of state is what had occurred by
  then, whatever snapshot it starts from; a projection that has caught up shows
  every contract as its events leave it; a contract due is renewed.
* *Payment and credit note repositories*: an acknowledged refund stays booked;
  one payment per idempotency key, and the loser is told which one.
* *Gateways*: one charge per idempotency key whatever is retried, lost or late;
  a reported outcome is one that happened; a total never exceeds the hold; what
  settles later becomes known, refunds that fail or are called off included.

## 2. The modules

| module | models | EXTENDS / INSTANCE |
|---|---|---|
| `EventLog` | the abstract log: publish above everything visible, receive from the front | |
| `PgSubscription` | `Subscribe` of postgres/eventstore.go | EXTENDS `EventLog` |
| `MySqlSubscription` | `Subscribe` of mysql/eventstore.go | EXTENDS `EventLog` |
| `EventAppend` | `Append` and `RunInTx` of both adapters | `Log == INSTANCE EventLog WITH consumed <- {}` |
| `PgEventStore` | appends and a subscription over one table | EXTENDS `EventAppend`, `Sub == INSTANCE PgSubscription` |
| `InvoiceStore` | the invoice repository, one invoice | |
| `BalanceExpiry` | the balance repository and its two kinds of caller | |
| `Projection` | the contract projector, `Rebuild`, the checkpoint store | |
| `ContractStore` | the contract repository, snapshots, the renewal batch | EXTENDS `Projection` |
| `PaymentStore` | the payment and credit note repositories | |
| `FincodeGateway` | the fincode gateway over its client, request by request | |
| `StripeGateway` | the stripe gateway and its webhook handler | |
| `PgSubscriptionProofs` | theorems about both subscriptions | EXTENDS `PgSubscription`, `My == INSTANCE MySqlSubscription` |
| `EventStoreProofs` | theorems about `EventAppend` and the composition | EXTENDS `PgEventStore`, `Reader == INSTANCE PgSubscriptionProofs` |
| `ContractStoreProofs`, `InvoiceStoreProofs`, `BalanceExpiryProofs`, `PaymentStoreProofs`, `FincodeGatewayProofs`, `StripeGatewayProofs` | theorems about the module of that name | EXTENDS it |

A definition whose comment says "(Fault: ...)" is not used by the
specification. It is a plausible bug in the definition that follows it, and
`PROJECT.json` pairs each property with a fault that breaks it.

**EventLog.** `events` is the set of committed rows, `consumed` what the
consumer has received. `Publish(R)` is the commit of a transaction: the rows of
`R` lie above every visible row. `Receive(r)` takes the first row not received.
`LogSpec` is what both `Append` and `Subscribe` implement.

**PgSubscription.** `phase` is the program counter of the goroutine:
`acquire -> listen -> load -> send -> (load | wait)` is one run of
`listenAndTail` with `catchUp` inlined; `failed -> backoff -> acquire` or
`closed` is the loop of `runSubscription`. One action is one step that can
block, fail or be overtaken. The connection is abstracted to the notifications
queued on it (`notes`) and `establishedAt` to zero, younger than 30 seconds, or
older; `backoff` is counted in units of 100ms. A failing step returns "conn", or
"deadline", an error that wraps `context.DeadlineExceeded`. `Resubscribe` is the
consumer's restart, from any position it may have saved, with the channel's
buffer lost. `streak` and `silent` are history variables. A select that finds
both the context done and room in the channel may take either branch, so `Send`
needs no `~cancelled`.

**MySqlSubscription.** `pollLoop`: `poll -> send -> (poll | sleep)`.

**EventAppend.** One action per SQL statement of a caller `p`: take the lock,
COUNT and check, INSERT one event, commit, roll back. `ambient` tells Append's
own transaction from `RunInTx`'s. `rows[p]` is what the open transaction has
inserted. The constant `Dialect` selects what the databases do differently:

| | postgres | mysql |
|---|---|---|
| SELECT in a transaction sees | what is committed now | what was committed at its first read (`frozen`, `view`) |
| a failed INSERT | aborts the transaction (`aborted`) | fails alone |
| duplicate event id is | an infrastructure error | a conflict |
| a wait for the append lock | lasts until the holder's transaction ends | may also time out and fail |

A statement that clashes with another open transaction's row waits for it, as
both databases do. `global_position` is consumed by rollbacks too. A commit may
succeed, or leave the caller without an answer (`unknown`). `Swallow` lets a
`RunInTx` callback ignore an error of Append and commit; it is TRUE on postgres,
where the abort protects the batch, and FALSE on mysql, where a callback that
does this commits half a batch: nothing in the repository says one may.

**PgEventStore.** The composition. The two sides share the table and the
notification a commit queues. `PgSubscription` by itself assumes that rows are
published in position order; here nothing is assumed of commits, and
`AppendMeetsSubscription` says that the assumption holds.

**InvoiceStore.** The invoice's content is abstracted to its lineage (`base`):
the history version of the row it was made from. A saved state whose lineage is
not the state it replaced has overwritten an update nobody saw, which is what
`NoLostUpdate` denies. `saveOn` is one action: after its first statement it
holds the row lock, no other transaction can interfere with the history, and a
failure inside it is a `Rollback`. The instant of the history rows is the begin
of the transaction in postgres (`NOW()`), the clock at the write in mysql; the
variable `dialect` is chosen at the start and never changes.

**BalanceExpiry.** Callers grant, find and apply credit; the batch finds what
expired and forfeits it. Reads and saves are separate actions with no lock
between them, as in the code. A save may fail, or succeed without an answer, and
the entity may then be saved again. Amounts are small integers; the exact
rational amounts of the code are compared only with zero and subtracted.

**Projection.** A position is an index of `log`. The read model is `table`, a
row has the status, the two dates and the version that the queries use. The
projection service of the core is external: it loads the checkpoint, projects
event by event and saves the position now or later, and it crashes between any
two of these. `Rebuild(until)` is a transaction of its own: a private copy of
the table, a scan that reads pages while events are appended, a stop at the
first event past the horizon, and the checkpoint it saves. postgres scans the
log as it is at each page and mysql as it was at the first: `ScanStops` allows
every length in between. Rebuild runs while the projection service is stopped;
with both running, an UPDATE of a row the rebuild has deleted changes nothing
and the checkpoint moves past it, so nothing would hold.

`ReadModelAt(n)` states what the table must be without `Apply`: from the last
event of each kind, not by a fold.

**ContractStore.** The log of `Projection` holds the streams of the contracts
that callers save. `Save` is one step, since `EventAppend` models its
statements. An aggregate's state is the set of its events, which their versions
order, so `FindByIDAsOf` of a stream with snapshots can be compared with
`LoadUntil`; the
`n` of both is the length of the log when the events were read, the snapshot is
read later. `created` of a snapshot is any instant of the caller's clock. The
renewal batch finds contracts in the read model, loads them one after the other
and renews each at the version it loaded.

**PaymentStore.** One action per statement: postgres's upsert, mysql's INSERT
and guarded UPDATE with the shared lock the refused INSERT leaves, and the
lookup of the payment that holds the key. A row is the set of refunds booked on
it and `lock_version`. An entity is dropped after a save that was not
acknowledged, which is the difference to `InvoiceStore`, whose callers may keep
it (`MCInvoiceStoreRetry.cfg` shows what that costs). A credit note is a payment
without a key whose refunds are its transitions.

**FincodeGateway.** A port call is a sequence of HTTP requests, `call[c].pc`
says which comes next, and one step is one request: answered, refused, or given
up. A request that was given up stays in `late` and may be served at any later
moment, which is how a timeout races a retry. What fincode does is external and
as generous as the comments of the client leave open: the replay of the
`idempotent_key` header may be scoped by endpoint or not (`perEndpoint`), and
ends at any moment (`Expire`). `held`, `billed`, `captured` and `key` of an
order are history. Callers serialize the refunds of one order, as
gateway.go:514-518 asks. `Capture`, `Void`, `Cancel` and `Refund` begin in `Later`, on
any order fincode knows, executed or only registered, with a key or without one:
a request without a key has no header and nothing replays it.

**StripeGateway.** Every port call is one mutating request, so `Charge`,
`Authorize`, `Capture`, `VoidOrCancel` and `Refund` are one action each. `Pay` is
the request of a charge or a hold with its outcomes: an answer, or an error, of
which `wrapGatewayError` says whether the caller may try again. A request that
got no answer, or an error of the API itself, may still be served later
(`ServeLate`). An intent and a refund carry the sequence of their statuses, a
refund up to "succeeded", "failed" or "canceled", and the set of events is a
function of it: one per status of an intent, and of a refund the event that
created it, a `charge.refunded` with and without the refund in it, and the events
of each later status. `ParseAndVerify(e, t, now)` may take any event of the past,
in any order, signed at `t` and read on a clock that shows `now`: signed anew and
in time (`Redelivered`), or long ago, or on a clock that is slow or fast
(`Delayed`), so that `verifyTimestamp` refuses in both directions. `seen` is what
the consumer has booked. A refusal of a capture, a void or a refund changes
nothing and is left out.

## 3. What TLC checks

| run | instance | shows |
|---|---|---|
| `pg_subscription` | positions 1..4 (any subset committed, in any grouping), page 2, buffer 2, failures without end, reconnect limit 2, 1 restart | `TypeOK`, `OutageCounted`, refinement of `LogSpec`, and under fairness `Delivered`, `SubscriptionEnds` |
| `mysql_subscription` | positions 1..5, page 2, buffer 2, 2 failed polls, 1 restart | `TypeOK`, refinement of `LogSpec`, `Delivered` |
| `append_mysql` | mysql, 2 callers, 2 streams, 6 calls chosen to end in every way, 3 calls a behaviour | `StreamsContiguous`, `ImplementsLog`, `LockGranted` |
| `pg_event_store` | postgres, 6 calls alike, 2 a behaviour, callbacks that swallow errors; a subscription with page and buffer 1 | `TypeOK`, `StreamsContiguous`, `OneContractPerKey`, `BatchAtomic`, `NoEventLost`, `AppendMeetsSubscription` |
| `invoice` | both dialects, 2 callers, 4 versions, clock 0..1, entities kept after a rollback | `TypeOK`, `LostOnlyAfterKeptSave`, `HistoryComplete` |
| `balance` | 2 callers and the batch, no limit, 2 entries of at most 2, clock 0..2, 1 fault | `TypeOK`, `NoCreditTwice`, `BacklogDrains` |
| `balance_limit` | limit 1, one caller, amounts of 1 | violates `BacklogDrains` |
| `contract` | 2 contracts, 3 saves and the renewals, 1 rebuild, 1 failure, 1 snapshot, limit 1, dates 1 and 2 | `TypeOK`, `CaughtUpMeansExact`, `AsOfIsPast`, `RenewalsDrain` |
| `payment` | both dialects, 2 callers, 2 payments with one key, 2 refunds, 4 saves | `TypeOK`, `NoRefundLost`, `DuplicatesNameWinner` |
| `fincode` | 2 callers, 1 key and calls without a key, amounts 1..2, 2 assigned orders, 3 port calls, 1 lost answer, reused keys, replays that expire | `TypeOK`, `OneChargePerKey`, `NeverAboveHold`, `OkMeansDone`, `KeyReuseRejected`, `FailedMeansNotBilled` |
| `fincode_refund_retry` | no reuse, no expiry, 1 lost answer | violates `RefundRetryIsSafe` |
| `stripe` | 1 key, 1 refund, 2 intents, card and konbini, every kind of error, clock 0..2, tolerance 1 | `TypeOK`, `OneIntentPerKey`, `BookedMeansHappened`, `SettlementIsBooked` |

Four more configurations can be run by hand. Each ends in a violation that is
described in section 4:

| configuration | module | violates |
|---|---|---|
| `MCPgSubscriptionReports.cfg` | `MCPgSubscription` | `EveryFailedCycleReported` |
| `MCInvoiceStoreWindows.cfg` | `MCInvoiceStore` | `WindowsRunForward` |
| `MCInvoiceStoreRetry.cfg` | `MCInvoiceStore` | `NoLostUpdate` |
| `MCFincodeKeyReuse.cfg` | `MCFincodeGateway` | `KeyReuseNeverReplays` |

**Why the bounds are enough.** The races are between two callers: a third waits
for the same lock. Four positions with pages of two give an empty, a partial, a
full and a following page, and with a buffer of two a full channel in the middle
of a page. Failures without end exhaust the limit of two before, between and
after healthy cycles; a limit of zero only never takes the branch that gives up.
Three appends give a creation, a rival and a continuation that is
stale, due or ahead depending on the order. Four versions of an invoice give
a creation, a save on it, the save of a kept entity and the save of a writer who
loaded before that one (finding 5; with three versions the last never happens);
two instants put a transaction's begin before and after another's commit. Two contracts and a limit of one give a
contract hidden behind another; three saves a creation, a change that stops it
being due and a change back. One rebuild and one failure give a rebuild before,
between and after projections, completed and rolled back. Snapshots and the read
model are explored apart (`ApartSpec` in `MCContractStore` takes no step into a
state that has both), because the one never reads the other; the theorems about
`ContractStore` are about `Spec`, which has both. Four saves are two creations that race for a key and a refund
by each caller. Three port calls are a charge, its retry and a completion, or a
hold, a capture and a refund, with one answer lost anywhere; amounts 1 and 2
are a part and the whole. One key is enough, because two keys share nothing: the
order id and every header are injective in the key, so orders and replayed
answers of another key are out of reach; calls without a key run beside it (the
two by-hand and violation configurations keep two keys). In `stripe` one key with
two possible intents is what a duplicate needs; a clock of three instants and a
tolerance of one make a request too old, or too early for a slow clock. The bounds on restarts, faults, calls,
versions and the clock are the constants named `Max...`; every guard that uses
one is part of the action it bounds.

**Deadlock** is checked for `append_mysql`, where a state without a successor
would be callers that wait for each other (with the calls used up a caller can
still begin and end transactions). It is switched off where the system really
stops: a closed subscription whose consumer is done, a clock or a number of
calls at its bound.

**Fairness.** The goroutine's steps and the consumer are weakly fair: the
runtime schedules a goroutine whose query, timer or channel is ready. Nothing is
assumed of commits, failures, cancellation or restarts. In `EventAppend` a
caller inside a transaction goes on (a statement ends, a callback returns; no
wait has to time out), and
the append lock is strongly fair: both databases queue waiters, so one that
waits while the lock is freed again and again is served. The batch of
`BalanceExpiry` is run again and again; its saves may fail as often as the
bound lets them. In `ContractStore` the projection service is restarted and
keeps up, a rebuild ends, and the scheduler runs the batch; nothing is assumed
of saves, crashes or the checkpoint. In `StripeGateway` only the redelivery of an
event is fair, each attempt signed anew and read on a clock that is right: that
is what Stripe documents, and a handler whose clock stays wrong accepts nothing.
`SettlementIsBooked` therefore holds of every settled payment, every refund that
settled and every refund that ended failed or canceled, however many requests
were refused before.

## 4. Findings

The first two are runs of the project (`balance_limit`, `fincode_refund_retry`);
3 to 6 are the configurations above.

1. *A limit that stops the expiration batch.* Consumed entries stay in the
   expired set, count against LIMIT and are filtered afterwards.
2. *A retried partial refund is another refund.* `Refund` computes the request
   from the current total, which the first attempt has lowered. Inside the 30
   minutes the retry then sends another total under the same key (replayed, and
   harmless), or takes `/cancel` because the amount is now all that is left
   (nothing replays it if the header is scoped by endpoint: everything is given
   back), or is refused because it is more than what is left.
3. *Subscriptions report less than they say.* `reportSubErr`, in both adapters,
   drops every error that wraps `context.DeadlineExceeded`, assuming it is the
   caller's own deadline. A timeout of the driver wraps it too, so the outage
   the handler exists for can be silent.
4. *History windows that end before they begin.* `NOW()` is the start of a
   postgres transaction. T1 begins, T2 begins, saves and commits, T1 then reads
   the row FOR UPDATE and saves: T2's history row gets `valid_to < valid_from`,
   and no temporal query finds the state T2 committed. The mysql adapter reads
   the clock after the write; its run assumes one clock for all writers.
5. *A loaded version that was never persisted.* `SetVersion` runs before the
   commit. After a rollback the entity expects the version it failed to write;
   when another writer has written one with that number, saving the entity again
   passes the guard. That save may leave `lock_version` where it was, so a
   writer who loaded the row before it passes the guard as well and overwrites
   it, with an entity that was never kept over anything. What holds is
   `LostOnlyAfterKeptSave`: until a kept entity (`kept`) is saved, nothing is
   overwritten unseen.
6. *A reused key inside the header's window.* gateway.go:291-299 and
   README.md:112-120 say that a key used again for another amount or job is
   refused. It is when the register is refused as a duplicate; when the register
   is replayed from the `idempotent_key` header, the first order is executed or
   reported as it is. `KeyReuseRejected` states what does hold.

Not checked by a configuration: `FindByIDAsOf` with clocks that run backwards
within one stream (`SkewedClocks`) can mix a snapshot with events it already
contains, since the highest version among the events up to `asOf` then says
nothing of the events in between.

## 5. What is proved

TLAPS checks these for every value of the constants, under the `ASSUME`s of the
modules: types of the parameters, positive positions, a page and a buffer of at
least one, an `ErrorKinds` of the two kinds, markers such as `NoProc`, `NoRow`
and `NoKey` that are not one of the values they stand beside, keys of charges
that are not keys of refunds, and a last date in `Date`. A theorem that assumes
more says so below. Every invariant that a run checks is also a theorem.

`EventStoreProofs`, on `EventAppend`: the inductive invariant `IInv` adds to
`TypeOK` that the next event to insert is inside the batch, that a transaction
with rows holds the append lock (`LockHeld`), that every row's position was drawn
from the sequence (`PositionsDrawn`), and that an open transaction's rows lie
above all committed ones (`PendingLast`) with distinct positions
(`PendingBatch`). The two in the middle make the fourth inductive: a row gets the
next position while its transaction holds the lock, so no other can commit
before it ends. From it:

* `TypeCorrect`: `Spec => []TypeOK`;
* `AppendImplementsLog`: `Spec => ImplementsLog`, the refinement of `EventLog`;
* `UniqueRows`: no two rows clash on a unique index. The strengthening is that
  committed and pending rows do not clash with each other;
* `OneContract`: `OneContractPerKey`, one contract per idempotency key from
  `UniqueRows`, and from `Losers` what the loser is told: a creation meets a
  version conflict only over an event of its own stream, which stays when the
  transaction that `Append` began is rolled back (`OwnRows`: that one holds no
  row of the version the call inserts);
* `ContiguousStreams`: `StreamsContiguous`, from `Numbered`. The snapshot a
  caller counts in may be stale, so what is kept is that the versions visible to
  each transaction have no gap (`Dense`) and that its next insert builds on rows
  it sees; the unique index refuses the rest. A set of rows with no gap and no
  duplicate is numbered up to its size (`DenseCount`), which takes the
  cardinality lemmas;
* `WholeBatches`: `BatchAtomic`, from `Batches`: an open transaction that may
  still commit consists of whole batches and, while it inserts, of the first
  events of one more. Assumed: the dialect is postgres or no callback swallows
  an error of Append; for mysql with such a callback it is false.

On `PgEventStore`: a commit of the append side is a publication as the
subscription assumes it (`AppendSideCommits`, from `AppendImplementsLog`'s step
lemma), so each side keeps its own invariant under the steps of both:
`StoreLosesNothing` (`NoEventLost`) and `StoreMeetsSubscription`
(`AppendMeetsSubscription`). `StoreAppends` says that the composition implements
`EventAppend`, so that what was proved of it holds here too; `StoreKeepsBatches`
states the three properties of the run, for the dialect postgres, which is what
`PgEventStore` is about. `StoreSubscribes` is the other half: the composition
implements `PgSubscription` as well, appends being the commits of its
environment. Hence `StoreReadsLog`, from end to end: what the consumer receives of
racing, failing and rolled-back appends is the log from the front, in order, and
the outages are counted as `OutageCounted` says.

The mysql store is composed in `EventStoreProofs` itself (`MySqlStoreSpec`): the
same appends, and the polling loop in place of the listener. `MySqlStoreComposes`
says that it implements both sides, `WriteSideCommits` being the step that
matters; so `MySqlStoreReadsLog` (in order, nothing skipped) and
`MySqlStoreKeepsBatches` (batches where no callback swallows an error) hold for it.
No run explores this composition: its two sides have a run each.

`PgSubscriptionProofs`: `IInv` is `TypeOK` and `Reading`, which states where
every row of the log is, whatever step the goroutine is at: `Known` and `FromLog`
(what is in the channel, the page or the consumer's hands are rows of the log),
`PageComplete` (the rest of the page holds every row between the position and the
page's last row), `ChannelComplete` (rows between a buffered event and the
position are buffered after it), `CheckpointDelivered` (rows at or below the
saved checkpoint were received, which is what makes a restart harmless) and
`NothingSkipped` itself, over `LogOK` (distinct positions). From it
`TypeCorrect`, `Lossless` (`NothingSkipped`) and `SubscriptionReadsLog`
(refinement of `LogSpec`). `Reading` says nothing of the connection or the
timers, so each step is a case of a few moves of the log, the page and the
channel, and the polling loop of mysql makes the same moves: `PollTypeCorrect`,
`PollingLossless` and `PollingReadsLog` are the same results about
`MySqlSubscription`, instantiated in the variables of this module. `PageFits`
bounds a page by its LIMIT. `OutagesCounted` is `OutageCounted`: the
loop's counter is the number of cycles that failed since the last healthy one
(the history variable `streak`), the budget and the backoff follow it, the backoff
as a power of two up to its maximum. The powers are the numbers of subsets of 1..n, because the prover
knows no exponentiation.

`PaymentStoreProofs`: `TypeCorrect`, `RefundsKept` (`NoRefundLost`) and
`DuplicatesNamed` (`DuplicatesNameWinner`), in both dialects, for any callers
and number of saves. Equal versions do not by themselves mean equal refunds, so
`NoRefundLost` is not inductive. `IInv` adds `Lineage` (an entity's loaded
version is never ahead of the row's; where they are equal the entity holds every
refund of the row, and the same ones if it made no transition), `Writers` (the
guard of a write that waits for its commit still holds, and nobody else has
written the row or a rival: the database's row lock is what keeps the optimistic
check true until the commit), `Created` (an unsaved id has one holder, so only
its creator inserts it), `OneRowPerKey`, `Callers` and `Named`. Every step is
one of four kinds (`Quiet`, `Pends`, `Stores`, `Takes`), each with a lemma. The
proof relies on `New` giving every payment a fresh id.

`InvoiceStoreProofs`: `TypeCorrect`, `HistoryIsComplete` (`HistoryComplete`, with
`WindowsRunForward` on mysql) and `LostOnlyAfterKept` (`LostOnlyAfterKeptSave`),
`NoUpdateLost` (`NoLostUpdate`) assuming that no caller keeps an entity over a
rollback, and, with no such assumption, `RecordedPastStays`: no step rewrites or
drops a recorded state or a window that has ended (`PastStays`), because what an
open transaction will commit keeps all that is committed (`Continues`), which the
row lock makes inductive. `Histories` says of the committed history and of every open
transaction's what `HistoryComplete` needs; `Locked`, that a transaction that
wrote holds the row lock, keeps the two together until the commit. `Lineage` is
the meaning of the optimistic lock: an entity never expects a `lock_version` ahead
of the row's, and expecting just the row's it was made from the row as it is.
`Raised` makes it inductive: every save raises `lock_version`. Both are excused
once a kept entity was saved (finding 5); an attempt to prove the earlier,
stronger form of the property, which excused only the kept entities' own saves,
is what showed the second half of that finding.

`BalanceExpiryProofs`: `TypeCorrect` and `CreditSpentOnce` (`NoCreditTwice`), for
any callers, entries and amounts. An entity's amount when loaded is the row's as
long as the row has the version it was loaded at (`Grounded`), of the callers'
entities and of those the batch has yet to save alike; `Books` is the property
and that nothing is taken from an entry that is not stored.

`ContractStoreProofs`, for any contracts, dates, clocks and bounds:

* `TypeCorrect`: `TypeOK`, with the snapshots that never run ahead of their
  stream. The due list is a sequence because only contracts with events have a
  row (`DueRowsFinite`);
* `CaughtUpIsExact`: `CaughtUpMeansExact`. Replaying an event is not idempotent
  by itself (a row goes back to an older status), so the invariant is not that
  the table is some prefix's. `Shows` says of a row, of one column at a time:
  where no event after position p writes the column, it has the value that the
  whole log gives it. `Agrees(T, p)` says so of a table and `ReadModels` of the
  committed table at the checkpoint and at the cursor and of a rebuild's rows at
  its scan; it survives appends (`AgreesStays`), projecting the next event once
  more (`ApplyAgrees`), and going back to an earlier position (`AgreesBelow`). At
  the end of the log every column is final;
* `AsOf`: `AsOfIsPast`, assuming `~SkewedClocks` (see the end of section 4). Streams
  are numbered and stamped in order (`Numbered`), so what a usable snapshot stands
  for had occurred by `asOf` (`UsableIsPast`);
* `SavesPublish`: `Save`, one step here, is to the events table what the Append
  of `EventAppend` is: the saves and renewals implement `EventLog` (its rows are
  the events with their positions), and each stream begins with its one creation
  and is numbered from 1 (`Numbered`). So the log that the read model is built
  from is one that the appends produce.

`StripeGatewayProofs`: `TypeCorrect`, `KeysAreIntents` (`OneIntentPerKey`) and
`BookedHappened` (`BookedMeansHappened`). A status once reached stays in the past
of its intent or refund, so what an answer (`Answers`) or an event (`News`) says
stays true however late it is booked; "succeeded" is moreover the last status of
an intent (`Settled`), so the amount received stays what was reported
(`Captures`); and the answer Stripe saves for a key names the one intent made
with it (`Saves`). A charge that is reported as failed for good stays unpaid
(`Failures`): either the one intent of its key was declined at once and only a
cancel can follow, or no request of the key was served and none is under way,
because every error that leaves this open is retryable. Keys of payments are not
empty (`KeysAssumption`).

`FincodeGatewayProofs`: `TypeCorrect`, `OneCharge` (`OneChargePerKey`), `NeverAbove`
(`NeverAboveHold`), `OkIsDone` (`OkMeansDone`), and the action properties
`ReuseIsRejected` (`KeyReuseRejected`) and `FailedIsNotBilled`
(`FailedMeansNotBilled`), whether or not the replay is scoped by endpoint and
whether it expires or not. An order never loses what it has become (`Grows`), so
a request that was in order when it was sent is so when it is served late
(`Sent`), and a saved answer when it is replayed (`Saved`). A key stands for one
operation on one order, so every request under its header is about that order
(`Fits`), and an answer replayed across endpoints still speaks of what was asked:
the two ways to refund are the one exception, and either is a refund.
`Owned` ties an order to its key, `Ongoing` a call to the order it is about.

**Only model-checked.** Liveness, since fairness and ENABLED are beyond the
prover: `Delivered`, `SubscriptionEnds`, `LockGranted`, `BacklogDrains`,
`RenewalsDrain` and `SettlementIsBooked`; and the violations of section 4.

## 6. Not modelled

* Encodings (JSON, money columns, timestamps below a microsecond), the SQL list
  queries, request building for the providers, and configuration.
* Price, product and usage repositories, customers, cards and payment methods:
  one statement or one remote call per operation.
* The invoice projector, whose steps are those of the contract projector.
* The fincode webhook handler: a signature check and a table, with no state and
  no clock. How well a consumer deduplicates by its `eventID` depends on the
  dates fincode sends.
* The migration runners, which run to their end before anything else starts, and
  the connection pools: a connection is granted when it is asked for.
* The 24 hours after which Stripe forgets an idempotency key.
* Whatever a caller does with an aggregate after a rollback.
* Two creators of one invoice id, and a crash inside the transaction that writes
  an invoice and its history: the transaction is one step of `InvoiceStore`, as
  the databases make it one.

The database is trusted to keep its isolation levels, locks, unique indexes and
notification order. Clocks of different hosts are one clock, except for the
clock that stamps a snapshot and the one a webhook is checked against.

## 7. Plan

1. A run that explores the composed mysql store, which is proved about but not
   model-checked as a whole.
2. `Migrations`: both runners, a crash between statements, two runners at once.
3. `ConnectionPool`: subscriptions and transactions over `MaxConns`, and the
   order of append lock and row locks in ambient transactions.
