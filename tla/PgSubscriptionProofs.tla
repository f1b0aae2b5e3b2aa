------------------------ MODULE PgSubscriptionProofs ------------------------
(***************************************************************************)
(* Theorems about PgSubscription, for every page size, buffer, backoff,    *)
(* reconnect limit and number of failures and restarts: its types, that    *)
(* no event is skipped, and that it delivers as EventLog promises.         *)
(*                                                                         *)
(* The argument: rows are published behind everything visible, so the      *)
(* position of a visible row is a cut of the log no later commit moves     *)
(* (Known).  A page holds every event between the position and its last    *)
(* row (PageComplete); the channel continues what was consumed without a   *)
(* gap (ChannelComplete), so that a checkpoint taken from the head of the  *)
(* channel is a position before which everything was received              *)
(* (CheckpointDelivered), and subscribing again from it skips nothing.     *)
(* That argument (Reading) is about the log, the page, the channel and the *)
(* cursors only, so that the polling loop of MySqlSubscription, in the     *)
(* variables of this module, keeps it too: the last section proves for it  *)
(* the types, LogSpec and that nothing is skipped.                         *)
(***************************************************************************)
EXTENDS PgSubscription, FiniteSetTheorems, SequenceTheorems, WellFoundedInduction, TLAPS

\* The event is in the channel.
Buffered(r) == \E i \in DOMAIN ch : ch[i] = r

\* The log is finite and its rows have distinct positions.
LogOK == IsFiniteSet(events) /\ Distinct(events)

\* The cursors stand at the start of the log or at a visible row.
Known == \A p \in {position, checkpoint} : p = 0 \/ \E r \in events : r.pos = p

\* Page and channel hold visible rows, the page only rows still to be sent.
FromLog == page \subseteq After(position) /\ \A i \in DOMAIN ch : ch[i] \in events

\* catchUp (lines 643-661): an event before a row of the page is in it too.
PageComplete ==
    \A r \in page, q \in After(position) : q.pos < r.pos => q \in page

\* An event before one in the channel was received or is ahead of it there.
ChannelComplete ==
    \A i \in DOMAIN ch : \A q \in events :
        q.pos < ch[i].pos => q \in consumed \/ \E j \in 1..(i - 1) : ch[j] = q

\* What the saved position covers was received.
CheckpointDelivered == \A r \in events : r.pos <= checkpoint => r \in consumed

\* What both subscriptions keep of the log, the channel and the page.
Types == /\ events \in SUBSET Row /\ consumed \in SUBSET Row /\ ch \in Seq(Row)
         /\ position \in Nat /\ page \in SUBSET Row /\ checkpoint \in Nat

Reading == /\ Types /\ LogOK /\ Known /\ FromLog /\ PageComplete
           /\ ChannelComplete /\ CheckpointDelivered /\ NothingSkipped

IInv == TypeOK /\ Reading
-----------------------------------------------------------------------------
(***************************************************************************)
(* What the steps of a subscription, and the commits it reads, do to the   *)
(* log, the channel, the page and the positions                            *)
(***************************************************************************)
Publishes(R) == Publish(R) /\ UNCHANGED <<ch, position, page, checkpoint>>

Loads ==
    /\ page' = FirstRows(After(position), Batch)
    /\ UNCHANGED <<events, consumed, ch, position, checkpoint>>

Sends ==
    /\ \E r \in page : /\ \A q \in page : r.pos <= q.pos
                       /\ ch' = Append(ch, r) /\ position' = r.pos
                       /\ page' = page \ {r}
    /\ UNCHANGED <<events, consumed, checkpoint>>

Consumes ==
    /\ ch # <<>> /\ ch' = Tail(ch)
    /\ consumed' = consumed \union {Head(ch)} /\ checkpoint' \in {checkpoint, Head(ch).pos}
    /\ UNCHANGED <<events, position, page>>

Restarts ==
    /\ ch' = <<>> /\ position' = checkpoint /\ page' = {}
    /\ UNCHANGED <<events, consumed, checkpoint>>

Idles == UNCHANGED <<events, consumed, ch, position, page, checkpoint>>

\* A position is a positive number.
LEMMA Positions == \A r \in Row : r.pos \in Nat /\ r.pos > 0
BY RowAssumption

\* A LoadAll page is closed downwards: with a row it holds every row of the
\* query result before it.
LEMMA FirstRowsClosed ==
    ASSUME NEW S \in SUBSET Row, IsFiniteSet(S), NEW n \in Nat,
           NEW r \in FirstRows(S, n), NEW q \in S, q.pos < r.pos
    PROVE  q \in FirstRows(S, n)
<1> DEFINE UpTo(x) == {s \in S : s.pos <= x.pos}
<1>1. r \in S /\ Cardinality(UpTo(r)) <= n
  BY DEF FirstRows
<1>2. UpTo(q) \subseteq UpTo(r)
  BY <1>1, Positions
<1>3. IsFiniteSet(UpTo(r))
  BY FS_Subset
<1>4. Cardinality(UpTo(q)) <= Cardinality(UpTo(r))
  BY <1>2, <1>3, FS_Subset
<1>5. Cardinality(UpTo(q)) \in Nat /\ Cardinality(UpTo(r)) \in Nat
  BY <1>2, <1>3, FS_Subset, FS_CardinalityType
<1> QED
  BY <1>1, <1>4, <1>5 DEF FirstRows

\* Both subscriptions start with an empty log from its beginning.
LEMMA StartReads ==
    ASSUME LogInit, ch = <<>>, position = 0, page = {}, checkpoint = 0
    PROVE  Reading
<1>1. Types
  BY EmptySeq DEF LogInit, Types
<1>2. LogOK /\ Known /\ FromLog /\ PageComplete /\ ChannelComplete /\ CheckpointDelivered
  BY FS_EmptySet DEF LogInit, LogOK, Distinct, Known, FromLog, PageComplete,
                     ChannelComplete, CheckpointDelivered, After
<1> QED
  BY <1>1, <1>2 DEF Reading, NothingSkipped, LogInit

\* A commit adds rows behind every cursor, page and buffered event.
LEMMA PublishReads ==
    ASSUME Reading, NEW R \in SUBSET Row, Publishes(R)
    PROVE  Reading'
<1>1. /\ events' = events \union R /\ IsFiniteSet(R) /\ Distinct(R)
      /\ \A r \in R, s \in events : s.pos < r.pos
      /\ UNCHANGED <<consumed, ch, position, page, checkpoint>>
  BY DEF Publishes, Publish, Above
<1>2. Types'
  BY <1>1 DEF Reading, Types
<1>3. \A r \in R : r.pos > position /\ r.pos > checkpoint
  BY <1>1, Positions DEF Reading, Known, Types
<1>4. LogOK'
  <2>1. IsFiniteSet(events')
    BY <1>1, FS_Union DEF Reading, LogOK
  <2> QED
    BY <1>1, <2>1, Positions DEF Reading, LogOK, Distinct, Types
<1>5. Known'
  BY <1>1 DEF Reading, Known
<1>6. FromLog'
  BY <1>1 DEF Reading, FromLog, After
<1>7. PageComplete'
  BY <1>1, Positions DEF Reading, PageComplete, FromLog, After, Types
<1>8. ChannelComplete'
  BY <1>1, Positions DEF Reading, ChannelComplete, FromLog, Types
<1>9. CheckpointDelivered' /\ NothingSkipped'
  BY <1>1, <1>3, Positions DEF Reading, CheckpointDelivered, NothingSkipped, Types
<1> QED
  BY <1>2, <1>4, <1>5, <1>6, <1>7, <1>8, <1>9 DEF Reading

\* A step that touches neither the log nor what is derived from it.
LEMMA IdleReads == ASSUME Reading, Idles PROVE Reading'
BY DEF Idles, Reading, Types, LogOK, Distinct, Known, FromLog, After, PageComplete,
       ChannelComplete, CheckpointDelivered, NothingSkipped

\* A new page is complete up to its last row.
LEMMA LoadReads == ASSUME Reading, Loads PROVE Reading'
<1>1. /\ page' = FirstRows(After(position), Batch)
      /\ UNCHANGED <<events, consumed, ch, position, checkpoint>>
  BY DEF Loads
<1>2. After(position) \subseteq events /\ After(position) \in SUBSET Row
  BY DEF After, Reading, Types
<1>3. IsFiniteSet(After(position)) /\ Batch \in Nat
  BY <1>2, FS_Subset, SubAssumption DEF Reading, LogOK
<1>4. page' \subseteq After(position)
  BY <1>1 DEF FirstRows
<1>5. Types'
  BY <1>1, <1>2, <1>4 DEF Reading, Types
<1>6. PageComplete'
  <2> SUFFICES ASSUME NEW r \in page', NEW q \in After(position), q.pos < r.pos
               PROVE  q \in page'
    BY <1>1 DEF PageComplete, After
  <2> QED
    BY <1>1, <1>2, <1>3, FirstRowsClosed
<1>7. FromLog'
  BY <1>1, <1>4 DEF Reading, FromLog, After
<1>8. LogOK' /\ Known' /\ ChannelComplete' /\ CheckpointDelivered' /\ NothingSkipped'
  BY <1>1 DEF Reading, LogOK, Distinct, Known, ChannelComplete, CheckpointDelivered,
              NothingSkipped
<1> QED
  BY <1>5, <1>6, <1>7, <1>8 DEF Reading

\* The position moves to the next event, and that event to the channel.
LEMMA SendReads == ASSUME Reading, Sends PROVE Reading'
<1>1. PICK r \in page : /\ \A q \in page : r.pos <= q.pos
                        /\ ch' = Append(ch, r) /\ position' = r.pos
                        /\ page' = page \ {r}
  BY DEF Sends
<1>2. UNCHANGED <<events, consumed, checkpoint>>
  BY DEF Sends
<1>3. r \in events /\ r \in Row /\ r.pos > position /\ ch \in Seq(Row)
  BY DEF Reading, FromLog, After, Types
<1>4. /\ ch' \in Seq(Row) /\ Len(ch) \in Nat /\ Len(ch') = Len(ch) + 1
      /\ DOMAIN ch = 1..Len(ch) /\ DOMAIN ch' = 1..Len(ch')
      /\ \A i \in 1..Len(ch) : ch'[i] = ch[i]
      /\ ch'[Len(ch) + 1] = r
  BY <1>1, <1>3, AppendProperties, LenProperties
<1>5. Types'
  BY <1>1, <1>2, <1>3, <1>4, Positions DEF Reading, Types
<1>6. \A q \in events : q.pos <= r.pos => q.pos <= position \/ q = r
  <2> SUFFICES ASSUME NEW q \in events, q.pos <= r.pos, ~(q.pos <= position)
               PROVE  q = r
    OBVIOUS
  <2>1. q \in Row /\ q.pos \in Nat /\ r.pos \in Nat /\ position \in Nat
    BY <1>3, Positions DEF Reading, Types
  <2>2. q.pos > position /\ q \in After(position)
    BY <2>1 DEF After
  <2>3. ~(q.pos < r.pos)
    BY <1>1, <2>1, <2>2 DEF Reading, PageComplete
  <2>4. q.pos = r.pos
    BY <2>1, <2>3
  <2> QED
    BY <1>3, <2>4 DEF Reading, LogOK, Distinct
<1>7. Known' /\ LogOK' /\ CheckpointDelivered'
  BY <1>1, <1>2, <1>3 DEF Reading, Known, LogOK, Distinct, CheckpointDelivered
<1>8. FromLog'
  <2>1. \A q \in page' : q \in events /\ q.pos > r.pos
    BY <1>1, <1>3, Positions DEF Reading, FromLog, After, LogOK, Distinct, Types
  <2>2. \A i \in DOMAIN ch' : ch'[i] \in events
    BY <1>3, <1>4 DEF Reading, FromLog
  <2> QED
    BY <1>1, <1>2, <2>1, <2>2 DEF FromLog, After
<1>9. PageComplete'
  BY <1>1, <1>2, <1>3, Positions DEF Reading, PageComplete, After, Types
<1>10. NothingSkipped'
  <2> SUFFICES ASSUME NEW q \in events, q.pos <= r.pos
               PROVE  q \in consumed \/ \E i \in DOMAIN ch' : ch'[i] = q
    BY <1>1, <1>2 DEF NothingSkipped
  <2>1. CASE q = r
    BY <1>4, <2>1
  <2>2. CASE q.pos <= position
    BY <1>4, <2>2 DEF Reading, NothingSkipped
  <2> QED
    BY <1>6, <2>1, <2>2
<1>11. ChannelComplete'
  <2> SUFFICES ASSUME NEW i \in 1..(Len(ch) + 1), NEW q \in events, q.pos < ch'[i].pos
               PROVE  q \in consumed \/ \E j \in 1..(i - 1) : ch'[j] = q
    BY <1>2, <1>4 DEF ChannelComplete
  <2>1. CASE i \in 1..Len(ch)
    BY <1>4, <2>1 DEF Reading, ChannelComplete
  <2>2. CASE i = Len(ch) + 1
    <3>1. q.pos <= position
      BY <1>3, <1>4, <1>6, <2>2, Positions DEF Reading, Types
    <3> QED
      BY <1>4, <2>2, <3>1 DEF Reading, NothingSkipped
  <2> QED
    BY <1>4, <2>1, <2>2
<1> QED
  BY <1>5, <1>7, <1>8, <1>9, <1>10, <1>11 DEF Reading

\* Everything before the first event of the channel was received, so its
\* position is a checkpoint that covers nothing else.
LEMMA ConsumeReads == ASSUME Reading, Consumes PROVE Reading'
<1> DEFINE h == Head(ch)
<1>1. /\ ch \in Seq(Row) /\ ch # <<>> /\ ch' = Tail(ch)
      /\ consumed' = consumed \union {h} /\ checkpoint' \in {checkpoint, h.pos}
      /\ UNCHANGED <<events, position, page>>
  BY DEF Consumes, Reading, Types
<1>2. /\ h = ch[1] /\ 1 \in DOMAIN ch
      /\ Tail(ch) \in Seq(Row) /\ Len(Tail(ch)) = Len(ch) - 1 /\ Len(ch) \in Nat
      /\ DOMAIN ch = 1..Len(ch) /\ DOMAIN Tail(ch) = 1..Len(Tail(ch))
      /\ \A i \in 1..Len(Tail(ch)) : Tail(ch)[i] = ch[i + 1]
  BY <1>1, HeadTailProperties, LenProperties, EmptySeq
<1> HIDE DEF h
<1>3. h \in events /\ h \in Row
  BY <1>2 DEF Reading, FromLog, Types
<1>4. \A q \in events : q.pos < h.pos => q \in consumed
  BY <1>2 DEF Reading, ChannelComplete
<1>5. Types'
  BY <1>1, <1>2, <1>3, Positions DEF Reading, Types
<1>6. LogOK' /\ Known' /\ PageComplete'
  BY <1>1, <1>3 DEF Reading, LogOK, Distinct, Known, PageComplete, After
<1>7. FromLog'
  BY <1>1, <1>2 DEF Reading, FromLog, After
<1>8. CheckpointDelivered'
  <2> SUFFICES ASSUME NEW q \in events, q.pos <= checkpoint', checkpoint' = h.pos
               PROVE  q \in consumed'
    BY <1>1 DEF Reading, CheckpointDelivered
  <2>1. q.pos < h.pos \/ q = h
    BY <1>3, Positions DEF Reading, LogOK, Distinct, Types
  <2> QED
    BY <1>1, <1>4, <2>1
<1>9. \A q \in events : (\E i \in DOMAIN ch : ch[i] = q) =>
                            q = h \/ \E j \in DOMAIN Tail(ch) : Tail(ch)[j] = q
  <2> SUFFICES ASSUME NEW i \in DOMAIN ch, i # 1
               PROVE  i - 1 \in DOMAIN Tail(ch) /\ Tail(ch)[i - 1] = ch[i]
    BY <1>2
  <2> QED
    BY <1>2
<1>10. NothingSkipped'
  BY <1>1, <1>9 DEF Reading, NothingSkipped
<1>11. ChannelComplete'
  <2> SUFFICES ASSUME NEW i \in DOMAIN Tail(ch), NEW q \in events, q.pos < Tail(ch)[i].pos,
                      q \notin consumed, q # h
               PROVE  \E j \in 1..(i - 1) : Tail(ch)[j] = q
    BY <1>1 DEF ChannelComplete
  <2>1. i + 1 \in DOMAIN ch /\ q.pos < ch[i + 1].pos
    BY <1>2
  <2>2. PICK j \in 1..i : ch[j] = q
    BY <1>2, <2>1 DEF Reading, ChannelComplete
  <2>3. j # 1
    BY <1>2, <2>2
  <2>4. j - 1 \in 1..(i - 1) /\ j - 1 \in 1..Len(Tail(ch)) /\ (j - 1) + 1 = j
    BY <1>2, <2>2, <2>3
  <2>5. Tail(ch)[j - 1] = q
    BY <1>2, <2>2, <2>4
  <2> QED
    BY <2>4, <2>5
<1> QED
  BY <1>5, <1>6, <1>7, <1>8, <1>10, <1>11 DEF Reading

\* A new subscription starts from a position that covers received events only.
LEMMA RestartReads == ASSUME Reading, Restarts PROVE Reading'
<1>1. /\ ch' = <<>> /\ position' = checkpoint /\ page' = {}
      /\ UNCHANGED <<events, consumed, checkpoint>>
  BY DEF Restarts
<1>2. ch' \in Seq(Row) /\ DOMAIN ch' = {}
  BY <1>1, EmptySeq
<1>3. Types'
  BY <1>1, <1>2 DEF Reading, Types
<1>4. NothingSkipped'
  BY <1>1 DEF Reading, CheckpointDelivered, NothingSkipped
<1> QED
  BY <1>1, <1>2, <1>3, <1>4 DEF Reading, LogOK, Distinct, Known, FromLog, PageComplete,
                                After, ChannelComplete, CheckpointDelivered
-----------------------------------------------------------------------------
(***************************************************************************)
(* The postgres subscription                                               *)
(***************************************************************************)
\* The initial states satisfy the invariant.
LEMMA InitInv == Init => IInv
<1> SUFFICES ASSUME Init PROVE IInv
  OBVIOUS
<1>1. TypeOK
  <2>1. ch \in Seq(Row)
    BY EmptySeq DEF Init
  <2>2. fullPage \in BOOLEAN /\ silent \in BOOLEAN /\ cancelled \in BOOLEAN
    BY DEF Init
  <2>3. faultsLeft \in Nat /\ restartsLeft \in Nat
    BY SubAssumption DEF Init
  <2>4. /\ events \in SUBSET Row /\ consumed \in SUBSET Row /\ page \in SUBSET Row
        /\ phase \in Phases /\ established \in {"zero", "fresh", "healthy"}
        /\ failure \in {"none"} \union ErrorKinds
    BY DEF Init, LogInit, Phases
  <2>5. /\ position \in Nat /\ notes \in Nat /\ reconnects \in Nat /\ backoff \in Nat \ {0}
        /\ streak \in Nat /\ checkpoint \in Nat
    BY DEF Init
  <2> QED
    BY <2>1, <2>2, <2>3, <2>4, <2>5 DEF TypeOK
<1> QED
  BY <1>1, StartReads DEF IInv, Init

LEMMA CommitInv ==
    ASSUME IInv, NEW R \in SUBSET Row, Commit(R)
    PROVE  IInv'
<1>1. Publishes(R)
  BY DEF Commit, Publishes, pageVars
<1>2. TypeOK'
  BY <1>1 DEF IInv, TypeOK, Commit, Publish, Notify, Listening, pageVars, loopVars, envVars
<1> QED
  BY <1>1, <1>2, PublishReads DEF IInv

\* A step that touches neither the log nor what is derived from it.
LEMMA ControlInv == ASSUME IInv, TypeOK', Idles PROVE IInv'
BY IdleReads DEF IInv

LEMMA LoadPageInv == ASSUME IInv, LoadPage PROVE IInv'
<1>1. Loads
  BY DEF LoadPage, Loads, consumerVars
<1>2. TypeOK'
  <2>1. fullPage' \in BOOLEAN /\ phase' \in Phases
    BY DEF LoadPage, Phases
  <2>2. UNCHANGED <<notes, established, reconnects, backoff, failure, streak, silent,
                    cancelled, faultsLeft, restartsLeft>>
    BY DEF LoadPage, connVars, loopVars, envVars, consumerVars
  <2>3. Types'
    BY <1>1, LoadReads DEF IInv, Reading
  <2> QED
    BY <2>1, <2>2, <2>3 DEF IInv, TypeOK, Types
<1> QED
  BY <1>1, <1>2, LoadReads DEF IInv

LEMMA SendInv == ASSUME IInv, Send PROVE IInv'
<1>1. Sends
  BY DEF Send, Sends, consumerVars
<1>2. TypeOK'
  <2>1. UNCHANGED <<phase, fullPage, notes, established, reconnects, backoff, failure, streak,
                    silent, cancelled, faultsLeft, restartsLeft>>
    BY DEF Send, connVars, loopVars, envVars, consumerVars
  <2>2. Types'
    BY <1>1, SendReads DEF IInv, Reading
  <2> QED
    BY <2>1, <2>2 DEF IInv, TypeOK, Types
<1> QED
  BY <1>1, <1>2, SendReads DEF IInv

LEMMA ConsumeInv == ASSUME IInv, Consume PROVE IInv'
<1>1. Consumes
  BY DEF Consume, Consumes, pageVars
<1>2. TypeOK'
  <2>1. UNCHANGED <<phase, fullPage, notes, established, reconnects, backoff, failure, streak,
                    silent, cancelled, faultsLeft, restartsLeft>>
    BY DEF Consume, pageVars, connVars, loopVars, envVars
  <2>2. Types'
    BY <1>1, ConsumeReads DEF IInv, Reading
  <2> QED
    BY <2>1, <2>2 DEF IInv, TypeOK, Types
<1> QED
  BY <1>1, <1>2, ConsumeReads DEF IInv

\* A new subscription starts from a position that covers received events only.
LEMMA ResubscribeInv == ASSUME IInv, Resubscribe PROVE IInv'
<1>1. Restarts
  BY DEF Resubscribe, Subscribe, Restarts
<1>2. TypeOK'
  <2>1. phase' \in Phases /\ established' \in {"zero", "fresh", "healthy"}
    BY DEF Resubscribe, Subscribe, Phases
  <2>2. fullPage' \in BOOLEAN /\ cancelled' \in BOOLEAN
    BY DEF Resubscribe, Subscribe
  <2>3. /\ notes' \in Nat /\ reconnects' \in Nat /\ backoff' \in Nat \ {0} /\ streak' \in Nat
        /\ failure' \in {"none"} \union ErrorKinds /\ restartsLeft' \in Nat
        /\ UNCHANGED <<silent, faultsLeft>>
    BY DEF Resubscribe, Subscribe, IInv, TypeOK
  <2>4. Types'
    BY <1>1, RestartReads DEF IInv, Reading
  <2> QED
    BY <2>1, <2>2, <2>3, <2>4 DEF IInv, TypeOK, Types
<1> QED
  BY <1>1, <1>2, RestartReads DEF IInv

\* The steps of the loop and of the connection keep the types.
LEMMA ControlSteps ==
    ASSUME IInv,
           \/ Acquire \/ Listen \/ PageDone \/ WaitForNotification \/ StayUp
           \/ EndCycle \/ Reconnect \/ Cancel \/ Stop
           \/ \E kind \in ErrorKinds : Fail(kind)
    PROVE  IInv'
<1>1. CASE Acquire \/ Listen
  <2>1. phase' \in Phases
    BY <1>1 DEF Acquire, Listen, Phases
  <2>2. /\ UNCHANGED <<events, consumed, ch, position, page, checkpoint>>
        /\ UNCHANGED <<fullPage, notes, established, reconnects, backoff, failure, streak,
                       silent, cancelled, faultsLeft, restartsLeft>>
    BY <1>1 DEF Acquire, Listen, pageVars, connVars, loopVars, envVars, consumerVars
  <2>3. TypeOK'
    BY <2>1, <2>2 DEF IInv, TypeOK
  <2> QED
    BY <2>2, <2>3, ControlInv DEF Idles
<1>2. CASE PageDone
  <2>1. TypeOK'
    BY <1>2 DEF PageDone, IInv, TypeOK, Phases, pageVars, loopVars, envVars, consumerVars
  <2> QED
    BY <1>2, <2>1, ControlInv DEF Idles, PageDone, pageVars, consumerVars
<1>3. CASE WaitForNotification \/ StayUp
  <2>1. TypeOK'
    BY <1>3 DEF WaitForNotification, StayUp, IInv, TypeOK, Phases, pageVars, loopVars,
                envVars, consumerVars
  <2> QED
    BY <1>3, <2>1, ControlInv DEF Idles, WaitForNotification, StayUp, pageVars, consumerVars
<1>4. CASE EndCycle
  <2>1. silent' \in BOOLEAN
    BY <1>4 DEF EndCycle
  <2>2. /\ phase' \in Phases /\ reconnects' \in Nat /\ backoff' \in Nat \ {0}
        /\ streak' \in Nat
    BY <1>4, SubAssumption
       DEF EndCycle, NextBackoff, Smaller, MaxStreak, IInv, TypeOK, Phases
  <2>3. UNCHANGED <<events, consumed, ch, position, page, fullPage, notes, established,
                    failure, cancelled, faultsLeft, checkpoint, restartsLeft>>
    BY <1>4 DEF EndCycle, pageVars, connVars, envVars, consumerVars
  <2>4. TypeOK'
    BY <2>1, <2>2, <2>3 DEF IInv, TypeOK
  <2> QED
    BY <2>3, <2>4, ControlInv DEF Idles
<1>5. CASE Reconnect
  <2>1. backoff' \in Nat \ {0}
    BY <1>5, SubAssumption DEF Reconnect, Smaller, IInv, TypeOK
  <2>2. TypeOK'
    BY <1>5, <2>1 DEF Reconnect, IInv, TypeOK, Phases, pageVars, envVars, consumerVars
  <2> QED
    BY <1>5, <2>2, ControlInv DEF Idles, Reconnect, pageVars, consumerVars
<1>6. CASE Cancel \/ Stop
  <2>1. phase' \in Phases /\ notes' \in Nat
    BY <1>6 DEF Cancel, Stop, StopsIn, Phases, IInv, TypeOK, connVars
  <2>2. cancelled' \in BOOLEAN
    BY <1>6 DEF Cancel, Stop, StopsIn, IInv, TypeOK, envVars
  <2>3. UNCHANGED <<events, consumed, ch, position, page, fullPage, established, reconnects,
                    backoff, failure, streak, silent, faultsLeft, checkpoint, restartsLeft>>
    BY <1>6 DEF Cancel, Stop, StopsIn, pageVars, connVars, loopVars, envVars, consumerVars
  <2>4. TypeOK'
    BY <2>1, <2>2, <2>3 DEF IInv, TypeOK
  <2> QED
    BY <2>3, <2>4, ControlInv DEF Idles
<1>7. ASSUME NEW kind \in ErrorKinds, Fail(kind)
      PROVE  IInv'
  <2>1. faultsLeft' \in Nat
    BY <1>7 DEF Fail, IInv, TypeOK
  <2>2. TypeOK'
    BY <1>7, <2>1 DEF Fail, IInv, TypeOK, Phases, pageVars, consumerVars
  <2> QED
    BY <1>7, <2>2, ControlInv DEF Idles, Fail, pageVars, consumerVars
<1> QED
  BY <1>1, <1>2, <1>3, <1>4, <1>5, <1>6, <1>7

\* Every step of the subscription and every commit keeps the invariant.
LEMMA NextInv == IInv /\ [Next]_vars => IInv'
<1> SUFFICES ASSUME IInv, [Next]_vars PROVE IInv'
  OBVIOUS
<1>1. CASE UNCHANGED vars
  <2>1. /\ UNCHANGED <<events, consumed, ch, position, page, checkpoint>>
        /\ UNCHANGED <<phase, fullPage, notes, established, reconnects, backoff, failure,
                       streak, silent, cancelled, faultsLeft, restartsLeft>>
    BY <1>1 DEF vars, pageVars, connVars, loopVars, envVars, consumerVars
  <2>2. TypeOK'
    BY <2>1 DEF IInv, TypeOK
  <2> QED
    BY <2>1, <2>2, ControlInv DEF Idles
<1> QED
  BY <1>1, CommitInv, LoadPageInv, SendInv, ConsumeInv, ResubscribeInv, ControlSteps
     DEF Next, SubNext, CycleStep, LoopStep

\* The invariant holds in every reachable state of the subscription.
THEOREM Invariance == Spec => []IInv
BY InitInv, NextInv, PTL DEF Spec

\* Every variable of the subscription holds a value of its kind, always.
THEOREM TypeCorrect == Spec => []TypeOK
<1>1. IInv => TypeOK
  BY DEF IInv
<1> QED
  BY Invariance, <1>1, PTL

\* Lossless delivery (Subscribe, lines 472-476): whatever fails, reconnects or
\* restarts, no committed event falls behind the position of the subscription
\* without being in the channel or received.
THEOREM Lossless == Spec => []NothingSkipped
<1>1. IInv => NothingSkipped
  BY DEF IInv, Reading
<1> QED
  BY Invariance, <1>1, PTL

\* The subscription and its consumer only read the table.
LEMMA SubNextReads == SubNext => events' = events
BY DEF SubNext, CycleStep, LoopStep, Acquire, Listen, LoadPage, Send, PageDone,
       WaitForNotification, EndCycle, Reconnect, Stop, StayUp, Fail, Cancel, Consume,
       Resubscribe
-----------------------------------------------------------------------------
(***************************************************************************)
(* The consumer's view of the log                                          *)
(***************************************************************************)
\* A received event is new and the first of those not received, or was
\* received before a restart already.
LEMMA ConsumeReceives ==
    ASSUME Reading, Consumes
    PROVE  UNCHANGED logVars \/ \E r \in consumed' \ consumed : Receive(r)
<1> DEFINE h == Head(ch)
<1>1. consumed' = consumed \union {h} /\ events' = events
  BY DEF Consumes
<1>2. h \in events /\ \A q \in events : q.pos < h.pos => q \in consumed
  <2>1. ch \in Seq(Row) /\ ch # <<>>
    BY DEF Consumes, Reading, Types
  <2>2. h = ch[1] /\ 1 \in DOMAIN ch
    BY <2>1, LenProperties, EmptySeq
  <2> QED
    BY <2>2 DEF Reading, FromLog, ChannelComplete
<1> QED
  BY <1>1, <1>2 DEF Receive, logVars

\* The subscription and its consumer are a reader of EventLog: rows are
\* received from the front, and only rows received before come again.
THEOREM SubscriptionReadsLog == Spec => LogSpec
<1>1. Init => LogInit
  BY DEF Init
<1>2. IInv /\ [Next]_vars => [LogNext]_logVars
  <2> SUFFICES ASSUME IInv, [Next]_vars PROVE [LogNext]_logVars
    OBVIOUS
  <2>1. CASE UNCHANGED vars
    BY <2>1 DEF vars, consumerVars, logVars
  <2>2. ASSUME NEW R \in SUBSET Row, Commit(R)
        PROVE  LogNext
    <3>1. /\ events' = events \union R /\ consumed' = consumed
          /\ \A r \in R, s \in events : s.pos < r.pos
      BY <2>2 DEF Commit, Publish, Above
    <3>2. R \intersect events = {}
      BY <3>1, Positions
    <3>3. events' \ events = R
      BY <3>1, <3>2
    <3>4. Publish(R)
      BY <2>2 DEF Commit
    <3> QED
      BY <3>3, <3>4 DEF LogNext
  <2>3. CASE Consume
    BY <2>3, ConsumeReceives DEF LogNext, IInv, Consume, Consumes, pageVars
  <2>4. CASE SubNext /\ ~Consume
    BY <2>4 DEF SubNext, CycleStep, LoopStep, Acquire, Listen, LoadPage, Send, PageDone,
                WaitForNotification, EndCycle, Reconnect, Stop, StayUp, Fail, Cancel,
                Resubscribe, consumerVars, logVars
  <2> QED
    BY <2>1, <2>2, <2>3, <2>4 DEF Next
<1> QED
  BY <1>1, <1>2, Invariance, PTL DEF Spec, LogSpec
-----------------------------------------------------------------------------
(***************************************************************************)
(* The budget and the backoff                                              *)
(***************************************************************************)
\* The powers of two, which bound the backoff: 2^n sets lie in 1..n.
Pow(n) == 2 ^ n

LEMMA PowSubsets ==
    ASSUME NEW n \in Nat
    PROVE  /\ IsFiniteSet(SUBSET (1..n)) /\ Cardinality(SUBSET (1..n)) = Pow(n)
           /\ Pow(n) \in Nat \ {0}
<1>1. IsFiniteSet(1..n) /\ Cardinality(1..n) = n
  BY FS_Interval
<1>2. IsFiniteSet(SUBSET (1..n)) /\ Cardinality(SUBSET (1..n)) = Pow(n)
  BY <1>1, FS_SUBSET, Zenon DEF Pow
<1>3. Cardinality(SUBSET (1..n)) \in Nat /\ Cardinality(SUBSET (1..n)) # 0
  <2>1. SUBSET (1..n) # {}
    OBVIOUS
  <2> QED
    BY <1>2, <2>1, FS_CardinalityType, FS_EmptySet
<1> QED
  BY <1>2, <1>3

LEMMA PowDoubles == ASSUME NEW n \in Nat PROVE Pow(n + 1) = 2 * Pow(n)
<1> DEFINE A == SUBSET (1..n)
           C == SUBSET (1..(n + 1))
           B == {T \in C : n + 1 \in T}
           f == [T \in A |-> T \union {n + 1}]
<1>1. n + 1 \in Nat /\ 1..(n + 1) = 1..n \union {n + 1} /\ n + 1 \notin 1..n
  OBVIOUS
<1>2. C = A \union B /\ A \intersect B = {}
  BY <1>1
<1>3. f \in Bijection(A, B)
  <2>1. f \in [A -> B]
    BY <1>1
  <2>2. \A S, T \in A : f[S] = f[T] => S = T
    BY <1>1
  <2>3. \A T \in B : \E S \in A : f[S] = T
    <3> SUFFICES ASSUME NEW T \in B PROVE \E S \in A : f[S] = T
      OBVIOUS
    <3>1. T \ {n + 1} \in A
      BY <1>1
    <3>2. f[T \ {n + 1}] = T
      BY <3>1
    <3> QED
      BY <3>1, <3>2
  <2> HIDE DEF f, A, B
  <2> QED
    BY <2>1, <2>2, <2>3 DEF Bijection, Injection, IsInjective, Surjection
<1>4. /\ IsFiniteSet(A) /\ Cardinality(A) = Pow(n) /\ Pow(n) \in Nat
      /\ Cardinality(C) = Pow(n + 1)
  BY <1>1, PowSubsets
<1> HIDE DEF A, B, C, f
<1>5. IsFiniteSet(B) /\ Cardinality(B) = Pow(n)
  BY <1>3, <1>4, FS_Bijection DEF ExistsBijection
<1>6. Cardinality(A \union B) = Cardinality(A) + Cardinality(B) - Cardinality(A \intersect B)
  BY <1>4, <1>5, FS_Union
<1>7. Cardinality(A \intersect B) = 0
  BY <1>2, FS_EmptySet
<1> QED
  BY <1>2, <1>4, <1>5, <1>6, <1>7

\* The wait after n doublings, capped.
Wait(n) == Smaller(Pow(n), BackoffMax)

LEMMA Waits ==
    ASSUME NEW n \in Nat
    PROVE  Wait(n) \in Nat \ {0} /\ Smaller(2 * Wait(n), BackoffMax) = Wait(n + 1)
<1>1. Pow(n) \in Nat \ {0} /\ Pow(n + 1) = 2 * Pow(n)
  BY PowSubsets, PowDoubles
<1> QED
  BY <1>1, SubAssumption DEF Wait, Smaller

\* The loop counts the cycles of the outage, its budget bounds them, and the
\* faults that are left bound them where it has none (lines 555-603).
Counts ==
    /\ (phase = "closed" /\ ~cancelled) => streak = MaxReconnects + 1
    /\ phase # "closed" =>
         /\ streak = reconnects
         /\ MaxReconnects > 0 => reconnects <= MaxReconnects
         /\ MaxReconnects = 0 =>
              reconnects + faultsLeft + (IF phase = "failed" THEN 1 ELSE 0) <= MaxFaults
    /\ phase = "backoff" => streak > 0 /\ backoff = Wait(streak - 1)
    /\ phase \notin {"backoff", "closed"} => backoff = Wait(streak)

LEMMA InitCounts == Init => Counts
<1>1. Wait(0) = 1
  <2>1. Pow(0) = 1
    BY DEF Pow
  <2> QED
    BY <2>1, SubAssumption DEF Wait, Smaller
<1> QED
  BY <1>1, SubAssumption DEF Init, Counts

\* A step inside a cycle leaves the counters alone.
LEMMA CycleCounts ==
    ASSUME Counts, UNCHANGED <<streak, reconnects, backoff, faultsLeft>>,
           \/ phase' = phase /\ (cancelled => cancelled')
           \/ {phase, phase'} \subseteq {"acquire", "listen", "load", "send", "wait"}
           \/ phase' = "closed" /\ cancelled'
    PROVE  Counts'
<1>1. \A n : Wait(n)' = Wait(n)
  BY DEF Wait, Pow, Smaller
<1> QED
  BY <1>1 DEF Counts

LEMMA FailCounts ==
    ASSUME TypeOK, Counts, NEW kind, Fail(kind)
    PROVE  Counts'
<1>1. \A n : Wait(n)' = Wait(n)
  BY DEF Wait, Pow, Smaller
<1>2. /\ phase \in {"acquire", "listen", "load", "wait"} /\ phase' = "failed"
      /\ UNCHANGED <<streak, reconnects, backoff>>
      /\ EndlessFaults \/ (faultsLeft > 0 /\ faultsLeft' = faultsLeft - 1)
      /\ EndlessFaults => MaxReconnects > 0
  BY SubAssumption DEF Fail
<1> QED
  BY <1>1, <1>2, SubAssumption DEF Counts, TypeOK

LEMMA EndCycleCounts ==
    ASSUME TypeOK, Counts, EndCycle
    PROVE  Counts'
<1>1. \A n : Wait(n)' = Wait(n)
  BY DEF Wait, Pow, Smaller
<1>2. Wait(0) = 1
  <2>1. Pow(0) = 1
    BY DEF Pow
  <2> QED
    BY <2>1, SubAssumption DEF Wait, Smaller
<1>3. /\ phase = "failed" /\ ~cancelled /\ ~cancelled' /\ faultsLeft' = faultsLeft
      /\ streak = reconnects /\ backoff = Wait(streak)
      /\ {streak, reconnects, faultsLeft, MaxReconnects, MaxFaults} \subseteq Nat
      /\ MaxReconnects > 0 => reconnects <= MaxReconnects
      /\ MaxReconnects = 0 => reconnects + faultsLeft + 1 <= MaxFaults
  BY SubAssumption DEF EndCycle, envVars, Counts, TypeOK
<1>4. CASE Healthy
  <2>1. phase' = "backoff" /\ reconnects' = 1 /\ backoff' = 1 /\ streak' = 1
    BY <1>3, <1>4 DEF EndCycle, Healthy, NextBackoff
  <2> QED
    BY <1>1, <1>2, <1>3, <2>1 DEF Counts
<1>5. CASE ~Healthy
  <2>1. streak' = streak + 1 /\ backoff' = backoff
    BY <1>3, <1>5 DEF EndCycle, Healthy, NextBackoff, Smaller, MaxStreak
  <2>2. CASE MaxReconnects > 0 /\ reconnects >= MaxReconnects
    BY <1>1, <1>3, <1>5, <2>1, <2>2 DEF EndCycle, Counts
  <2>3. CASE ~(MaxReconnects > 0 /\ reconnects >= MaxReconnects)
    <3>1. phase' = "backoff" /\ reconnects' = reconnects + 1
      BY <1>5, <2>3 DEF EndCycle
    <3> QED
      BY <1>1, <1>3, <2>1, <2>3, <3>1 DEF Counts
  <2> QED
    BY <2>2, <2>3
<1> QED
  BY <1>4, <1>5

LEMMA ReconnectCounts ==
    ASSUME TypeOK, Counts, Reconnect
    PROVE  Counts'
<1>1. \A n : Wait(n)' = Wait(n)
  BY DEF Wait, Pow, Smaller
<1>2. /\ phase = "backoff" /\ phase' = "acquire" /\ backoff' = Smaller(2 * backoff, BackoffMax)
      /\ UNCHANGED <<streak, reconnects, faultsLeft>>
  BY DEF Reconnect, envVars
<1>3. streak \in Nat /\ streak > 0 /\ backoff = Wait(streak - 1)
  BY <1>2 DEF Counts, TypeOK
<1>4. backoff' = Wait(streak)
  <2>1. streak - 1 \in Nat /\ (streak - 1) + 1 = streak
    BY <1>3
  <2>2. Smaller(2 * Wait(streak - 1), BackoffMax) = Wait((streak - 1) + 1)
    BY <2>1, Waits
  <2> QED
    BY <1>2, <1>3, <2>1, <2>2
<1> QED
  BY <1>1, <1>2, <1>4 DEF Counts

LEMMA ResubscribeCounts ==
    ASSUME TypeOK, Counts, faultsLeft <= MaxFaults, Resubscribe
    PROVE  Counts'
<1>1. Wait(0)' = 1
  <2>1. Pow(0) = 1
    BY DEF Pow
  <2> QED
    BY <2>1, SubAssumption DEF Wait, Smaller, Pow
<1> QED
  BY <1>1, SubAssumption DEF Resubscribe, Subscribe, Counts, TypeOK

\* Every step keeps the counters.
LEMMA NextCounts ==
    ASSUME TypeOK, Counts, faultsLeft <= MaxFaults, [Next]_vars
    PROVE  Counts' /\ faultsLeft' <= MaxFaults
<1> USE DEF pageVars, connVars, loopVars, envVars, consumerVars
<1>1. ASSUME NEW kind \in ErrorKinds, Fail(kind) PROVE faultsLeft' <= MaxFaults
  BY <1>1, SubAssumption DEF Fail, TypeOK
<1>2. CASE \/ Acquire \/ Listen \/ LoadPage \/ Send \/ PageDone \/ WaitForNotification
           \/ StayUp \/ Cancel \/ Stop \/ Consume \/ UNCHANGED vars
           \/ \E R \in SUBSET Row : Commit(R)
  <2>1. UNCHANGED <<streak, reconnects, backoff, faultsLeft>>
    BY <1>2 DEF Acquire, Listen, LoadPage, Send, PageDone, WaitForNotification, StayUp, Cancel,
                Stop, Consume, Commit, vars
  <2>2. \/ phase' = phase /\ (cancelled => cancelled')
        \/ {phase, phase'} \subseteq {"acquire", "listen", "load", "send", "wait"}
        \/ phase' = "closed" /\ cancelled'
    BY <1>2 DEF Acquire, Listen, LoadPage, Send, PageDone, WaitForNotification, StayUp, Cancel,
                Stop, Consume, Commit, vars
  <2> QED
    BY <2>1, <2>2, CycleCounts
<1>3. CASE EndCycle
  BY <1>3, EndCycleCounts DEF EndCycle
<1>4. CASE Reconnect
  BY <1>4, ReconnectCounts DEF Reconnect
<1>5. CASE Resubscribe
  BY <1>5, ResubscribeCounts DEF Resubscribe
<1> QED
  BY <1>1, <1>2, <1>3, <1>4, <1>5, FailCounts DEF Next, SubNext, CycleStep, LoopStep

\* What the loop counts is the outage it is in, the cycles that failed since the
\* last healthy one: it gives up after the budget's number of these and one, and
\* waits 100ms doubled for each.
THEOREM OutagesCounted == Spec => []OutageCounted
<1> DEFINE Budget == Counts /\ faultsLeft <= MaxFaults
<1>1. Init => Budget
  BY InitCounts, SubAssumption DEF Init
<1>2. TypeOK /\ Budget /\ [Next]_vars => Budget'
  BY NextCounts
<1>3. Budget => OutageCounted
  BY DEF Counts, OutageCounted, Wait, Pow
<1> HIDE DEF Budget
<1> QED
  BY <1>1, <1>2, <1>3, TypeCorrect, PTL DEF Spec
-----------------------------------------------------------------------------
(***************************************************************************)
(* The mysql subscription, in the variables of the postgres one            *)
(***************************************************************************)
My == INSTANCE MySqlSubscription
        WITH PollBatchSize <- Batch, SubscribeBuffer <- Buffer,
             pos <- position, batch <- page, fullBatch <- fullPage

LEMMA SameSets ==
    /\ \A S : My!IsFiniteSet(S) <=> IsFiniteSet(S)
    /\ \A S : My!Cardinality(S) = Cardinality(S)
BY DEF My!IsFiniteSet, My!Cardinality, IsFiniteSet, Cardinality

\* Of natural numbers one is the least.
LEMMA LeastOf ==
    ASSUME NEW U, U \subseteq Nat, U # {}
    PROVE  \E i \in U : \A j \in U : i <= j
<1> DEFINE Less == OpToRel(<, Nat)
<1>1. IsWellFoundedOn(Less, Nat)
  BY NatLessThanWellFounded
<1>2. ASSUME NEW j \in Nat, NEW k \in Nat, j < k PROVE <<j, k>> \in Less
  <2>1. <<j, k>> \in Nat \X Nat
    OBVIOUS
  <2> QED
    BY <1>2, <2>1, Zenon DEF OpToRel
<1> HIDE DEF Less
<1>3. PICK i \in U : \A j \in U : ~ (<<j, i>> \in Less)
  BY <1>1, WFMin
<1>4. ASSUME NEW j \in U PROVE i <= j
  <2>1. i \in Nat /\ j \in Nat
    OBVIOUS
  <2>2. ~ (j < i)
    BY <2>1, <1>2, <1>3, Zenon
  <2> QED
    BY <2>1, <2>2
<1> QED
  BY <1>4

\* A page of LIMIT n has at most n rows: its last row counts them all.
LEMMA PageFits ==
    ASSUME NEW S \in SUBSET Row, IsFiniteSet(S), NEW n \in Nat
    PROVE  Cardinality(FirstRows(S, n)) <= n
<1> DEFINE UpTo(x) == {s \in S : s.pos <= x.pos}
           Rank == [x \in S |-> Cardinality(UpTo(x))]
           F == FirstRows(S, n)
           Rooms == {n - Rank[r] : r \in F}
<1>1. F \subseteq S /\ \A r \in F : Rank[r] <= n
  BY DEF FirstRows
<1>2. \A r \in S : IsFiniteSet(UpTo(r))
  BY FS_Subset
<1>3. \A r \in S : Rank[r] \in Nat
  BY <1>2, FS_CardinalityType
<1>4. ASSUME NEW r \in S, NEW s \in S, r.pos < s.pos
      PROVE  Rank[r] < Rank[s]
  <2>1. UpTo(r) \in SUBSET UpTo(s) /\ UpTo(r) # UpTo(s)
    BY <1>4, Positions
  <2>2. Rank[r] <= Rank[s] /\ Rank[r] # Rank[s]
    <3> HIDE DEF UpTo
    <3> QED
      BY <1>2, <2>1, FS_Subset
  <2> HIDE DEF Rank
  <2> QED
    BY <1>3, <2>2
<1> HIDE DEF Rank, F
<1>5. CASE F = {}
  BY <1>5, FS_EmptySet DEF F
<1>6. CASE F # {}
  <2>1. Rooms \subseteq Nat /\ Rooms # {}
    BY <1>1, <1>3, <1>6
  <2>2. PICK k \in Rooms : \A j \in Rooms : k <= j
    <3> HIDE DEF Rooms
    <3> QED
      BY <2>1, LeastOf
  <2>3. PICK r \in F : k = n - Rank[r]
    BY <2>2
  <2>4. \A s \in F : s.pos <= r.pos
    <3> SUFFICES ASSUME NEW s \in F, ~(s.pos <= r.pos) PROVE FALSE
      OBVIOUS
    <3>1. r \in S /\ s \in S /\ r.pos < s.pos
      BY <1>1, Positions
    <3>2. n - Rank[r] <= n - Rank[s]
      BY <2>2, <2>3
    <3> QED
      BY <1>3, <1>4, <3>1, <3>2
  <2>5. F \in SUBSET UpTo(r) /\ r \in S
    BY <1>1, <2>4
  <2>6. Cardinality(F) <= Rank[r] /\ Cardinality(F) \in Nat
    <3> HIDE DEF UpTo
    <3> QED
      BY <1>2, <2>5, FS_Subset, FS_CardinalityType DEF Rank
  <2>7. Cardinality(F) <= n
    BY <1>1, <1>3, <2>5, <2>6
  <2> QED
    BY <2>7 DEF F
<1> QED
  BY <1>5, <1>6
-----------------------------------------------------------------------------
\* A poll reads what catchUp reads.
LEMMA SameReads ==
    /\ \A R \in SUBSET Row : My!Publish(R) <=> Publish(R)
    /\ \A p : My!After(p) = After(p)
    /\ \A S \in SUBSET Row, n \in Nat : My!FirstRows(S, n) = FirstRows(S, n)
BY SameSets DEF My!Publish, My!Distinct, My!Above, Publish, Distinct, Above,
                My!After, After, My!FirstRows, FirstRows

\* The invariant of the mysql subscription.
PollInv == My!TypeOK /\ Reading

LEMMA PollInit == My!Init => PollInv
<1> SUFFICES ASSUME My!Init PROVE PollInv
  OBVIOUS
<1>1. Reading
  BY StartReads DEF My!Init, My!LogInit, LogInit
<1>2. My!Cardinality(page) = 0 /\ Batch \in Nat \ {0}
  BY SameSets, FS_EmptySet, SubAssumption DEF My!Init
<1>3. /\ phase \in {"poll", "send", "sleep", "closed"}
      /\ faultsLeft \in Nat /\ restartsLeft \in Nat
  BY SubAssumption DEF My!Init
<1>4. fullPage \in BOOLEAN /\ cancelled \in BOOLEAN
  BY DEF My!Init
<1>5. My!Cardinality(page) <= Batch
  BY <1>2
<1>6. My!TypeOK
  BY <1>1, <1>3, <1>4, <1>5 DEF My!TypeOK, Reading, Types
<1> QED
  BY <1>1, <1>6 DEF PollInv

\* What a step leaves of the page is a page.
LEMMA PollTypes ==
    ASSUME My!TypeOK, Types', Cardinality(page') <= Batch,
           phase' \in {"poll", "send", "sleep", "closed"}, fullPage' \in BOOLEAN,
           cancelled' \in BOOLEAN, faultsLeft' \in Nat, restartsLeft' \in Nat
    PROVE  My!TypeOK'
BY SameSets DEF My!TypeOK, Types

LEMMA PollStepInv ==
    ASSUME PollInv, [My!Next]_(My!vars)
    PROVE  PollInv'
<1>1. /\ My!TypeOK /\ Reading /\ Types /\ Cardinality(page) <= Batch
      /\ Batch \in Nat \ {0} /\ IsFiniteSet(events)
  BY SameSets, SubAssumption DEF PollInv, My!TypeOK, Reading, LogOK
<1>2. ASSUME NEW R \in SUBSET Row, My!Commit(R)
      PROVE  PollInv'
  <2>1. Publishes(R)
    BY <1>2, SameReads DEF My!Commit, My!pollVars, Publishes
  <2>2. Reading'
    BY <1>1, <2>1, PublishReads
  <2>3. My!TypeOK'
    BY <1>1, <1>2, <2>1, <2>2, PollTypes
       DEF My!Commit, My!pollVars, My!TypeOK, Publishes, Reading
  <2> QED
    BY <2>2, <2>3 DEF PollInv
<1>3. CASE My!Poll
  <2>1. After(position) \in SUBSET Row /\ IsFiniteSet(After(position))
    BY <1>1, FS_Subset DEF After, Types
  <2>2. page' = FirstRows(After(position), Batch)
    BY <1>1, <1>3, <2>1, SameReads DEF My!Poll
  <2>3. Loads
    BY <1>3, <2>2 DEF My!Poll, My!consumerVars, Loads
  <2>4. Reading'
    BY <1>1, <2>3, LoadReads
  <2>5. Cardinality(page') <= Batch
    BY <1>1, <2>1, <2>2, PageFits
  <2>6. My!TypeOK'
    BY <1>1, <1>3, <2>4, <2>5, PollTypes
       DEF My!Poll, My!consumerVars, My!TypeOK, Reading
  <2> QED
    BY <2>4, <2>6 DEF PollInv
<1>4. CASE My!Send
  <2>1. Sends
    BY <1>4 DEF My!Send, My!consumerVars, Sends
  <2>2. Reading'
    BY <1>1, <2>1, SendReads
  <2>3. Cardinality(page') <= Batch
    <3>1. page \in SUBSET events /\ page' \in SUBSET page
      BY <1>1, <2>1 DEF Sends, Reading, FromLog, After
    <3>2. IsFiniteSet(page) /\ IsFiniteSet(page')
      BY <1>1, <3>1, FS_Subset
    <3>3. Cardinality(page') <= Cardinality(page)
      BY <3>1, <3>2, FS_Subset
    <3>4. Cardinality(page') \in Nat /\ Cardinality(page) \in Nat
      BY <3>2, FS_CardinalityType
    <3> QED
      BY <1>1, <3>3, <3>4
  <2>4. My!TypeOK'
    BY <1>1, <1>4, <2>2, <2>3, PollTypes
       DEF My!Send, My!consumerVars, My!TypeOK, Reading
  <2> QED
    BY <2>2, <2>4 DEF PollInv
<1>5. CASE My!Consume
  <2>1. Consumes
    BY <1>5 DEF My!Consume, My!pollVars, Consumes
  <2>2. Reading'
    BY <1>1, <2>1, ConsumeReads
  <2>3. My!TypeOK'
    BY <1>1, <1>5, <2>2, PollTypes DEF My!Consume, My!pollVars, My!TypeOK, Reading
  <2> QED
    BY <2>2, <2>3 DEF PollInv
<1>6. CASE My!Resubscribe
  <2>1. Restarts
    BY <1>6 DEF My!Resubscribe, Restarts
  <2>2. Reading'
    BY <1>1, <2>1, RestartReads
  <2>3. Cardinality(page') <= Batch
    BY <1>1, <2>1, FS_EmptySet DEF Restarts
  <2>4. fullPage' \in BOOLEAN /\ cancelled' \in BOOLEAN
    BY <1>6 DEF My!Resubscribe
  <2>5. /\ phase' \in {"poll", "send", "sleep", "closed"}
        /\ faultsLeft' \in Nat /\ restartsLeft' \in Nat
    BY <1>1, <1>6 DEF My!Resubscribe, My!TypeOK
  <2>6. My!TypeOK'
    BY <1>1, <2>2, <2>3, <2>4, <2>5, PollTypes DEF Reading
  <2> QED
    BY <2>2, <2>6 DEF PollInv
<1>7. CASE My!PollFails \/ My!BatchDone \/ My!Tick \/ My!Cancel \/ My!Stop
           \/ UNCHANGED My!vars
  <2>1. Idles
    BY <1>7 DEF My!PollFails, My!BatchDone, My!Tick, My!Cancel, My!Stop, My!vars,
                My!pollVars, My!consumerVars, Idles
  <2>2. Reading'
    BY <1>1, <2>1, IdleReads
  <2>3. Cardinality(page') <= Batch /\ Types'
    BY <1>1, <2>1, <2>2 DEF Idles, Reading
  <2>4. /\ phase' \in {"poll", "send", "sleep", "closed"}
        /\ faultsLeft' \in Nat /\ restartsLeft' \in Nat
    BY <1>1, <1>7 DEF My!PollFails, My!BatchDone, My!Tick, My!Cancel, My!Stop, My!vars,
                      My!pollVars, My!consumerVars, My!TypeOK
  <2>5. /\ fullPage' = fullPage /\ fullPage \in BOOLEAN
        /\ cancelled' \in {cancelled, TRUE} /\ cancelled \in BOOLEAN
    BY <1>1, <1>7 DEF My!PollFails, My!BatchDone, My!Tick, My!Cancel, My!Stop, My!vars,
                      My!pollVars, My!consumerVars, My!TypeOK
  <2>6. My!TypeOK'
    BY <1>1, <2>3, <2>4, <2>5, PollTypes
  <2> QED
    BY <2>2, <2>6 DEF PollInv
<1> QED
  BY <1>2, <1>3, <1>4, <1>5, <1>6, <1>7 DEF My!Next, My!LoopStep

LEMMA PollInvariance == My!Spec => []PollInv
BY PollInit, PollStepInv, PTL DEF My!Spec

\* Every variable of the mysql subscription holds a value of its kind, always;
\* a page has no more rows than its LIMIT.
THEOREM PollTypeCorrect == My!Spec => []My!TypeOK
<1>1. PollInv => My!TypeOK
  BY DEF PollInv
<1> QED
  BY PollInvariance, <1>1, PTL

\* The poll cursor of mysql/eventstore.go (343-388) passes no event that is
\* neither in the channel nor received: polling loses nothing either.
THEOREM PollingLossless == My!Spec => []NothingSkipped
<1>1. PollInv => NothingSkipped
  BY DEF PollInv, Reading
<1> QED
  BY PollInvariance, <1>1, PTL

\* The mysql subscription and its consumer are a reader of EventLog too.
THEOREM PollingReadsLog == My!Spec => LogSpec
<1>1. My!Init => LogInit
  BY DEF My!Init, My!LogInit, LogInit
<1>2. PollInv /\ [My!Next]_(My!vars) => [LogNext]_logVars
  <2> SUFFICES ASSUME PollInv, [My!Next]_(My!vars) PROVE [LogNext]_logVars
    OBVIOUS
  <2>1. ASSUME NEW R \in SUBSET Row, My!Commit(R)
        PROVE  LogNext
    <3>1. Publish(R)
      BY <2>1, SameReads DEF My!Commit
    <3>2. events' \ events = R
      BY <3>1, Positions DEF Publish, Above
    <3> QED
      BY <3>1, <3>2 DEF LogNext
  <2>2. CASE My!Consume
    BY <2>2, ConsumeReceives DEF PollInv, My!Consume, My!pollVars, Consumes, LogNext
  <2>3. CASE My!LoopStep \/ My!PollFails \/ My!Cancel \/ My!Resubscribe \/ UNCHANGED My!vars
    BY <2>3 DEF My!LoopStep, My!Poll, My!Send, My!BatchDone, My!Tick, My!Stop, My!PollFails,
                My!Cancel, My!Resubscribe, My!vars, My!consumerVars, logVars
  <2> QED
    BY <2>1, <2>2, <2>3 DEF My!Next
<1> QED
  BY <1>1, <1>2, PollInvariance, PTL DEF My!Spec, LogSpec
=============================================================================
