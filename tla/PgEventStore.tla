---------------------------- MODULE PgEventStore ----------------------------
(***************************************************************************)
(* The postgres event store as a whole: the transactions of EventAppend    *)
(* write the table that a subscription of PgSubscription reads.            *)
(*                                                                         *)
(* The two meet in the events table and in the notification that a commit  *)
(* queues on a listening connection.  PgSubscription on its own assumes    *)
(* that rows are published in position order; here that is not assumed but *)
(* must follow from the append lock.                                       *)
(***************************************************************************)
EXTENDS EventAppend

CONSTANTS Batch, Buffer, BackoffMax, MaxReconnects, ErrorKinds, MaxFaults,
          EndlessFaults, MaxRestarts

ASSUME ReaderAssumption ==
    /\ Batch \in Nat \ {0} /\ Buffer \in Nat \ {0} /\ BackoffMax \in Nat \ {0}
    /\ MaxReconnects \in Nat /\ MaxFaults \in Nat /\ MaxRestarts \in Nat
    /\ EndlessFaults \in BOOLEAN /\ (EndlessFaults => MaxReconnects > 0)
    /\ ErrorKinds \subseteq {"conn", "deadline"}

VARIABLES consumed, phase, ch, position, page, fullPage, notes, established,
          reconnects, backoff, failure, streak, silent, cancelled, faultsLeft,
          checkpoint, restartsLeft

Sub == INSTANCE PgSubscription

\* The subscription's state, but for the notifications commits add to.
readerVars == <<consumed, phase, ch, position, page, fullPage, established, reconnects,
                backoff, failure, streak, silent, cancelled, faultsLeft, checkpoint,
                restartsLeft>>

storeVars == <<vars, notes, readerVars>>

StoreInit == Init /\ Sub!Init

\* A commit with rows makes the insert trigger's notification visible.
AppendSide ==
    /\ Next
    /\ IF events' # events THEN Sub!Notify ELSE UNCHANGED notes
    /\ UNCHANGED readerVars

ReadSide == Sub!SubNext /\ UNCHANGED <<nextPos, lock, txVars, callsLeft>>

StoreNext == AppendSide \/ ReadSide

StoreSpec == StoreInit /\ [][StoreNext]_storeVars
-----------------------------------------------------------------------------
\* No event is lost to a subscription while appends race each other: what it
\* has moved past is in the channel or was received (issue #60).
NoEventLost == Sub!NothingSkipped

\* The subscription's environment behaves as PgSubscription assumes: every
\* step of the store is a step of the subscription in its own module, with
\* rows published in position order.
AppendMeetsSubscription ==
    Sub!Init /\ [][Sub!Commit(events' \ events) \/ Sub!SubNext]_Sub!vars
=============================================================================
