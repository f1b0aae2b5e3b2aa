------------------------------ MODULE EventLog ------------------------------
(***************************************************************************)
(* What the event store promises to the readers of the events table, with  *)
(* no transaction, lock or connection in sight: an append-only log whose   *)
(* readers ask only for "the events after position p", and a consumer that *)
(* receives the log from the front.                                        *)
(*                                                                         *)
(* The log is the set of the committed rows.  A reader that has advanced   *)
(* to position p never looks at a position <= p again, so the promise that *)
(* matters is that a row is never published below one that is already      *)
(* visible (issue #60 of the repository).                                  *)
(***************************************************************************)
EXTENDS Integers, FiniteSets

CONSTANT Row      \* the rows of the events table; each has a field pos

ASSUME RowAssumption == \A r \in Row : r.pos \in Nat \ {0}

VARIABLES events,     \* the committed rows: what LoadAll can see
          consumed    \* the rows the consumer has received

logVars == <<events, consumed>>

-----------------------------------------------------------------------------
\* Every row of R is behind every row of S in the order of global_position.
Above(R, S) == \A r \in R, s \in S : s.pos < r.pos

LogInit == events = {} /\ consumed = {}

\* The rows of R have a position each.
Distinct(R) == \A r, s \in R : r.pos = s.pos => r = s

\* A transaction that appended the rows of R commits.
Publish(R) ==
    /\ R # {} /\ R \subseteq Row /\ IsFiniteSet(R)
    /\ Distinct(R) /\ Above(R, events)
    /\ events' = events \union R
    /\ UNCHANGED consumed

\* The consumer receives the first row it has not received yet.
Receive(r) ==
    /\ r \in events \ consumed
    /\ \A q \in events : q.pos < r.pos => q \in consumed
    /\ consumed' = consumed \union {r}
    /\ UNCHANGED events

LogNext == Publish(events' \ events) \/ \E r \in consumed' \ consumed : Receive(r)

LogSpec == LogInit /\ [][LogNext]_logVars
=============================================================================
