--------------------------- MODULE MCEventAppend ---------------------------
(***************************************************************************)
(* Small instances of EventAppend.  The calls are chosen so that every     *)
(* way an Append can end occurs: two creations that race for a stream and  *)
(* for an idempotency key, a continuation that is stale, due or ahead      *)
(* depending on when it runs, a misnumbered batch, and a batch whose       *)
(* second event carries an id that is already taken.                       *)
(***************************************************************************)
EXTENDS EventAppend, TLC

CONSTANTS p1, p2,            \* callers
          s1, s2,            \* streams
          a, b, c, d, e, f,  \* event ids
          k                  \* an idempotency key

Ev(id, version, key) == [id |-> id, version |-> version, key |-> key]
To(stream, expected, batch) == [stream |-> stream, expected |-> expected, batch |-> batch]

MCProc == {p1, p2}
MCStream == {s1, s2}
MCId == {a, b, c, d, e, f}
MCKey == {k}

MCCalls == {
    To(s1, 0, <<Ev(a, 1, k), Ev(b, 2, NoKey)>>),      \* create with two events
    To(s1, 0, <<Ev(c, 1, NoKey)>>),                   \* create the same stream
    To(s2, 0, <<Ev(d, 1, k)>>),                       \* create with the same key
    To(s1, 1, <<Ev(e, 2, NoKey)>>),                   \* continue at version 1
    To(s1, 0, <<Ev(e, 2, NoKey)>>),                   \* misnumbered
    To(s2, 0, <<Ev(f, 1, NoKey), Ev(c, 2, NoKey)>>)}  \* id c may be taken

Symmetry == Permutations(MCProc)
=============================================================================
