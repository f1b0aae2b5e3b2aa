-------------------------- MODULE MCPgEventStore --------------------------
(***************************************************************************)
(* Small instances of PgEventStore: two callers whose transactions may     *)
(* overlap in every way, and one subscription.  The calls are chosen so    *)
(* that every way an Append can end occurs, as in MCEventAppend.           *)
(***************************************************************************)
EXTENDS PgEventStore, TLC

CONSTANTS p1, p2, s1, s2, a, b, c, d, e, f, k

Ev(id, version, key) == [id |-> id, version |-> version, key |-> key]
To(stream, expected, batch) == [stream |-> stream, expected |-> expected, batch |-> batch]

MCProc == {p1, p2}
MCStream == {s1, s2}
MCId == {a, b, c, d, e, f}
MCKey == {k}

MCCalls == {
    To(s1, 0, <<Ev(a, 1, k), Ev(b, 2, NoKey)>>),      \* create with two events
    To(s1, 0, <<Ev(c, 1, NoKey)>>),                   \* create the same stream
    To(s2, 0, <<Ev(d, 1, k)>>),                       \* create with the same key
    To(s1, 1, <<Ev(e, 2, NoKey)>>),                   \* continue at version 1
    To(s1, 0, <<Ev(e, 2, NoKey)>>),                   \* misnumbered
    To(s2, 0, <<Ev(f, 1, NoKey), Ev(f, 2, NoKey)>>)}  \* one id twice

Symmetry == Permutations(MCProc)
=============================================================================
