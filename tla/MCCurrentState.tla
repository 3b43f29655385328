---------------------------- MODULE MCCurrentState ----------------------------
(* Instance of CurrentState for TLC: two keys; late, equal-LSN and         *)
(* over-cutoff events; a delete followed by a re-insert; a key that moved  *)
(* to another partition.                                                   *)
EXTENDS CurrentState

Event(k, b, op, lsn, tx, p, o) ==
    [key |-> k, batch |-> b, op |-> op, lsn |-> lsn, tx |-> tx,
     partition |-> p, offset |-> o]

SomeEvents == {
    Event("a", 1, "c", 10, 0, 0, 0), Event("a", 1, "u", 20, 1, 0, 1),
    Event("a", 2, "d", 20, 2, 0, 2), Event("a", 3, "c", 30, 0, 0, 3),
    Event("a", 2, "c", 20, 2, 1, 0), Event("b", 1, "c", 10, 0, 1, 1),
    Event("b", 2, "d", 40, 0, 1, 2), Event("b", 1, "u", 40, 0, 1, 3)}
=============================================================================
