------------------------- MODULE MCSnowflakePromotion -------------------------
(* Instance of SnowflakePromotion for TLC: run "a" with two possible       *)
(* batches (an operator may give any --batch-id) and run "b" with one.     *)
EXTENDS SnowflakePromotion, TLC

CONSTANTS a, b

ThreeContexts == {[run |-> a, batch |-> 1], [run |-> a, batch |-> 2],
                  [run |-> b, batch |-> 1]}
TwoContexts == {[run |-> a, batch |-> 2], [run |-> b, batch |-> 1]}

(* Commands are interchangeable.                                           *)
AnyPromoter == Permutations(Promoters)
=============================================================================
