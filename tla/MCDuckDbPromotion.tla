-------------------------- MODULE MCDuckDbPromotion --------------------------
(* Instance of DuckDbPromotion for TLC: two runs, "a" with two possible     *)
(* batches (an operator may give any --batch-id).                          *)
EXTENDS Dashboard

CONSTANTS a, b

ThreeContexts == {[run |-> a, batch |-> 1], [run |-> a, batch |-> 2],
                  [run |-> b, batch |-> 1]}
=============================================================================
