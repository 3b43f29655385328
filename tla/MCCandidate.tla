----------------------------- MODULE MCCandidate -----------------------------
(* Instance of Candidate for TLC: one topic partition, or one per key.     *)
EXTENDS Candidate, TLC

OnePartition == [k \in Keys |-> 0]
PartitionPerKey == [k \in Keys |-> k]

(* With one partition, keys are interchangeable; executions always are.    *)
KeysAndExecs == Permutations(Keys) \cup Permutations(Execs)
=============================================================================
