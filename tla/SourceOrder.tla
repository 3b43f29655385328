------------------------------ MODULE SourceOrder ------------------------------
(***************************************************************************)
(* The order of the change events of one key: source position first, Kafka *)
(* position last.  The Spark window and the fold of state.py both use it.  *)
(***************************************************************************)
EXTENDS Integers

(* A faulty variant of Later: ties of LSN and transaction stay undecided.  *)
LaterWithTies(e, f) == e.lsn > f.lsn \/ (e.lsn = f.lsn /\ e.tx > f.tx)

(* A faulty variant of Later: events in the order Kafka delivered them.    *)
LaterInKafka(e, f) == e.partition > f.partition \/ e.offset > f.offset

(* source_order: (source_lsn, transaction_order, partition, offset), in    *)
(* lexicographic order.                                                    *)
Later(e, f) ==
    \/ e.lsn > f.lsn
    \/ e.lsn = f.lsn /\ e.tx > f.tx
    \/ e.lsn = f.lsn /\ e.tx = f.tx /\ e.partition > f.partition
    \/ e.lsn = f.lsn /\ e.tx = f.tx /\ e.partition = f.partition /\ e.offset > f.offset

(* The events no other event of their set follows: rank 1 of the window.   *)
Latest(events) == {e \in events : \A f \in events : ~Later(f, e)}
=============================================================================
