----------------------------- MODULE SourceHistory -----------------------------
(***************************************************************************)
(* The PostgreSQL source: batches of changes to one retail table, the      *)
(* trigger that records each change in source_history, and the image of    *)
(* the same change that Debezium reads from the write-ahead log.           *)
(*                                                                         *)
(* One change makes one history row and one change event, so both live in  *)
(* one log entry.  They differ in one field: a delete's history row takes  *)
(* the active batch, its event the batch stamped on the deleted row (the   *)
(* before-image).  History is read in (batch_id, history_id) order, events *)
(* in LSN order.  Validation compares the two at a batch cutoff.           *)
(***************************************************************************)
EXTENDS Integers, Sequences, FiniteSetsExt

CONSTANTS
    Keys,           \* primary keys of the table
    NBatches,       \* batches are 1..NBatches
    MaxChanges,     \* bound: changes ever made
    Overlap,        \* TRUE: a batch may start before the lower ones complete
    TouchFirst,     \* TRUE: writers stamp a row with their batch, then delete it
    Absent          \* no row

Batches == 1..NBatches

ASSUME SourceAssumption ==
    /\ NBatches \in Nat /\ MaxChanges \in Nat
    /\ Overlap \in BOOLEAN /\ TouchFirst \in BOOLEAN
    /\ IsFiniteSet(Keys)
ASSUME AbsentAssumption == Absent \notin Batches /\ Absent \notin [batch : Batches, ver : Nat]

VARIABLES
    state,      \* [Batches -> state]: control.source_batch
    table,      \* [Keys -> batch]: the batch_id column of the current row
    log         \* changes in commit order; the position is history_id and LSN

sourceVars == <<state, table, log>>

States == {"absent", "loading", "completed"}
Change == [key : Keys, op : {"c", "u", "d"}, batch : Batches, rowBatch : Batches]

SourceTypeOK ==
    /\ state \in [Batches -> States]
    /\ table \in [Keys -> Batches \cup {Absent}]
    /\ log \in Seq(Change)
    /\ Len(log) <= MaxChanges

SourceInit ==
    /\ state = [b \in Batches |-> "absent"]
    /\ table = [k \in Keys |-> Absent]
    /\ log = <<>>

-----------------------------------------------------------------------------
(* Actions *)

(* apply_demo_batch up to its mutations: nothing to do for a completed     *)
(* batch.  Its advisory lock is per batch, so it does not order batches.   *)
StartBatch(b) ==
    /\ state[b] = "absent"
    /\ Overlap \/ \A lower \in 1..(b - 1) : state[lower] = "completed"
    /\ state' = [state EXCEPT ![b] = "loading"]
    /\ UNCHANGED <<table, log>>

CompleteBatch(b) ==
    /\ state[b] = "loading"
    /\ state' = [state EXCEPT ![b] = "completed"]
    /\ UNCHANGED <<table, log>>

(* A faulty variant of Capture: a completed batch still accepts changes.   *)
CaptureAfterCompletion(k, op, b, rowBatch) ==
    /\ state[b] # "absent"
    /\ Len(log) < MaxChanges
    /\ log' = Append(log, [key |-> k, op |-> op, batch |-> b, rowBatch |-> rowBatch])

(* The capture trigger of a statement that runs under batch b: the batch   *)
(* must be loading.                                                        *)
Capture(k, op, b, rowBatch) ==
    /\ state[b] = "loading"
    /\ Len(log) < MaxChanges
    /\ log' = Append(log, [key |-> k, op |-> op, batch |-> b, rowBatch |-> rowBatch])

(* INSERT and UPDATE: the row must carry the active batch.                 *)
Write(k, b) ==
    /\ Capture(k, IF table[k] = Absent THEN "c" ELSE "u", b, b)
    /\ table' = [table EXCEPT ![k] = b]
    /\ UNCHANGED state

(* DELETE: the trigger checks no row batch.                                *)
Delete(k, b) ==
    /\ table[k] # Absent
    /\ TouchFirst => table[k] = b
    /\ Capture(k, "d", b, table[k])
    /\ table' = [table EXCEPT ![k] = Absent]
    /\ UNCHANGED state

SourceNext ==
    \E b \in Batches :
        \/ StartBatch(b)
        \/ CompleteBatch(b)
        \/ \E k \in Keys : Write(k, b) \/ Delete(k, b)

SourceSpec == SourceInit /\ [][SourceNext]_sourceVars

-----------------------------------------------------------------------------
(* The two readings of the log.  A row is [batch, ver]: its batch_id column *)
(* and the change that produced its other columns.                         *)

(* A faulty variant of EventsOf: the snapshot ignores its cutoff.          *)
EventsOfAnyBatch(k, b, read) == {i \in read : log[i].key = k}

(* The entries of one key that belong to cutoff b.                         *)
HistoryOf(k, b) == {i \in DOMAIN log : log[i].key = k /\ log[i].batch <= b}
EventsOf(k, b, read) == {i \in read : log[i].key = k /\ log[i].rowBatch <= b}

(* PostgresHistoryReader: rank 1 by (batch DESC, history_id DESC).         *)
LatestHistory(k, b) ==
    LET own == HistoryOf(k, b)
    IN  CHOOSE i \in own : \A j \in own :
            \/ log[j].batch < log[i].batch
            \/ log[j].batch = log[i].batch /\ j <= i

(* Spark's snapshot: rank 1 by source LSN.                                 *)
LatestEvent(k, b, read) == Max(EventsOf(k, b, read))

RowAt(i) == IF log[i].op = "d" THEN Absent ELSE [batch |-> log[i].rowBatch, ver |-> i]

(* The expected rows of a validation at cutoff b.                          *)
HistoryAt(b) ==
    [k \in Keys |->
        IF HistoryOf(k, b) = {} THEN Absent ELSE RowAt(LatestHistory(k, b))]

(* The silver rows at cutoff b, from the change events in `read`.          *)
SilverAt(b, read) ==
    [k \in Keys |->
        IF EventsOf(k, b, read) = {} THEN Absent ELSE RowAt(LatestEvent(k, b, read))]

-----------------------------------------------------------------------------
(* Properties *)

(* All batches up to b are complete.                                       *)
Closed(b) == \A lower \in 1..b : state[lower] = "completed"

(* A delete that the history files under a later batch than its event.     *)
LateDelete(k, b) ==
    \E i \in DOMAIN log :
        log[i].key = k /\ log[i].op = "d" /\ log[i].rowBatch <= b /\ b < log[i].batch

(* Once every event has arrived, the silver snapshot at a completed batch  *)
(* is the source history at that batch, however far the source has moved   *)
(* on since, so the gate can pass, also for a backfill of an old cutoff;   *)
(* the only rows it lacks are those a later batch deleted without stamping *)
(* them first.                                                             *)
SilverMatchesHistory ==
    \A b \in Batches : state[b] = "completed" =>
        \A k \in Keys :
            SilverAt(b, DOMAIN log)[k] =
                IF LateDelete(k, b) THEN Absent ELSE HistoryAt(b)[k]

(* However batches overlap, what a validation at a cutoff expects is fixed *)
(* as soon as every batch up to the cutoff is complete, so a verdict and a *)
(* published dataset cannot be outdated by the source.  (A cutoff that is  *)
(* merely complete itself can be: a lower batch may still be loading.)     *)
ClosedCutoffIsFrozen ==
    [][\A b \in Batches : Closed(b) => HistoryAt(b)' = HistoryAt(b)]_sourceVars
=============================================================================
