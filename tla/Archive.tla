------------------------------- MODULE Archive -------------------------------
(***************************************************************************)
(* What ingestion promises the runs built on it, in terms of the source's  *)
(* messages alone: no offsets, files, paths, batches or processes.         *)
(*                                                                         *)
(* The archive only grows, without a gap in any partition, and a snapshot  *)
(* shows for every key the last change archived that belongs to its        *)
(* cutoff, and no row where that was a delete.  A backfill sees the days   *)
(* it asks for, at least as far as they are archived.                      *)
(***************************************************************************)
EXTENDS Integers

CONSTANTS
    Cutoffs,    \* batch cutoffs
    Days,       \* event dates
    Nothing     \* no snapshot

VARIABLES
    log,        \* [partition, carries, day] of every message, in commit order
    drained,    \* positions of the messages archived for good
    silver      \* [run, end, rows]: the last snapshot; its rows are positions,
                \* its end is the last day of a backfill, else Nothing

vars == <<log, drained, silver>>

Init ==
    /\ drained = {}
    /\ silver = Nothing

(* A partition's messages are archived in order, though one may lag.       *)
Gapless(read) ==
    \A i \in read : \A j \in 1..i : log[j].partition = log[i].partition => j \in read

Counts(i, cutoff) ==
    log[i].carries.kind = "event" /\ log[i].carries.batch <= cutoff

(* The last change of each key that counts, unless it is a delete.         *)
LastChanges(cutoff, read) ==
    {i \in read :
        /\ Counts(i, cutoff) /\ log[i].carries.op # "d"
        /\ \A j \in read :
             Counts(j, cutoff) /\ log[j].carries.key = log[i].carries.key => j <= i}

Drain ==
    /\ \E read \in SUBSET DOMAIN log :
         drained \subseteq read /\ Gapless(read) /\ drained' = read
    /\ UNCHANGED <<log, silver>>

Snapshot(cutoff) ==
    /\ silver' = [run |-> cutoff, end |-> Nothing,
                  rows |-> LastChanges(cutoff, drained)]
    /\ UNCHANGED <<log, drained>>

(* A backfill may also meet messages that are not archived for good yet.   *)
Backfill(cutoff, end) ==
    /\ \E read \in SUBSET {i \in DOMAIN log : log[i].day <= end} :
         /\ \A i \in drained : log[i].day <= end => i \in read
         /\ silver' = [run |-> cutoff, end |-> end,
                       rows |-> LastChanges(cutoff, read)]
    /\ UNCHANGED <<log, drained>>

Next ==
    \/ Drain
    \/ \E cutoff \in Cutoffs :
         Snapshot(cutoff) \/ \E end \in Days : Backfill(cutoff, end)

Spec == Init /\ [][Next]_vars
=============================================================================
