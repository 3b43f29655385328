----------------------------- MODULE CurrentState -----------------------------
(***************************************************************************)
(* deduplicate_events and build_current_state: the state of one entity at  *)
(* a batch cutoff, folded from change events in whatever order, and as     *)
(* often, as bronze returns them.                                          *)
(***************************************************************************)
EXTENDS SourceOrder, FiniteSets

CONSTANTS
    Events,     \* every change event bronze can hold for the entity
    Cutoff,     \* max_batch_id
    None        \* no event seen for a key

(* An event has [key, batch, op, lsn, tx, partition, offset].  Its Kafka    *)
(* position identifies it, and a delete is "d".                            *)
ASSUME EventsAssumption ==
    /\ Cutoff \in Nat
    /\ None \notin Events
    /\ \A e \in Events :
         /\ e.batch \in Nat /\ e.lsn \in Nat /\ e.tx \in Nat
         /\ e.partition \in Nat /\ e.offset \in Nat
    /\ \A e, f \in Events : e.partition = f.partition /\ e.offset = f.offset => e = f

Keys == {e.key : e \in Events}

VARIABLES
    seen,       \* the events folded so far
    latest      \* [Keys -> event]: the dictionary the fold maintains

vars == <<seen, latest>>

TypeOK ==
    /\ seen \subseteq Events
    /\ latest \in [Keys -> Events \cup {None}]

Init ==
    /\ seen = {}
    /\ latest = [k \in Keys |-> None]

(* An event beyond the cutoff is skipped.                                  *)
Skip(e) ==
    /\ e.batch > Cutoff
    /\ seen' = seen \cup {e}
    /\ UNCHANGED latest

(* Faulty variants of the fold: the last arrival wins; the event is        *)
(* stamped with the cutoff.                                                *)
ReplacesAlways(e, previous) == TRUE
FoldStamped(e) ==
    /\ e.batch <= Cutoff
    /\ seen' = seen \cup {e}
    /\ latest' = [latest EXCEPT ![e.key] = [e EXCEPT !.batch = Cutoff]]

(* Later events win; equal ones keep the first.                            *)
Replaces(e, previous) == previous = None \/ Later(e, previous)

Fold(e) ==
    /\ e.batch <= Cutoff
    /\ seen' = seen \cup {e}
    /\ latest' = IF Replaces(e, latest[e.key])
                 THEN [latest EXCEPT ![e.key] = e] ELSE latest

Next == \E e \in Events : Skip(e) \/ Fold(e)

Spec == Init /\ [][Next]_vars

-----------------------------------------------------------------------------
(* The window ranking of Spark's _write_snapshot, as a set: the events of  *)
(* a key at the cutoff that no other one follows.                          *)
Candidates(k) == {e \in seen : e.key = k /\ e.batch <= Cutoff}
RankOne(k) == Latest(Candidates(k))

(* Both results drop the keys whose last event is a delete.                *)
FoldedState == {latest[k] : k \in {k \in Keys : latest[k] # None /\ latest[k].op # "d"}}
RankedState == {e \in UNION {RankOne(k) : k \in Keys} : e.op # "d"}

(* Whatever the order of arrival and however often an event is replayed,   *)
(* the fold holds for each key the event that Spark's window ranks first.  *)
FoldRanksFirst ==
    \A k \in Keys : RankOne(k) = IF latest[k] = None THEN {} ELSE {latest[k]}

(* So the reference implementation and the Spark snapshot agree on the     *)
(* current rows.                                                           *)
StatesAgree == FoldedState = RankedState
=============================================================================
