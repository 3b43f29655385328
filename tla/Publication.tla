----------------------------- MODULE Publication -----------------------------
(***************************************************************************)
(* What promotion promises a reader of the stable analytics views,         *)
(* whatever the warehouse: the views show one validated context at a time, *)
(* and the publication record never claims a batch newer than the one the  *)
(* views show.                                                             *)
(*                                                                         *)
(* A context is one (run_id, batch_id) pair.  DuckDB shows and records a   *)
(* context in one transaction; Snowflake shows it first (schema swap) and  *)
(* records it afterwards, and may stop in between.                         *)
(***************************************************************************)
EXTENDS Integers

CONSTANTS
    Contexts,   \* the contexts that can ever be promoted
    Nothing     \* shown before the first publication

(* What the theorems ask of the constants; each implementation assumes it. *)
ContextsAreBatches ==
    /\ \A c \in Contexts : c.batch \in Nat
    /\ Nothing \notin Contexts

VARIABLES
    shown,      \* the context whose data the stable views select
    recorded,   \* the contexts publication_runs lists as published
    passed,     \* the contexts with a passed validation audit row
    granted     \* the contexts some promotion under way found passed

vars == <<shown, recorded, passed, granted>>

Init ==
    /\ shown = Nothing
    /\ recorded = {}
    /\ passed = {}
    /\ granted = {}

(* The newest recorded batch does not exceed c's: the monotonicity gate.   *)
NothingNewer(c) == \A d \in recorded : d.batch <= c.batch

(* Validation of any number of contexts ends, with any verdict.            *)
Audit ==
    /\ passed' \in SUBSET Contexts
    /\ UNCHANGED <<shown, recorded, granted>>

(* A promotion finds its context passed.  No lock keeps the verdict: a     *)
(* later validation may overwrite it while the promotion goes on.          *)
Grant(c) ==
    /\ c \in passed
    /\ granted' = granted \cup {c}
    /\ UNCHANGED <<shown, recorded, passed>>

(* Promotions end.                                                         *)
Lapse ==
    /\ granted' \in SUBSET granted
    /\ UNCHANGED <<shown, recorded, passed>>

(* The views move to a context its promotion found passed, and that no     *)
(* recorded batch exceeds.                                                 *)
Show(c) ==
    /\ c \in granted
    /\ NothingNewer(c)
    /\ shown' = c
    /\ UNCHANGED <<recorded, passed, granted>>

(* The context on show is recorded, and its promotion ends.                *)
Record(c) ==
    /\ shown = c
    /\ recorded' = recorded \cup {c}
    /\ granted' \in SUBSET granted
    /\ UNCHANGED <<shown, passed>>

(* Everything at once.                                                     *)
Publish(c) ==
    /\ c \in passed
    /\ NothingNewer(c)
    /\ shown' = c
    /\ recorded' = recorded \cup {c}
    /\ UNCHANGED <<passed, granted>>

Next ==
    \/ Audit
    \/ Lapse
    \/ \E c \in Contexts : Grant(c) \/ Show(c) \/ Record(c) \/ Publish(c)

Spec == Init /\ [][Next]_vars

-----------------------------------------------------------------------------
(* The record and the views have their types.                              *)
TypeOK ==
    /\ shown \in Contexts \cup {Nothing}
    /\ recorded \subseteq Contexts
    /\ passed \subseteq Contexts
    /\ granted \subseteq Contexts

(* Every recorded batch is at most the batch on show: the record may lag   *)
(* the views (Snowflake, between the swap and the update) but is never     *)
(* ahead of them.                                                          *)
RecordNeverAhead ==
    \A d \in recorded : shown \in Contexts /\ d.batch <= shown.batch

(* A recorded publication is only ever replaced by the same or a newer     *)
(* batch: the gate "publication cannot replace a newer batch".             *)
RecordedNeverRegresses ==
    [][(shown \in recorded) => shown.batch <= (shown.batch)']_shown
=============================================================================
