------------------------------- MODULE Dashboard -------------------------------
(***************************************************************************)
(* The Streamlit dashboard beside the DuckDB promotion: every panel opens  *)
(* the database file read-only, runs its queries outside any transaction,  *)
(* closes, and is cached for a while, each panel on its own.               *)
(*                                                                         *)
(* DuckDB's file lock lets either one process write or others read: while  *)
(* a panel is loaded no command gets a session, and the other way round.   *)
(***************************************************************************)
EXTENDS DuckDbPromotion

VARIABLES
    reading,    \* the panel being loaded and the contexts its queries saw
    cached      \* [Panels -> contexts]: what a cached panel was made of

dashboardVars == <<reading, cached>>
pageVars == <<vars, dashboardVars>>

(* The KPIs, daily revenue, products and freshness of load_dashboard_data, *)
(* and the row of load_validation_status.  load_available_date_range loads *)
(* like the data, with one query.                                          *)
Panels == {"data", "status"}
ViewsOf(panel) == IF panel = "status" THEN {NViews} ELSE 1..(NViews - 1)

DashboardTypeOK ==
    /\ reading \in [panel : Panels, seen : SUBSET Contexts] \cup {Nothing}
    /\ cached \in [Panels -> (SUBSET Contexts) \cup {Nothing}]

DashboardInit ==
    /\ Init
    /\ reading = Nothing
    /\ cached = [p \in Panels |-> Nothing]

-----------------------------------------------------------------------------
(* The pipeline's commands under the file lock *)

OpensSession == session = Nothing /\ session' # Nothing

PipelineStep ==
    /\ Next
    /\ reading = Nothing \/ ~OpensSession
    /\ UNCHANGED dashboardVars

(* A promote command finds the file open for reading and raises.           *)
LockedOut(c) ==
    /\ reading # Nothing
    /\ c \in ready
    /\ ready' = ready \ {c}
    /\ UNCHANGED <<data, session, draft, dashboardVars>>

-----------------------------------------------------------------------------
(* The page *)

(* Faulty variants of the definitions that follow: the file opens while a  *)
(* command writes, a missing view reads as an empty one.                   *)
OpenPanelAnyTime(p) ==
    /\ reading = Nothing /\ cached[p] = Nothing
    /\ reading' = [panel |-> p, seen |-> {}]
    /\ UNCHANGED <<vars, cached>>

QueryMissingViews(over) ==
    /\ reading # Nothing
    /\ over # {} /\ over \subseteq ViewsOf(reading.panel)
    /\ reading' = [reading EXCEPT !.seen = @ \cup {views[v] : v \in over}]
    /\ UNCHANGED <<vars, cached>>

(* A panel that is not cached is loaded; the file cannot be opened while a *)
(* command has it, and an exception is not cached.                         *)
OpenPanel(p) ==
    /\ reading = Nothing /\ cached[p] = Nothing
    /\ session = Nothing
    /\ reading' = [panel |-> p, seen |-> {}]
    /\ UNCHANGED <<vars, cached>>

(* One query, or one more, over some of the panel's views; a view that is  *)
(* not there yet raises and the connection is closed.                      *)
QueryViews(over) ==
    /\ reading # Nothing
    /\ over # {} /\ over \subseteq ViewsOf(reading.panel)
    /\ reading' = IF \E v \in over : views[v] = Nothing THEN Nothing
                  ELSE [reading EXCEPT !.seen = @ \cup {views[v] : v \in over}]
    /\ UNCHANGED <<vars, cached>>

ClosePanel ==
    /\ reading # Nothing /\ reading.seen # {}
    /\ cached' = [cached EXCEPT ![reading.panel] = reading.seen]
    /\ reading' = Nothing
    /\ UNCHANGED vars

(* The panel's time to live is over, 60 s for the data, 30 s for the       *)
(* status.                                                                 *)
Expire(p) ==
    /\ cached' = [cached EXCEPT ![p] = Nothing]
    /\ UNCHANGED <<vars, reading>>

DashboardNext ==
    \/ PipelineStep
    \/ \E c \in Contexts : LockedOut(c)
    \/ \E p \in Panels : OpenPanel(p) \/ Expire(p)
    \/ \E over \in SUBSET Views : QueryViews(over)
    \/ ClosePanel

DashboardSpec == DashboardInit /\ [][DashboardNext]_pageVars

-----------------------------------------------------------------------------
(* Properties *)

(* A panel is made of one publication although its queries are separate    *)
(* transactions and the views change one by one: figures of two runs never *)
(* stand side by side in it, whatever is published while it loads.         *)
PanelOfOnePublication ==
    /\ reading # Nothing => Cardinality(reading.seen) <= 1
    /\ \A p \in Panels : cached[p] # Nothing =>
         \E c \in Recorded : cached[p] = {c}

(* What a panel has shown is never newer than what the stable views select *)
(* now, so a reload never takes a reader back to an older batch.           *)
PanelNeverAhead ==
    \A p \in Panels : cached[p] # Nothing =>
        \A c \in cached[p] : Shown # Nothing /\ c.batch <= Shown.batch
=============================================================================
