---------------------------- MODULE DuckDbPromotion ----------------------------
(***************************************************************************)
(* PromotionService.promote on DuckDB: four gates, the stable views one    *)
(* by one, the publication row and the status view, in one transaction;    *)
(* with the validation command whose audit row authorises it.              *)
(*                                                                         *)
(* DuckDB lets one process open the database file for writing, so at most  *)
(* one command has a session.  The report file is outside the database:    *)
(* a validation of the Snowflake target overwrites it at any time.         *)
(***************************************************************************)
EXTENDS Integers, Sequences, FiniteSets

CONSTANTS
    Contexts,   \* [run, batch] pairs a command can be given
    NViews,     \* views per publication; the last one is the status view
    Nothing     \* no context, no verdict, no session

Runs == {c.run : c \in Contexts}
Views == 1..NViews

ASSUME ContextsAssumption ==
    /\ \A c \in Contexts : c.batch \in Nat
    /\ \A c, d \in Contexts : c.run = d.run /\ c.batch = d.batch => c = d
    /\ Nothing \notin Contexts
ASSUME ViewsAssumption == NViews \in Nat \ {0}

VARIABLES
    report,     \* [Runs -> verdict]: reports/<run_id>/reconciliation.json
    audit,      \* [Runs -> verdict]: validation_runs
    published,  \* publication_runs in order of published_at
    views,      \* [Views -> context]: what the committed views select
    ready,      \* promote commands that have read a report that passed
    session,    \* the open connection: its command, context and progress
    draft       \* the views as the open transaction sees them

vars == <<report, audit, published, views, ready, session, draft>>
data == <<report, audit, published, views>>
rest == <<published, views, ready>>

Verdict == [batch : {c.batch : c \in Contexts}, passed : BOOLEAN]
Session == [step : {"validate", "record", "gates", "view", "commit"},
            ctx : Contexts, passed : BOOLEAN, built : 0..NViews]

ASSUME NothingAssumption == Nothing \notin Verdict /\ Nothing \notin Session

TypeOK ==
    /\ report \in [Runs -> Verdict \cup {Nothing}]
    /\ audit \in [Runs -> Verdict \cup {Nothing}]
    /\ published \in Seq(Contexts)
    /\ views \in [Views -> Contexts \cup {Nothing}]
    /\ ready \subseteq Contexts
    /\ session \in Session \cup {Nothing}
    /\ draft \in [Views -> Contexts \cup {Nothing}]

Init ==
    /\ report = [r \in Runs |-> Nothing]
    /\ audit = [r \in Runs |-> Nothing]
    /\ published = <<>>
    /\ views = [v \in Views |-> Nothing]
    /\ ready = {}
    /\ session = Nothing
    /\ draft = [v \in Views |-> Nothing]

Open(step, c, passed) ==
    session' = [step |-> step, ctx |-> c, passed |-> passed, built |-> 0]
Close == session' = Nothing /\ draft' = views
At(step) == session # Nothing /\ session.step = step
VerdictOf(c, passed) == [batch |-> c.batch, passed |-> passed]

-----------------------------------------------------------------------------
(* Validation: the report, then the audit row. *)

Validate(c, passed) ==
    /\ session = Nothing
    /\ Open("validate", c, passed)
    /\ UNCHANGED <<data, ready, draft>>

WriteReport ==
    /\ At("validate")
    /\ report' = [report EXCEPT ![session.ctx.run] =
                    VerdictOf(session.ctx, session.passed)]
    /\ session' = [session EXCEPT !.step = "record"]
    /\ UNCHANGED <<audit, rest, draft>>

RecordValidation ==
    /\ At("record")
    /\ audit' = [audit EXCEPT ![session.ctx.run] =
                   VerdictOf(session.ctx, session.passed)]
    /\ Close
    /\ UNCHANGED <<report, rest>>

(* The Snowflake validation of the same run writes the same report path.   *)
OtherTargetReports(c, passed) ==
    /\ report' = [report EXCEPT ![c.run] = VerdictOf(c, passed)]
    /\ UNCHANGED <<audit, rest, session, draft>>

-----------------------------------------------------------------------------
(* Promotion *)

(* The command reads the report file before it opens the database, so a    *)
(* validation may come in between.                                         *)
ReadReport(c) ==
    /\ report[c.run] = VerdictOf(c, TRUE)
    /\ ready' = ready \cup {c}
    /\ UNCHANGED <<data, session, draft>>

(* The database opens, or raises because another process holds its lock.   *)
Promote(c) ==
    /\ c \in ready
    /\ ready' = ready \ {c}
    /\ \/ session = Nothing /\ Open("gates", c, TRUE)
       \/ session # Nothing /\ UNCHANGED session
    /\ UNCHANGED <<data, draft>>

(* Faulty variants of the definitions that follow; a property below must   *)
(* notice each.                                                            *)
AuditPassedAnyBatch(c) == audit[c.run] # Nothing /\ audit[c.run].passed
LastViewEarly(n) == n = NViews - 1
LastViewLate(n) == n = NViews + 1
NothingNewerUnchecked(c) == TRUE

AuditPassed(c) == audit[c.run] = VerdictOf(c, TRUE)
LastView(n) == n = NViews
NothingNewer(c) == \A i \in DOMAIN published : published[i].batch <= c.batch
AlreadyPublished(c) == \E i \in DOMAIN published : published[i].run = c.run

(* The gates in their order; a failed one, or a row of the run, ends the   *)
(* transaction with nothing written.                                       *)
Gates ==
    /\ At("gates")
    /\ LET c == session.ctx IN
         \/ /\ AuditPassed(c) /\ NothingNewer(c) /\ ~AlreadyPublished(c)
            /\ session' = [session EXCEPT !.step = "view"]
            /\ UNCHANGED draft
         \/ /\ ~AuditPassed(c) \/ ~NothingNewer(c) \/ AlreadyPublished(c)
            /\ Close
    /\ UNCHANGED <<data, ready>>

(* One CREATE OR REPLACE VIEW inside the transaction; the status view is   *)
(* the last, after the publication row in the code, where the transaction  *)
(* makes their order invisible.                                            *)
CreateView ==
    /\ At("view")
    /\ LET n == session.built + 1 IN
         /\ draft' = [draft EXCEPT ![n] = session.ctx]
         /\ session' = [session EXCEPT !.built = n,
                          !.step = IF LastView(n) THEN "commit" ELSE "view"]
    /\ UNCHANGED <<data, ready>>

(* INSERT INTO publication_runs and COMMIT.  The table's primary key holds *)
(* at most one row of a run; Fail is its error.                            *)
CommitPublication ==
    /\ At("commit")
    /\ ~AlreadyPublished(session.ctx)
    /\ views' = draft
    /\ published' = Append(published, session.ctx)
    /\ session' = Nothing
    /\ UNCHANGED <<report, audit, ready, draft>>

(* Any statement raises, or the process dies: DuckDB discards the          *)
(* transaction.                                                            *)
Fail ==
    /\ session # Nothing
    /\ Close
    /\ UNCHANGED <<data, ready>>

Next ==
    \/ \E c \in Contexts, passed \in BOOLEAN :
         Validate(c, passed) \/ OtherTargetReports(c, passed)
    \/ WriteReport
    \/ RecordValidation
    \/ \E c \in Contexts : ReadReport(c) \/ Promote(c)
    \/ Gates
    \/ CreateView
    \/ CommitPublication
    \/ Fail

Spec == Init /\ [][Next]_vars

-----------------------------------------------------------------------------
(* Properties *)

Shown == views[1]
Recorded == {published[i] : i \in DOMAIN published}

(* Whatever fails, the committed views all select the same context, the    *)
(* one of the last publication row: record and views change together, and  *)
(* the status view's first row (latest published_at) describes the data.   *)
RecordMatchesViews ==
    \A v \in Views :
        views[v] = IF published = <<>> THEN Nothing ELSE published[Len(published)]

(* Neither the record nor what readers see ever goes back to an older      *)
(* batch: batches are recorded in non-decreasing order.                    *)
PublishedInOrder ==
    \A i, j \in DOMAIN published : i <= j => published[i].batch <= published[j].batch

(* DuckDB publication implements the promise in its strongest form: show   *)
(* and record in one step, for a context whose audit row passed.           *)
Promise == INSTANCE Publication WITH
    shown <- Shown,
    recorded <- Recorded,
    passed <- {c \in Contexts : audit[c.run] = VerdictOf(c, TRUE)},
    granted <- {}
Refines == Promise!Spec
=============================================================================
