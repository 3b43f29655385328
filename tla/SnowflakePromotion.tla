-------------------------- MODULE SnowflakePromotion --------------------------
(***************************************************************************)
(* SnowflakePromotionService.promote, one step per statement it sends, with *)
(* the audit writer and the report file whose verdicts authorise it.       *)
(*                                                                         *)
(* Sessions run with autocommit off.  A DDL statement commits whatever its *)
(* session wrote before it; a session that ends without one loses it.  So  *)
(* the `pending` INSERT becomes durable with CREATE OR REPLACE SCHEMA of   *)
(* the staging schema, and the UPDATE to `published` with DROP SCHEMA.     *)
(* Every read sees what is committed when it runs.                         *)
(***************************************************************************)
EXTENDS Integers, FiniteSets

CONSTANTS
    Promoters,      \* concurrent promote commands
    Contexts,       \* [run, batch] pairs a command can be given
    NViews,         \* views per publication; the last one is the status view
    Serialized,     \* TRUE: operators run one promote command at a time;
                    \* validations run whenever they like
    Nothing,        \* no context, no verdict, no schema
    MaxClock,       \* bound: rows ever inserted into publication_runs
    MaxCrashes      \* bound: commands that die half way

Runs == {c.run : c \in Contexts}
Views == 1..NViews

ASSUME ContextsAssumption ==
    /\ \A c \in Contexts : c.batch \in Nat
    /\ \A c, d \in Contexts : c.run = d.run /\ c.batch = d.batch => c = d
    /\ Nothing \notin Contexts
ASSUME ViewsAssumption == NViews \in Nat \ {0}
ASSUME BoundsAssumption ==
    MaxClock \in Nat /\ MaxCrashes \in Nat /\ Serialized \in BOOLEAN

VARIABLES
    report,     \* [Runs -> verdict]: reports/<run_id>/reconciliation.json
    audit,      \* [Runs -> verdict]: the validation_runs row of each run
    writing,    \* the verdict a validation still has to record, or Nothing
    rows,       \* publication_runs, committed
    clock,      \* stands for datetime.now: the next published_at, which
                \* tells two rows of a run apart
    analytics,  \* [Views -> context]: the schema readers query
    staging,    \* the analytics_staging schema, Nothing when dropped
    pc, ctx,    \* per promoter: next statement, the command's context
    built,      \* per promoter: how many views it has created
    txn,        \* per promoter: uncommitted rows added and removed
    crashes

verdictVars == <<report, audit, writing>>
controlVars == <<rows, clock>>
schemaVars == <<analytics, staging>>
sessionVars == <<pc, ctx, built, txn>>
vars == <<verdictVars, controlVars, schemaVars, sessionVars, crashes>>

Verdict == [batch : {c.batch : c \in Contexts}, passed : BOOLEAN]
Row == [run : Runs, batch : {c.batch : c \in Contexts},
        status : {"pending", "published"}, at : 0..MaxClock]
Schema == [Views -> Contexts \cup {Nothing}]
Steps == {"idle", "audit", "latest", "existing", "insert", "stage", "view",
          "swap", "update", "drop"}
NoTxn == [add |-> {}, del |-> {}]

ASSUME NothingAssumption == Nothing \notin Verdict

EmptySchema == [v \in Views |-> Nothing]

TypeOK ==
    /\ report \in [Runs -> Verdict \cup {Nothing}]
    /\ audit \in [Runs -> Verdict \cup {Nothing}]
    /\ writing \in [ctx : Contexts, passed : BOOLEAN] \cup {Nothing}
    /\ rows \subseteq Row
    /\ clock \in 0..MaxClock
    /\ analytics \in Schema
    /\ staging \in Schema \cup {Nothing}
    /\ pc \in [Promoters -> Steps]
    /\ ctx \in [Promoters -> Contexts \cup {Nothing}]
    /\ built \in [Promoters -> 0..NViews]
    /\ txn \in [Promoters -> [add : SUBSET Row, del : SUBSET Row]]
    /\ crashes \in 0..MaxCrashes

Init ==
    /\ report = [r \in Runs |-> Nothing]
    /\ audit = [r \in Runs |-> Nothing]
    /\ writing = Nothing
    /\ rows = {}
    /\ clock = 0
    /\ analytics = EmptySchema
    /\ staging = Nothing
    /\ pc = [p \in Promoters |-> "idle"]
    /\ ctx = [p \in Promoters |-> Nothing]
    /\ built = [p \in Promoters |-> 0]
    /\ txn = [p \in Promoters |-> NoTxn]
    /\ crashes = 0

-----------------------------------------------------------------------------
(* Helpers *)

NoPromotion == \A p \in Promoters : pc[p] = "idle"

(* The command `p` moves from statement `from` to statement `to`.          *)
Goto(p, from, to) == pc[p] = from /\ pc' = [pc EXCEPT ![p] = to]

(* The command raises PromotionError or returns; its session is closed.    *)
End(p) ==
    /\ pc' = [pc EXCEPT ![p] = "idle"]
    /\ ctx' = [ctx EXCEPT ![p] = Nothing]
    /\ built' = [built EXCEPT ![p] = 0]
    /\ txn' = [txn EXCEPT ![p] = NoTxn]

(* Faulty variants of the definitions that follow: each drops or misplaces *)
(* one detail, and a property below must notice.                           *)
AuditPassedAnyBatch(c) == audit[c.run] # Nothing /\ audit[c.run].passed
RowsOfPublished(run) == {x \in rows : x.run = run /\ x.status = "published"}
NothingNewerUnchecked(c) == TRUE
ResumableNever(x, c) == FALSE
PublishedMisspelt(x) == [x EXCEPT !.status = "complete"]
PublishedAgain(x) == [x EXCEPT !.status = "published", !.at = clock]
LastViewEarly(n) == n = NViews - 1

(* The table once a DDL statement of `p` commits the rows p's session      *)
(* wrote.                                                                  *)
AfterCommit(p) == (rows \ txn[p].del) \cup txn[p].add

AuditPassed(c) == audit[c.run] = [batch |-> c.batch, passed |-> TRUE]
PublishedRows == {x \in rows : x.status = "published"}
RowsOf(run) == {x \in rows : x.run = run}
NothingNewer(c) == \A x \in PublishedRows : x.batch <= c.batch
Resumable(x, c) == x.batch = c.batch /\ x.status = "pending"
Published(x) == [x EXCEPT !.status = "published"]
LastView(n) == n = NViews

-----------------------------------------------------------------------------
(* Validation: the report file first, then the audit row (MERGE + commit). *)

WriteReport(c, passed) ==
    /\ writing = Nothing
    /\ report' = [report EXCEPT ![c.run] = [batch |-> c.batch, passed |-> passed]]
    /\ writing' = [ctx |-> c, passed |-> passed]
    /\ UNCHANGED <<audit, controlVars, schemaVars, sessionVars, crashes>>

RecordValidation ==
    /\ writing # Nothing
    /\ audit' = [audit EXCEPT ![writing.ctx.run] =
                   [batch |-> writing.ctx.batch, passed |-> writing.passed]]
    /\ writing' = Nothing
    /\ UNCHANGED <<report, controlVars, schemaVars, sessionVars, crashes>>

(* The validation dies after the report and before the audit row, or it    *)
(* validated the other warehouse, which shares the report path.            *)
AbandonValidation ==
    /\ writing # Nothing
    /\ writing' = Nothing
    /\ UNCHANGED <<report, audit, controlVars, schemaVars, sessionVars, crashes>>

-----------------------------------------------------------------------------
(* Promotion, statement by statement *)

(* The command reads the report file and checks it against its context.    *)
ValidateReport(p, c) ==
    /\ pc[p] = "idle"
    /\ Serialized => NoPromotion
    /\ report[c.run] = [batch |-> c.batch, passed |-> TRUE]
    /\ pc' = [pc EXCEPT ![p] = "audit"]
    /\ ctx' = [ctx EXCEPT ![p] = c]
    /\ UNCHANGED <<verdictVars, controlVars, schemaVars, built, txn, crashes>>

CheckAudit(p) ==
    /\ pc[p] = "audit"
    /\ \/ /\ AuditPassed(ctx[p])
          /\ pc' = [pc EXCEPT ![p] = "latest"]
          /\ UNCHANGED <<ctx, built, txn>>
       \/ ~AuditPassed(ctx[p]) /\ End(p)
    /\ UNCHANGED <<verdictVars, controlVars, schemaVars, crashes>>

CheckLatestBatch(p) ==
    /\ pc[p] = "latest"
    /\ \/ /\ NothingNewer(ctx[p])
          /\ pc' = [pc EXCEPT ![p] = "existing"]
          /\ UNCHANGED <<ctx, built, txn>>
       \/ ~NothingNewer(ctx[p]) /\ End(p)
    /\ UNCHANGED <<verdictVars, controlVars, schemaVars, crashes>>

(* The first row the query returns decides: none inserts, a pending one of *)
(* the same batch resumes, a published one or another batch ends here.     *)
CheckExisting(p) ==
    /\ pc[p] = "existing"
    /\ \/ /\ RowsOf(ctx[p].run) = {}
          /\ pc' = [pc EXCEPT ![p] = "insert"]
          /\ UNCHANGED <<ctx, built, txn>>
       \/ \E x \in RowsOf(ctx[p].run) :
            \/ /\ Resumable(x, ctx[p])
               /\ pc' = [pc EXCEPT ![p] = "stage"]
               /\ UNCHANGED <<ctx, built, txn>>
            \/ ~Resumable(x, ctx[p]) /\ End(p)
    /\ UNCHANGED <<verdictVars, controlVars, schemaVars, crashes>>

(* A faulty variant of InsertPending: it inserts no row.                   *)
InsertPendingSkipped(p) ==
    /\ Goto(p, "insert", "stage")
    /\ UNCHANGED <<verdictVars, controlVars, schemaVars, ctx, built, txn, crashes>>

InsertPending(p) ==
    /\ Goto(p, "insert", "stage")
    /\ clock < MaxClock
    /\ txn' = [txn EXCEPT ![p] =
                 [add |-> {[run |-> ctx[p].run, batch |-> ctx[p].batch,
                            status |-> "pending", at |-> clock]},
                  del |-> {}]]
    /\ clock' = clock + 1
    /\ UNCHANGED <<verdictVars, rows, schemaVars, ctx, built, crashes>>

(* CREATE OR REPLACE SCHEMA analytics_staging, which commits the INSERT.   *)
CreateStaging(p) ==
    /\ Goto(p, "stage", "view")
    /\ staging' = EmptySchema
    /\ built' = [built EXCEPT ![p] = 0]
    /\ rows' = AfterCommit(p)
    /\ txn' = [txn EXCEPT ![p] = NoTxn]
    /\ UNCHANGED <<verdictVars, clock, analytics, ctx, crashes>>

(* CREATE OR REPLACE VIEW in staging; it fails when staging is gone.  The  *)
(* last view selects the control tables live, for every run; it is entered *)
(* like the others, as the context whose publication created it.           *)
CreateView(p) ==
    /\ pc[p] = "view"
    /\ \/ /\ staging # Nothing
          /\ built' = [built EXCEPT ![p] = @ + 1]
          /\ staging' = [staging EXCEPT ![built[p] + 1] = ctx[p]]
          /\ pc' = [pc EXCEPT ![p] = IF LastView(built[p] + 1) THEN "swap" ELSE "view"]
          /\ UNCHANGED <<ctx, txn>>
       \/ staging = Nothing /\ End(p) /\ UNCHANGED staging
    /\ UNCHANGED <<verdictVars, controlVars, analytics, crashes>>

(* CREATE SCHEMA IF NOT EXISTS analytics (an absent schema is the empty    *)
(* one), then ALTER SCHEMA analytics SWAP WITH analytics_staging.          *)
SwapSchemas(p) ==
    /\ pc[p] = "swap"
    /\ \/ /\ staging # Nothing
          /\ analytics' = staging
          /\ staging' = analytics
          /\ pc' = [pc EXCEPT ![p] = "update"]
          /\ UNCHANGED <<ctx, built, txn>>
       \/ staging = Nothing /\ End(p) /\ UNCHANGED schemaVars
    /\ UNCHANGED <<verdictVars, controlVars, crashes>>

(* UPDATE ... SET status = 'published' WHERE run_id: every row of the run, *)
(* in the session's own uncommitted transaction.                           *)
MarkPublished(p) ==
    /\ Goto(p, "update", "drop")
    /\ txn' = [txn EXCEPT ![p] =
                 [add |-> {Published(x) : x \in RowsOf(ctx[p].run)},
                  del |-> RowsOf(ctx[p].run)]]
    /\ UNCHANGED <<verdictVars, controlVars, schemaVars, ctx, built, crashes>>

(* A faulty variant of DropStaging: nothing commits the UPDATE.            *)
DropStagingUncommitted(p) ==
    /\ pc[p] = "drop"
    /\ staging' = Nothing
    /\ End(p)
    /\ UNCHANGED <<verdictVars, controlVars, analytics, crashes>>

(* DROP SCHEMA IF EXISTS analytics_staging commits the UPDATE; the final   *)
(* commit of the code then has nothing left to do.                         *)
DropStaging(p) ==
    /\ pc[p] = "drop"
    /\ staging' = Nothing
    /\ rows' = AfterCommit(p)
    /\ End(p)
    /\ UNCHANGED <<verdictVars, clock, analytics, crashes>>

(* The process dies or a statement fails: committed work stays, the rest   *)
(* of the session is lost.                                                 *)
Crash(p) ==
    /\ pc[p] # "idle"
    /\ crashes < MaxCrashes
    /\ crashes' = crashes + 1
    /\ End(p)
    /\ UNCHANGED <<verdictVars, controlVars, schemaVars>>

Statement(p) ==
    \/ CheckAudit(p) \/ CheckLatestBatch(p) \/ CheckExisting(p)
    \/ InsertPending(p) \/ CreateStaging(p) \/ CreateView(p)
    \/ SwapSchemas(p) \/ MarkPublished(p) \/ DropStaging(p)

Next ==
    \/ \E c \in Contexts, passed \in BOOLEAN : WriteReport(c, passed)
    \/ RecordValidation
    \/ AbandonValidation
    \/ \E p \in Promoters :
         \/ \E c \in Contexts : ValidateReport(p, c)
         \/ Statement(p)
         \/ Crash(p)

Spec == Init /\ [][Next]_vars

-----------------------------------------------------------------------------
(* Properties *)

Complete(schema) == \E c \in Contexts : \A v \in Views : schema[v] = c
Shown == IF Complete(analytics) THEN analytics[1] ELSE Nothing
Recorded == {c \in Contexts : \E x \in PublishedRows : x.run = c.run /\ x.batch = c.batch}

(* Whatever happens between two statements, readers find either no views   *)
(* at all or the full set of one context, never half of a publication.     *)
AllOrNothing == analytics = EmptySchema \/ Complete(analytics)

(* The recorded published batch may lag the swapped-in views, but is never *)
(* ahead of them: every published row's batch is at most the batch that    *)
(* the analytics views select.                                             *)
RecordNeverAhead ==
    \A x \in PublishedRows : Shown # Nothing /\ x.batch <= Shown.batch

(* publication_runs has no enforced key: retries after a crash resume the  *)
(* pending row, they never insert a second row for the run.                *)
OneRowPerRun == \A x, y \in rows : x.run = y.run => x = y

(* Even when commands interleave, nothing is on show that publication_runs *)
(* does not account for: the pending row is durable before the first view  *)
(* of its context exists anywhere.                                         *)
ShownIsAccountedFor ==
    \A v \in Views : analytics[v] # Nothing =>
        \E x \in rows : x.run = analytics[v].run /\ x.batch = analytics[v].batch

(* A published row is final: no crash, retry or interleaved command that   *)
(* marks the run again unpublishes or deletes it, or changes its batch or  *)
(* the time it was recorded.                                               *)
PublishedIsFinal == [][PublishedRows \subseteq PublishedRows']_rows

(* A command that returns success leaves its context recorded: the rows it *)
(* marked, or that another command of the run committed meanwhile, are     *)
(* durable and published, however the statements of commands interleave.   *)
ReturnedIsRecorded ==
    [][\A p \in Promoters : DropStaging(p) => ctx[p] \in Recorded']_vars

(* The gate's message, "publication cannot replace a newer batch", taken   *)
(* of the views themselves: what readers see never goes back in time.      *)
NewerBatchNeverReplaced ==
    [][Shown # Nothing => Shown.batch <= (Shown.batch)']_analytics

(* A publication is recorded only for a context that is on show, or that   *)
(* was on show until a newer publication replaced it, and shown only when  *)
(* the promotion that shows it found it passed (the verdict may have been  *)
(* overwritten since): the abstract specification, with the audit gate as  *)
(* Grant, the swap as Show and the committed UPDATE as Record.             *)
Promise == INSTANCE Publication WITH
    shown <- Shown,
    recorded <- Recorded,
    passed <- {c \in Contexts : audit[c.run] = [batch |-> c.batch, passed |-> TRUE]},
    granted <- {c \in Contexts :
                  \E p \in Promoters : pc[p] \notin {"idle", "audit"} /\ ctx[p] = c}
Refines == Promise!Spec

(* Fairness: a started command, validate or promote, runs on, and the      *)
(* operator retries every context left pending (docs/architecture.md: the  *)
(* next attempt for the same run resumes).  Crashes are not fair and stop  *)
(* at MaxCrashes.                                                          *)
Retry ==
    /\ WF_vars(RecordValidation \/ AbandonValidation)
    /\ \A p \in Promoters : WF_vars(Statement(p))
    /\ \A p \in Promoters, c \in Contexts : SF_vars(ValidateReport(p, c))
FairSpec == Spec /\ Retry

(* A promotion left pending by a crash is published by a retry, unless a   *)
(* newer batch was published or a later validation withdrew its verdict.   *)
PendingResolves ==
    \A c \in Contexts :
        (\E x \in rows : x.run = c.run /\ x.batch = c.batch /\ x.status = "pending")
          ~> \/ c \in Recorded
             \/ ~NothingNewer(c)
             \/ ~AuditPassed(c)
             \/ report[c.run] # [batch |-> c.batch, passed |-> TRUE]
=============================================================================
