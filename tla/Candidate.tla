------------------------------- MODULE Candidate -------------------------------
(***************************************************************************)
(* Pipeline runs over the source: Spark's silver snapshot, the dbt merge   *)
(* into the candidate mart, reconciliation against source history, the dbt *)
(* count test and publication, as the Airflow DAG and the backfill-run     *)
(* command execute them, for one table with its mart.                      *)
(*                                                                         *)
(* A run is identified by its batch cutoff (stable_run_id), so executing   *)
(* it again meets the silver prefix, candidate schema and audit row of the *)
(* earlier execution.  Change events reach bronze through Kafka            *)
(* partitions that may lag each other; a key always maps to one partition. *)
(***************************************************************************)
EXTENDS SourceHistory

CONSTANTS
    Execs,          \* executions that can be under way: DAG run, commands
    Partition,      \* [Keys -> partition] of the table's topic
    Repeat,         \* TRUE: a run may be executed again after it was published,
                    \* or by two executions at once; nothing in the code
                    \* prevents it
    AnyCutoff,      \* TRUE: a run may name a batch that is not complete;
                    \* backfill-run takes any --batch-id unchecked
    NotBuilt        \* silver or mart that does not exist

ASSUME PartitionAssumption == DOMAIN Partition = Keys
ASSUME RepeatAssumption == Repeat \in BOOLEAN /\ AnyCutoff \in BOOLEAN

VARIABLES
    bronze,     \* log positions whose events have reached bronze
    silver,     \* [Batches -> rows]: the run's silver snapshot
    mart,       \* [Batches -> rows]: the run's candidate mart table
    audit,      \* [Batches -> verdict]: validation_runs
    exec,       \* [Execs -> [step, run]]
    recorded,   \* the runs in publication_runs
    shown       \* the run the stable views select from, 0 before the first

pipelineVars == <<bronze, silver, mart, audit, exec, recorded, shown>>
vars == <<sourceVars, pipelineVars>>

Rows == [Keys -> [batch : Batches, ver : 1..MaxChanges] \cup {Absent}]
ASSUME NotBuiltAssumption == NotBuilt \notin Rows
ExecSteps == {"idle", "spark", "build", "validate", "test", "promote"}

TypeOK ==
    /\ SourceTypeOK
    /\ bronze \subseteq DOMAIN log
    /\ silver \in [Batches -> Rows \cup {NotBuilt}]
    /\ mart \in [Batches -> Rows \cup {NotBuilt}]
    /\ audit \in [Batches -> {"none", "passed", "failed"}]
    /\ exec \in [Execs -> [step : ExecSteps, run : Batches \cup {0}]]
    /\ recorded \subseteq Batches
    /\ shown \in Batches \cup {0}

Idle == [step |-> "idle", run |-> 0]

Init ==
    /\ SourceInit
    /\ bronze = {}
    /\ silver = [b \in Batches |-> NotBuilt]
    /\ mart = [b \in Batches |-> NotBuilt]
    /\ audit = [b \in Batches |-> "none"]
    /\ exec = [e \in Execs |-> Idle]
    /\ recorded = {}
    /\ shown = 0

-----------------------------------------------------------------------------
(* Helpers *)

Present(rows) == {k \in Keys : rows[k] # Absent}

(* A set of positions a topic can have delivered: no gap in a partition.   *)
Delivered(read) ==
    \A i \in read : \A j \in 1..i :
        Partition[log[j].key] = Partition[log[i].key] => j \in read

(* Faulty variants of the definitions that follow: a merge filter with >,  *)
(* a gate that takes the newest cutoff, a context that is not reset.       *)
MergeStrict(old, new) ==
    [k \in Keys |->
        IF /\ new[k] # Absent
           /\ \A j \in Present(old) : old[j].batch < new[k].batch
        THEN new[k] ELSE old[k]]
ReconcilesNewest(b) ==
    /\ silver[b] # NotBuilt /\ Present(silver[b]) # {}
    /\ silver[b] = HistoryAt(NBatches)
FinishWithoutReset(e) == exec' = [exec EXCEPT ![e].step = "finished"]

(* The incremental merge of dim_* and fact_*: rows whose source batch is   *)
(* at least the greatest one in the table are upserted; none are deleted.  *)
Merge(old, new) ==
    [k \in Keys |->
        IF /\ new[k] # Absent
           /\ \A j \in Present(old) : old[j].batch <= new[k].batch
        THEN new[k] ELSE old[k]]

(* Every check of every entity passes: there are rows (non_empty, as no    *)
(* entity sets allow_empty) and the two sets of rows are equal.            *)
Reconciles(b) ==
    /\ silver[b] # NotBuilt /\ Present(silver[b]) # {}
    /\ silver[b] = HistoryAt(b)

On(e, step) == exec[e].step = step
GoTo(e, step) == exec' = [exec EXCEPT ![e].step = step]
Finish(e) == exec' = [exec EXCEPT ![e] = Idle]

-----------------------------------------------------------------------------
(* Actions *)

(* A DAG run captures the newest completed batch, a backfill-run command   *)
(* names one; the run may have been executed before.                       *)
Start(e, b) ==
    /\ On(e, "idle")
    /\ AnyCutoff \/ state[b] = "completed"
    /\ Repeat \/ (b \notin recorded /\ \A f \in Execs : exec[f].run # b)
    /\ exec' = [exec EXCEPT ![e] = [step |-> "spark", run |-> b]]
    /\ UNCHANGED <<sourceVars, bronze, silver, mart, audit, recorded, shown>>

(* Spark drains what each partition has available into bronze, then        *)
(* overwrites the run's silver snapshot.  A backfill drains nothing.       *)
Spark(e) ==
    /\ On(e, "spark")
    /\ \E read \in SUBSET DOMAIN log :
         /\ bronze \subseteq read /\ Delivered(read)
         /\ bronze' = read
         /\ silver' = [silver EXCEPT ![exec[e].run] = SilverAt(exec[e].run, read)]
    /\ GoTo(e, "build")
    /\ UNCHANGED <<sourceVars, mart, audit, recorded, shown>>

(* dbt build: the first build fills the mart, a later one merges.          *)
Build(e) ==
    /\ On(e, "build")
    /\ LET b == exec[e].run IN
         /\ silver[b] # NotBuilt
         /\ mart' = [mart EXCEPT ![b] =
                       IF @ = NotBuilt THEN silver[b] ELSE Merge(@, silver[b])]
    /\ GoTo(e, "validate")
    /\ UNCHANGED <<sourceVars, bronze, silver, audit, recorded, shown>>

(* A faulty variant of Validate: a verdict, once recorded, is kept.        *)
ValidateOnce(e) ==
    /\ On(e, "validate")
    /\ LET b == exec[e].run
           passes == IF audit[b] = "none" THEN Reconciles(b) ELSE audit[b] = "passed"
       IN  /\ audit' = [audit EXCEPT ![b] = IF passes THEN "passed" ELSE "failed"]
           /\ IF passes THEN GoTo(e, "test") ELSE UNCHANGED exec
    /\ UNCHANGED <<sourceVars, bronze, silver, mart, recorded, shown>>

(* Reconciliation compares the validation_* views, which select from the   *)
(* silver snapshot, with source history; a mismatch fails the task, which  *)
(* may be executed again where it stands (a retry, a cleared task).        *)
Validate(e) ==
    /\ On(e, "validate")
    /\ LET b == exec[e].run
       IN  /\ audit' = [audit EXCEPT ![b] = IF Reconciles(b) THEN "passed" ELSE "failed"]
           /\ IF Reconciles(b) THEN GoTo(e, "test") ELSE UNCHANGED exec
    /\ UNCHANGED <<sourceVars, bronze, silver, mart, recorded, shown>>

(* The dbt test reconcile_entity_counts: silver and mart row counts agree. *)
CountsAgree(b) ==
    /\ silver[b] # NotBuilt /\ mart[b] # NotBuilt
    /\ Cardinality(Present(silver[b])) = Cardinality(Present(mart[b]))

Test(e) ==
    /\ On(e, "test")
    /\ CountsAgree(exec[e].run)
    /\ GoTo(e, "promote")
    /\ UNCHANGED <<sourceVars, bronze, silver, mart, audit, recorded, shown>>

(* The promotion transaction: gates, views, record.                        *)
Promote(e) ==
    /\ On(e, "promote")
    /\ LET b == exec[e].run
           authorized == /\ audit[b] = "passed"
                         /\ \A r \in recorded : r <= b
                         /\ b \notin recorded
                         /\ mart[b] # NotBuilt
       IN  /\ shown' = IF authorized THEN b ELSE shown
           /\ recorded' = IF authorized THEN recorded \cup {b} ELSE recorded
    /\ Finish(e)
    /\ UNCHANGED <<sourceVars, bronze, silver, mart, audit>>

(* A task fails or its process dies before it changes anything; whoever    *)
(* retries starts the run again.                                           *)
Abandon(e) ==
    /\ ~On(e, "idle")
    /\ Finish(e)
    /\ UNCHANGED <<sourceVars, bronze, silver, mart, audit, recorded, shown>>

(* docs/runbook.md, "Rebuild a candidate": the operator removes the        *)
(* candidate schema and silver prefix of a run that is not published.      *)
RemoveCandidate(b) ==
    /\ b \notin recorded
    /\ \A e \in Execs : On(e, "idle")
    /\ mart[b] # NotBuilt
    /\ mart' = [mart EXCEPT ![b] = NotBuilt]
    /\ silver' = [silver EXCEPT ![b] = NotBuilt]
    /\ UNCHANGED <<sourceVars, bronze, audit, exec, recorded, shown>>

Next ==
    \/ SourceNext /\ UNCHANGED pipelineVars
    \/ \E e \in Execs :
         \/ \E b \in Batches : Start(e, b)
         \/ Spark(e)
         \/ Build(e)
         \/ Validate(e)
         \/ Test(e)
         \/ Promote(e)
         \/ Abandon(e)
    \/ \E b \in Batches : RemoveCandidate(b)

Spec == Init /\ [][Next]_vars

-----------------------------------------------------------------------------
(* Properties *)

(* What readers of the stable views see is the source as of the published  *)
(* batch, although the gate compares silver and never reads the mart: the  *)
(* merge filter and the count test must close the gap.                     *)
PublishedMatchesSource == shown # 0 => mart[shown] = HistoryAt(shown)

(* The stable views select from the candidate's own table, so an execution *)
(* that repeats a published run must not change what readers see.          *)
PublishedIsStable ==
    [][shown # 0 /\ shown' = shown => mart[shown] = (mart[shown])']_vars

(* The data of the run at cutoff b is what its source says: every event of *)
(* the cutoff has arrived, and whatever has been built is that history.    *)
Arrived(b) == \A i \in DOMAIN log : log[i].rowBatch <= b => i \in bronze
UpToDate(b) ==
    /\ Closed(b) /\ Arrived(b)
    /\ SilverAt(b, DOMAIN log) = HistoryAt(b)
    /\ silver[b] \in {NotBuilt, HistoryAt(b)}
    /\ mart[b] \in {NotBuilt, HistoryAt(b)}

(* Data that is right stays right: no later batch, lagging partition,      *)
(* other run, or repeated, failing or removed execution of this one, at    *)
(* whatever cutoffs they are run, takes a true candidate away from its     *)
(* source.                                                                 *)
CandidateStaysTrue ==
    [][\A b \in Batches : UpToDate(b) => UpToDate(b)']_vars

(* A published run whose data is right keeps its verdict, its data and its *)
(* table although the run is executed and validated again, by whoever and  *)
(* however often.                                                          *)
Stands(b) == UpToDate(b) /\ Present(HistoryAt(b)) # {} /\ audit[b] = "passed"
PublishedStands ==
    [][\A b \in recorded : Stands(b) => Stands(b)' /\ mart'[b] = mart[b]]_vars

(* Fairness: tasks are not killed forever; each publishable run is         *)
(* executed again and again until it is (the schedule, or an operator who  *)
(* retries), every task ends, a run whose task fails for good is given up, *)
(* Spark at some point finds all the events that were delivered, and a     *)
(* candidate whose count test fails although its verdict passed is removed *)
(* as the runbook says.                                                    *)
Publishable(b) ==
    /\ Closed(b) /\ Present(HistoryAt(b)) # {}
    /\ SilverAt(b, DOMAIN log) = HistoryAt(b)
RebuildNeeded(b) == audit[b] = "passed" /\ ~CountsAgree(b)
Failed(e) ==
    \/ On(e, "validate") /\ ~Reconciles(exec[e].run)
    \/ On(e, "test") /\ ~CountsAgree(exec[e].run)
GiveUp(e) == Failed(e) /\ Abandon(e)
Killed(e) == ~Failed(e) /\ Abandon(e) /\ ~Promote(e)

Fairness ==
    /\ <>[][\A e \in Execs : ~Killed(e)]_vars
    /\ \A e \in Execs :
         /\ \A b \in Batches : SF_vars(On(e, "idle") /\ Publishable(b) /\ Start(e, b))
         /\ WF_vars(Build(e) \/ Validate(e) \/ Test(e) \/ Promote(e) \/ GiveUp(e))
         /\ SF_vars(Spark(e) /\ bronze' = DOMAIN log)
    /\ SF_vars(\E b \in Batches : RebuildNeeded(b) /\ RemoveCandidate(b))
FairSpec == Spec /\ Fairness

(* Every closed batch that leaves rows in the table, and whose events say  *)
(* what its history says, is eventually covered by a publication, whatever *)
(* lag its first executions met and whatever else is run meanwhile.        *)
EventuallyPublished ==
    []<>(\A b \in Batches : Publishable(b) => \E r \in recorded : r >= b)
=============================================================================
