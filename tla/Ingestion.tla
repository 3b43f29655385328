------------------------------- MODULE Ingestion -------------------------------
(***************************************************************************)
(* Ingestion of one entity: an availableNow query drains the topic into    *)
(* bronze and dead-letter files, micro-batch by micro-batch, and a         *)
(* snapshot of everything in bronze follows.  A backfill takes its         *)
(* snapshot from bronze alone, whatever a query is doing meanwhile.        *)
(*                                                                         *)
(* Debezium delivers the messages of the source in order and starts over   *)
(* from an earlier one when it restarts.  Spark plans a micro-batch in the *)
(* offset log, calls foreachBatch, and commits.  The checkpoint belongs to *)
(* the pipeline and topic, the output paths to the run: a query that finds *)
(* a planned, uncommitted batch replays the same offsets under its own     *)
(* run_id.  A path is overwritten by deleting it first, so a crash can     *)
(* leave it empty.                                                         *)
(***************************************************************************)
EXTENDS EventParsing, SourceOrder, FiniteSets

CONSTANTS
    Logs,        \* sequences of messages the source may send; a message has
                 \* its raw record and the result its sender means by it
    Partitions,  \* partitions of the entity's topic
    PartitionOf, \* [Keys \cup {Absent} -> Partitions]: Kafka's partitioner
    Cutoffs,     \* batch cutoffs; a run_id is that of its cutoff
    MaxResends,  \* bound: restarts of the connector
    MaxCrashes,  \* bound: queries that die
    Nothing      \* no process, no planned batch, no snapshot

ASSUME IngestionAssumption ==
    /\ MaxResends \in Nat /\ MaxCrashes \in Nat
    /\ Cutoffs \subseteq Nat
    /\ Partitions \subseteq Nat
    /\ \A l \in Logs : Len(l) \in Nat /\ DOMAIN l = 1..Len(l)
ASSUME SenderAssumption ==  \* every record means what its message carries
    \A l \in Logs : \A i \in DOMAIN l : IsRecord(l[i].raw) /\ Means(l[i].raw, l[i].carries)
ASSUME OrderAssumption ==  \* the source numbers the changes of a key upwards
    \A l \in Logs : \A i, j \in DOMAIN l :
        /\ i < j /\ l[i].carries.kind = "event" /\ l[j].carries.kind = "event"
        /\ l[i].carries.key = l[j].carries.key
        => \/ l[i].carries.lsn < l[j].carries.lsn
           \/ l[i].carries.lsn = l[j].carries.lsn /\ l[i].carries.tx < l[j].carries.tx
ASSUME NothingAssumption == Nothing \notin Nat /\ Nothing \notin [Partitions -> Nat]

VARIABLES
    log,        \* the messages of the source, in commit order
    sent,       \* how many of them Debezium has behind it
    resends,
    topic,      \* [Partitions -> Seq(positions in log)]
    planned,    \* end offsets of the planned batch, Nothing when committed
    committed,  \* end offsets of the last committed batch
    batchId,    \* stream_batch_id of the next batch to commit
    bronze,     \* [run, id, date, rec]: rows of the bronze files
    dead,       \* [run, id, rec, reason]: rows of the dead-letter files
    silver,     \* the last snapshot written, of whichever run
    proc,       \* the Spark process
    crashes

sourceVars == <<log, sent, resends, topic>>
checkpointVars == <<planned, committed, batchId>>
fileVars == <<bronze, dead>>
vars == <<sourceVars, checkpointVars, fileVars, silver, proc, crashes>>

Days == 1..MaxDay
Longest == CHOOSE n \in {Len(l) : l \in Logs} : \A l \in Logs : Len(l) <= n
MaxRecords == Longest * (MaxResends + 1)
ASSUME LongestAssumption == Longest \in Nat /\ \A l \in Logs : Len(l) <= Longest
Offsets == [Partitions -> 0..MaxRecords]
Records == Partitions \X (1..MaxRecords)

(* A snapshot: who wrote it, its rows, and what it stands for: the records *)
(* it read, up to which offsets or for which days.                         *)
Snapshots ==
    [run : Cutoffs, rows : SUBSET Records, read : SUBSET Records,
     end : Days \cup {Nothing}, upto : Offsets]
ASSUME SnapshotsAssumption == Nothing \notin Snapshots

TypeOK ==
    /\ log \in Logs /\ sent \in 0..Len(log) /\ resends \in 0..MaxResends
    /\ topic \in [Partitions -> Seq(DOMAIN log)]
    /\ planned \in Offsets \cup {Nothing}
    /\ committed \in Offsets
    /\ batchId \in Nat
    /\ bronze \subseteq [run : Cutoffs, id : Nat, date : Days, rec : Records]
    /\ \A f \in dead : f.run \in Cutoffs /\ f.id \in Nat /\ f.rec \in Records
    /\ silver \in Snapshots \cup {Nothing}
    /\ proc \in [run : Cutoffs, target : Offsets, date : Days \cup {Nothing},
                 step : {"poll", "parse", "dates", "fill", "commit"},
                 todo : SUBSET Days] \cup {Nothing}
    /\ crashes \in 0..MaxCrashes

Init ==
    /\ log \in Logs /\ sent = 0 /\ resends = 0
    /\ topic = [p \in Partitions |-> <<>>]
    /\ planned = Nothing
    /\ committed = [p \in Partitions |-> 0]
    /\ batchId = 0
    /\ bronze = {}
    /\ dead = {}
    /\ silver = Nothing
    /\ proc = Nothing
    /\ crashes = 0

-----------------------------------------------------------------------------
(* Helpers *)

At(step) == proc # Nothing /\ proc.step = step
Message(rec) == log[topic[rec[1]][rec[2]]]
Below(upto) == {rec \in Records : rec[2] <= upto[rec[1]]}

(* The normalising UDF is a function of the raw record alone, so it is     *)
(* tabulated: what the parser returns, and the event date.                 *)
RawRecords == UNION {{l[i].raw : i \in DOMAIN l} : l \in Logs}
Normalized == [raw \in RawRecords |-> [result |-> Parse(raw), date |-> EventDay(raw)]]
Result(rec) == Normalized[Message(rec).raw].result
DateOf(rec) == Normalized[Message(rec).raw].date
Valid(recs) == {rec \in recs : Result(rec).kind # "malformed"}

(* Faulty variants of the definitions that follow: a day out of range is   *)
(* written as a date, a path without the batch id.                         *)
RaisesNever(recs) == FALSE
AtPathAnyBatch(f, d) == f.run = proc.run /\ f.date = d

(* The records of the planned batch.                                       *)
InBatch == Below(planned) \ Below(committed)
DatesOf(recs) == {DateOf(rec) : rec \in Valid(recs)}
Raises(recs) == \E rec \in recs : DayRaises(DateOf(rec))

(* The bronze files under the run's path for one event date.               *)
AtPath(f, d) == f.run = proc.run /\ f.id = batchId /\ f.date = d

(* The query has processed everything up to its target.                    *)
Drained == planned = Nothing /\ committed = proc.target

(* The rows of a snapshot: bronze rows that are no tombstone and not past  *)
(* the cutoff, ranked by source position; deleted keys leave no row.       *)
EventAt(rec) ==
    LET e == Result(rec) IN
      [key |-> e.key, op |-> e.op, batch |-> e.batch, lsn |-> e.lsn, tx |-> e.tx,
       partition |-> rec[1], offset |-> rec[2]]
Current(cutoff, recs) ==
    LET events == {EventAt(rec) : rec \in {q \in recs : Result(q).kind = "event"}}
        history(k) == {e \in events : e.key = k /\ e.batch <= cutoff}
    IN  {<<e.partition, e.offset>> :
            e \in {e \in UNION {Latest(history(k)) : k \in Keys} : e.op # "d"}}

Snapshot(cutoff, recs, end) ==
    [run |-> cutoff, rows |-> Current(cutoff, recs), read |-> recs, end |-> end,
     upto |-> IF end = Nothing THEN proc.target ELSE committed]

-----------------------------------------------------------------------------
(* Actions *)

(* Debezium appends the next message to the partition of its key.          *)
Produce ==
    /\ sent < Len(log)
    /\ sent' = sent + 1
    /\ LET p == PartitionOf[log[sent + 1].raw.key]
       IN  topic' = [topic EXCEPT ![p] = Append(@, sent + 1)]
    /\ UNCHANGED <<log, resends, checkpointVars, fileVars, silver, proc, crashes>>

(* A restarted connector goes on from a position it had noted earlier.     *)
Resend(n) ==
    /\ n < sent /\ resends < MaxResends
    /\ sent' = n
    /\ resends' = resends + 1
    /\ UNCHANGED <<log, topic, checkpointVars, fileVars, silver, proc, crashes>>

(* A faulty variant of StartQuery: it asks for no more than was committed. *)
StartQueryStale(r) ==
    /\ proc = Nothing
    /\ proc' = [run |-> r, target |-> committed, step |-> "poll",
                date |-> Nothing, todo |-> {}]
    /\ UNCHANGED <<sourceVars, checkpointVars, fileVars, silver, crashes>>

(* A run starts the query; availableNow fixes the end offsets.             *)
StartQuery(r) ==
    /\ proc = Nothing
    /\ proc' = [run |-> r, target |-> [p \in Partitions |-> Len(topic[p])],
                step |-> "poll", date |-> Nothing, todo |-> {}]
    /\ UNCHANGED <<sourceVars, checkpointVars, fileVars, silver, crashes>>

(* A batch that was planned and never committed is executed again.         *)
Replay ==
    /\ At("poll") /\ planned # Nothing
    /\ proc' = [proc EXCEPT !.step = "parse"]
    /\ UNCHANGED <<sourceVars, checkpointVars, fileVars, silver, crashes>>

Plan ==
    /\ At("poll") /\ planned = Nothing /\ committed # proc.target
    /\ planned' = proc.target
    /\ proc' = [proc EXCEPT !.step = "parse"]
    /\ UNCHANGED <<sourceVars, committed, batchId, fileVars, silver, crashes>>

(* Collecting the event dates parses every record of the batch; one whose  *)
(* day cannot be represented fails the query.                              *)
ParseBatch ==
    /\ At("parse")
    /\ proc' = IF Raises(InBatch) THEN Nothing
               ELSE [proc EXCEPT !.step = "dates", !.todo = DatesOf(InBatch)]
    /\ UNCHANGED <<sourceVars, checkpointVars, fileVars, silver, crashes>>

(* The overwrite of the run's path for one event date: delete, then write. *)
ClearDate(d) ==
    /\ At("dates") /\ d \in proc.todo
    /\ bronze' = {f \in bronze : ~AtPath(f, d)}
    /\ proc' = [proc EXCEPT !.step = "fill", !.date = d, !.todo = @ \ {d}]
    /\ UNCHANGED <<sourceVars, checkpointVars, dead, silver, crashes>>

FillDate ==
    /\ At("fill")
    /\ bronze' = bronze \cup
         {[run |-> proc.run, id |-> batchId, date |-> proc.date, rec |-> rec] :
            rec \in {rec \in Valid(InBatch) : DateOf(rec) = proc.date}}
    /\ proc' = [proc EXCEPT !.step = "dates", !.date = Nothing]
    /\ UNCHANGED <<sourceVars, checkpointVars, dead, silver, crashes>>

(* Malformed records of the batch go to the run's dead-letter path, one    *)
(* per stream batch; its delete and write count as one step.               *)
WriteDeadLetters ==
    /\ At("dates") /\ proc.todo = {}
    /\ LET bad == InBatch \ Valid(InBatch) IN
         dead' = IF bad = {} THEN dead
                 ELSE {f \in dead : ~(f.run = proc.run /\ f.id = batchId)}
                        \cup {[run |-> proc.run, id |-> batchId, rec |-> rec,
                               reason |-> Result(rec).reason] : rec \in bad}
    /\ proc' = [proc EXCEPT !.step = "commit"]
    /\ UNCHANGED <<sourceVars, checkpointVars, bronze, silver, crashes>>

CommitBatch ==
    /\ At("commit")
    /\ committed' = planned
    /\ planned' = Nothing
    /\ batchId' = batchId + 1
    /\ proc' = [proc EXCEPT !.step = "poll"]
    /\ UNCHANGED <<sourceVars, fileVars, silver, crashes>>

(* A faulty variant of WriteSnapshot: it reads its own run's files only.   *)
WriteSnapshotOwnRun ==
    /\ At("poll") /\ Drained
    /\ silver' = Snapshot(proc.run, {f.rec : f \in {f \in bronze : f.run = proc.run}}, Nothing)
    /\ proc' = Nothing
    /\ UNCHANGED <<sourceVars, checkpointVars, fileVars, crashes>>

(* The query has drained its target; the snapshot reads all of bronze.     *)
WriteSnapshot ==
    /\ At("poll") /\ Drained
    /\ silver' = Snapshot(proc.run, {f.rec : f \in bronze}, Nothing)
    /\ proc' = Nothing
    /\ UNCHANGED <<sourceVars, checkpointVars, fileVars, crashes>>

(* A faulty variant of InInterval: a backfill reads whatever day there is. *)
InAnyInterval(f, end) == TRUE
InInterval(f, end) == f.date <= end

(* BRONZE_BACKFILL: a process of its own that reads bronze up to a day.    *)
Backfill(r, end) ==
    /\ silver' = Snapshot(r, {f.rec : f \in {f \in bronze : InInterval(f, end)}}, end)
    /\ UNCHANGED <<sourceVars, checkpointVars, fileVars, proc, crashes>>

Crash ==
    /\ proc # Nothing
    /\ crashes < MaxCrashes
    /\ crashes' = crashes + 1
    /\ proc' = Nothing
    /\ UNCHANGED <<sourceVars, checkpointVars, fileVars, silver>>

Step ==
    \/ Replay \/ Plan \/ ParseBatch
    \/ \E d \in Days : ClearDate(d)
    \/ FillDate \/ WriteDeadLetters \/ CommitBatch \/ WriteSnapshot

Next ==
    \/ Produce
    \/ \E n \in 0..Longest : Resend(n)
    \/ \E r \in Cutoffs : StartQuery(r)
    \/ Step
    \/ \E r \in Cutoffs, end \in Days : Backfill(r, end)
    \/ Crash

Spec == Init /\ [][Next]_vars

-----------------------------------------------------------------------------
(* Properties *)

(* An offset is committed only once its record is durable and taken for    *)
(* what its sender means: a change or tombstone in bronze under its own    *)
(* day, a damaged record in the dead letters with the reason of its        *)
(* damage, never in both.  No crash, replay, reused path, half-done        *)
(* overwrite or slip of the parser loses or distorts a change event.       *)
NothingLost ==
    \A rec \in Below(committed) :
        LET carries == Message(rec).carries
            kept == {f \in bronze : f.rec = rec}
            refused == {f \in dead : f.rec = rec}
        IN  IF carries.kind = "malformed"
            THEN kept = {} /\ \E f \in refused : f.reason = carries.reason
            ELSE /\ refused = {} /\ Result(rec) = carries
                 /\ \E f \in kept : f.date = DateOf(rec)

(* A snapshot reads, per partition, exactly the valid records up to the    *)
(* offsets its run found when it started: duplicates from replays aside,   *)
(* it sees a prefix of the topic without gaps and without stray records of *)
(* batches that never committed.                                           *)
OfQuery == silver # Nothing /\ silver.end = Nothing
OfBackfill == silver # Nothing /\ silver.end # Nothing
SnapshotReadsPrefix ==
    OfQuery => silver.read = Valid(Below(silver.upto))

(* The last message about a key that counts for a cutoff, in the order of  *)
(* the source and among those delivered to a set of offsets.               *)
Changes(key, cutoff, upto) ==
    {topic[rec[1]][rec[2]] : rec \in
        {rec \in Below(upto) :
            LET c == Message(rec).carries IN
              c.kind = "event" /\ c.key = key /\ c.batch <= cutoff}}
LastChange(key, cutoff, upto) ==
    {i \in Changes(key, cutoff, upto) : \A j \in Changes(key, cutoff, upto) : j <= i}

(* However often the connector starts over and delivers old changes after  *)
(* newer ones, and whatever a query or an earlier run replayed, the rows   *)
(* of a snapshot are, key by key, the last change the source made among    *)
(* those delivered, and no row where that was a delete.                    *)
SnapshotShowsLastChange ==
    OfQuery =>
        {topic[rec[1]][rec[2]] : rec \in silver.rows} =
            UNION {{i \in LastChange(k, silver.run, silver.upto) : log[i].carries.op # "d"} :
                     k \in Keys}

(* A backfill that reads bronze while a query deletes and refills paths    *)
(* misses nothing that was committed for the days it asks for.             *)
BackfillCoversCommitted ==
    OfBackfill =>
        {rec \in Valid(Below(silver.upto)) : DateOf(rec) <= silver.end}
            \subseteq silver.read

(* All of it implements the archive: no step of a query, a connector, a    *)
(* crash or a replay forgets, skips or reorders what was committed, and    *)
(* every snapshot, a backfill's beside a running query too, shows the last *)
(* changes among the messages it stands for.                               *)
Positions(recs) == {topic[rec[1]][rec[2]] : rec \in recs}
Messages ==
    [i \in DOMAIN log |->
        [partition |-> PartitionOf[log[i].raw.key], carries |-> log[i].carries,
         day |-> Normalized[log[i].raw].date]]
Shown ==
    IF silver = Nothing THEN Nothing
    ELSE [run |-> silver.run, end |-> silver.end, rows |-> Positions(silver.rows)]
Promise == INSTANCE Archive WITH
    log <- Messages, drained <- Positions(Below(committed)), silver <- Shown
ImplementsArchive == Promise!Spec

(* Fairness: runs are scheduled forever and a started query keeps going;   *)
(* crashes are not fair.                                                   *)
FairSpec == Spec /\ WF_vars(Step) /\ WF_vars(\E r \in Cutoffs : StartQuery(r))

(* However far the source runs ahead, ingestion catches up with what is in *)
(* Kafka (the source sends finitely much), through crashes and through     *)
(* runs with other ids, unless a record on which the job raises is in the  *)
(* planned batch: such a batch is replayed for ever.                       *)
CaughtUp == \A p \in Partitions : committed[p] = Len(topic[p])
Poisoned == planned # Nothing /\ Raises(InBatch)
EventuallyCommitted == []<>(CaughtUp \/ Poisoned)
=============================================================================
