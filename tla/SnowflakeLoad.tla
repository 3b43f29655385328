----------------------------- MODULE SnowflakeLoad -----------------------------
(***************************************************************************)
(* load_silver: the Parquet objects of a run's silver snapshot, downloaded *)
(* to a local directory, staged and copied into the run's raw schema, one  *)
(* entity after another.                                                   *)
(*                                                                         *)
(* The raw session has autocommit off: DDL commits what came before it, a  *)
(* session that ends without a commit loses its last COPY.  The local      *)
(* directory outlives a failed load, and any command of the same run that  *)
(* ends removes it, also under a load.  An object stands for its rows; an  *)
(* object served short is a copy that is not whole and counts no row.      *)
(***************************************************************************)
EXTENDS Integers, FiniteSets

CONSTANTS
    NEntities,  \* entities are loaded in the order 1..NEntities
    NParts,     \* bound: objects per entity and snapshot
    MaxVersion, \* bound: times Spark writes the run's snapshot
    Attempts,   \* download attempts per entity
    Nothing     \* no table, no uncommitted COPY

ASSUME LoadAssumption ==
    /\ NEntities \in Nat \ {0} /\ NParts \in Nat
    /\ MaxVersion \in Nat /\ Attempts \in Nat \ {0}

Entities == 1..NEntities

VARIABLES
    version,    \* how many snapshots Spark has begun to write
    silver,     \* [Entities -> objects]: the run's silver prefix
    writer,     \* the entity Spark is overwriting, 0 when it writes none
    local,      \* [Entities -> copies]: the local download directories
    stage,      \* copies in the internal stage
    tables,     \* [Entities -> copies]: committed raw tables
    copied,     \* the COPY the session has not committed: table and copies
    pc,         \* next step of the load, "idle" when none runs
    entity,     \* the entity being loaded
    attempt,    \* its download attempt
    todo, got,  \* its objects still to download, and downloaded whole
    listed,     \* [Entities -> objects]: what the last listing named
    expected,   \* the row count of the local directory, once downloaded
    loaded      \* the last load returned its row counts

source == <<version, silver, writer>>
control == <<pc, entity, attempt>>
files == <<local, todo, got, listed, expected>>
raw == <<stage, tables, copied>>
vars == <<source, control, files, raw, loaded>>

(* Spark's part files have fresh names in every snapshot it writes.         *)
Objects == [version : 1..MaxVersion, entity : Entities, part : 1..NParts]
Copies == [object : Objects, whole : BOOLEAN]

ASSUME NothingAssumption == Nothing \notin [entity : Entities, copies : SUBSET Copies]

Steps == {"idle", "clear", "schema", "list", "download", "table", "put", "copy", "commit"}

TypeOK ==
    /\ version \in 0..MaxVersion
    /\ silver \in [Entities -> SUBSET Objects]
    /\ writer \in Entities \cup {0}
    /\ local \in [Entities -> SUBSET Copies]
    /\ stage \subseteq Copies
    /\ tables \in [Entities -> (SUBSET Copies) \cup {Nothing}]
    /\ copied \in [entity : Entities, copies : SUBSET Copies] \cup {Nothing}
    /\ pc \in Steps /\ entity \in Entities /\ attempt \in 1..Attempts
    /\ todo \subseteq Objects /\ got \subseteq Objects
    /\ listed \in [Entities -> SUBSET Objects]
    /\ expected \in Nat
    /\ loaded \in BOOLEAN

Init ==
    /\ version = 0
    /\ silver = [e \in Entities |-> {}]
    /\ writer = 0
    /\ local = [e \in Entities |-> {}]
    /\ stage = {}
    /\ tables = [e \in Entities |-> Nothing]
    /\ copied = Nothing
    /\ pc = "idle" /\ entity = 1 /\ attempt = 1
    /\ todo = {} /\ got = {}
    /\ listed = [e \in Entities |-> {}]
    /\ expected = 0
    /\ loaded = FALSE

-----------------------------------------------------------------------------
(* Helpers *)

Whole(objects) == {[object |-> o, whole |-> TRUE] : o \in objects}

(* Faulty variants of the definitions that follow: a download whose size   *)
(* is not checked, files put as they are found, directories not cleared.   *)
SizeMatchesUnchecked(whole) == TRUE
StillLocalUnchecked == TRUE
ClearedNothing == local

Rows(copies) == Cardinality({f \in copies : f.whole})
SizeMatches(whole) == whole
StillLocal == got \subseteq {f.object : f \in local[entity]}
Cleared == [e \in Entities |-> {}]

(* The tables once the session's uncommitted COPY is durable.              *)
Committed == IF copied = Nothing THEN tables
             ELSE [tables EXCEPT ![copied.entity] = copied.copies]

(* The load raises: its variables, its session and the COPY that was not   *)
(* committed are gone.                                                     *)
Raise ==
    /\ pc' = "idle" /\ entity' = 1 /\ attempt' = 1
    /\ todo' = {} /\ got' = {} /\ expected' = 0
    /\ copied' = Nothing

(* A faulty variant of NextEntity: the loop index runs past the end.       *)
NextEntityAlways ==
    /\ pc' = IF entity = NEntities THEN "commit" ELSE "list"
    /\ entity' = entity + 1
    /\ attempt' = 1
    /\ todo' = {} /\ got' = {} /\ expected' = 0

(* The next entity of the loop, or the final commit.                       *)
NextEntity ==
    /\ pc' = IF entity = NEntities THEN "commit" ELSE "list"
    /\ entity' = IF entity = NEntities THEN entity ELSE entity + 1
    /\ attempt' = 1
    /\ todo' = {} /\ got' = {} /\ expected' = 0

-----------------------------------------------------------------------------
(* Actions *)

(* An execution of the run's Spark job overwrites the snapshot, also while *)
(* a load of the same run_id is under way: one entity after another, first *)
(* the old objects go, then the new ones appear, perhaps none.             *)
Overwrite(e) == writer' = e /\ silver' = [silver EXCEPT ![e] = {}]

StartSnapshot ==
    /\ writer = 0 /\ version < MaxVersion
    /\ version' = version + 1
    /\ Overwrite(1)
    /\ UNCHANGED <<control, files, raw, loaded>>

WriteObject(part) ==
    /\ writer # 0
    /\ \A i \in 1..NParts : (\E o \in silver[writer] : o.part = i) <=> i < part
    /\ silver' = [silver EXCEPT ![writer] =
                    @ \cup {[version |-> version, entity |-> writer, part |-> part]}]
    /\ UNCHANGED <<version, writer, control, files, raw, loaded>>

NextTable ==
    /\ writer \in 1..(NEntities - 1)
    /\ Overwrite(writer + 1)
    /\ UNCHANGED <<version, control, files, raw, loaded>>

(* The job ends, or dies and leaves the prefix half written.               *)
EndSnapshot ==
    /\ writer # 0
    /\ writer' = 0
    /\ UNCHANGED <<version, silver, control, files, raw, loaded>>

StartLoad ==
    /\ pc = "idle"
    /\ pc' = "clear" /\ entity' = 1 /\ attempt' = 1
    /\ loaded' = FALSE
    /\ UNCHANGED <<source, files, raw>>

(* shutil.rmtree of what an earlier attempt left.                          *)
ClearLocal ==
    /\ pc = "clear"
    /\ pc' = "schema"
    /\ local' = Cleared
    /\ UNCHANGED <<source, entity, attempt, todo, got, listed, expected, raw, loaded>>

(* CREATE OR REPLACE SCHEMA and STAGE.                                     *)
ReplaceSchema ==
    /\ pc = "schema"
    /\ pc' = "list"
    /\ tables' = [e \in Entities |-> Nothing]
    /\ stage' = {}
    /\ UNCHANGED <<source, entity, attempt, files, copied, loaded>>

(* One page of the object listing (a run's entity fits one).               *)
ListObjects ==
    /\ pc = "list"
    /\ pc' = "download"
    /\ todo' = silver[entity]
    /\ got' = {}
    /\ listed' = [listed EXCEPT ![entity] = silver[entity]]
    /\ UNCHANGED <<source, entity, attempt, local, expected, raw, loaded>>

(* One object arrives, perhaps short.  A wrong size lists and downloads    *)
(* again until the attempts run out; an object that is gone raises.        *)
Download(o, whole) ==
    /\ pc = "download" /\ o \in todo
    /\ \/ /\ o \in silver[entity] /\ SizeMatches(whole)
          /\ todo' = todo \ {o}
          /\ got' = got \cup {o}
          /\ UNCHANGED <<control, copied, expected>>
       \/ /\ o \in silver[entity] /\ ~SizeMatches(whole)
          /\ \/ /\ attempt < Attempts
                /\ pc' = "list" /\ attempt' = attempt + 1
                /\ todo' = {} /\ got' = {}
                /\ UNCHANGED <<entity, copied, expected>>
             \/ attempt = Attempts /\ Raise
       \/ o \notin silver[entity] /\ Raise
    /\ local' = IF o \notin silver[entity] THEN local
                ELSE [local EXCEPT ![entity] =
                        {f \in @ : f.object # o} \cup {[object |-> o, whole |-> whole]}]
    /\ UNCHANGED <<source, stage, tables, listed, loaded>>

(* All listed objects were downloaded: the local rows are counted, which   *)
(* raises without a file.  An entity that listed none gets no table.       *)
EndDownload ==
    /\ pc = "download" /\ todo = {}
    /\ \/ got = {} /\ NextEntity /\ UNCHANGED <<copied>>
       \/ /\ got # {} /\ local[entity] # {}
          /\ expected' = Rows(local[entity])
          /\ pc' = "table" /\ UNCHANGED <<entity, attempt, copied, todo, got>>
       \/ got # {} /\ local[entity] = {} /\ Raise
    /\ UNCHANGED <<source, local, listed, stage, tables, loaded>>

(* CREATE OR REPLACE TABLE commits the COPY of the entity before.          *)
CreateTable ==
    /\ pc = "table"
    /\ pc' = "put"
    /\ tables' = [Committed EXCEPT ![entity] = {}]
    /\ copied' = Nothing
    /\ UNCHANGED <<source, entity, attempt, files, stage, loaded>>

(* Each downloaded file is PUT by its path, which raises when it is gone.  *)
PutFiles ==
    /\ pc = "put"
    /\ stage' = stage \cup {f \in local[entity] : f.object \in got}
    /\ \/ StillLocal /\ pc' = "copy" /\ UNCHANGED <<entity, attempt, copied, todo, got, expected>>
       \/ ~StillLocal /\ Raise
    /\ UNCHANGED <<source, local, listed, tables, loaded>>

(* COPY INTO ... FROM @stage takes all that is staged and purges it; its   *)
(* row count must be the one counted after the download.                   *)
CopyInto ==
    /\ pc = "copy"
    /\ stage' = {}
    /\ \/ /\ Rows(stage) = expected
          /\ copied' = [entity |-> entity, copies |-> stage]
          /\ NextEntity
       \/ /\ Rows(stage) # expected
          /\ Raise
    /\ UNCHANGED <<source, local, listed, tables, loaded>>

CommitLoad ==
    /\ pc = "commit"
    /\ pc' = "idle"
    /\ tables' = Committed
    /\ copied' = Nothing
    /\ loaded' = TRUE
    /\ UNCHANGED <<source, entity, attempt, files, stage>>

(* The process dies between any two steps, or a download finds that its    *)
(* directory was removed.                                                  *)
Crash ==
    /\ pc # "idle"
    /\ Raise
    /\ UNCHANGED <<source, local, listed, stage, tables, loaded>>

(* cleanup_temporary_files, by the DAG's teardown or the end of a backfill *)
(* command, which may share the run with a load under way.  The tree is    *)
(* removed file by file, so a download may come in between.                *)
Cleanup(e, gone) ==
    /\ gone \subseteq local[e]
    /\ local' = [local EXCEPT ![e] = @ \ gone]
    /\ UNCHANGED <<source, control, todo, got, listed, expected, raw, loaded>>

LoadStep ==
    \/ ClearLocal \/ ReplaceSchema \/ ListObjects
    \/ \E o \in todo, whole \in BOOLEAN : Download(o, whole)
    \/ EndDownload \/ CreateTable \/ PutFiles \/ CopyInto \/ CommitLoad

Next ==
    \/ StartSnapshot \/ (\E part \in 1..NParts : WriteObject(part)) \/ NextTable \/ EndSnapshot
    \/ StartLoad \/ LoadStep \/ Crash
    \/ \E e \in Entities : \E gone \in SUBSET local[e] : Cleanup(e, gone)

Spec == Init /\ [][Next]_vars

-----------------------------------------------------------------------------
(* Properties *)

TableOf(objects) == IF objects = {} THEN Nothing ELSE Whole(objects)

(* A load that returned left every raw table with each object of one       *)
(* listing exactly once and whole, and durable: short downloads, retries,  *)
(* what earlier loads left on disk, in the stage or in the schema, files   *)
(* removed under the load and objects that Spark replaces between listing  *)
(* and download never show.  (The listing itself may be of a prefix that   *)
(* Spark has half written: nothing in the code excludes it.)               *)
LoadedIsListed ==
    loaded => \A e \in Entities : tables[e] = TableOf(listed[e])

(* Fairness: a failed load is retried (Airflow, or the operator) and its   *)
(* steps go on; processes stop dying, the object store stops serving short *)
(* objects, other commands of the run stop cleaning up under the load, and *)
(* nobody needs to clean up by hand.                                       *)
Killed == Crash /\ ~LoadStep
Disturbed == pc # "idle" /\ local' # local /\ ~LoadStep
ShortDownload(o) == o \in silver[entity] /\ Download(o, FALSE)

Fairness ==
    /\ <>[][~Killed]_vars
    /\ <>[][~Disturbed]_vars
    /\ <>[][\A o \in todo : ~ShortDownload(o)]_vars
    /\ WF_vars(~loaded /\ StartLoad)
    /\ WF_vars(LoadStep)
FairSpec == Spec /\ Fairness

(* No leftover of a failed load can make every retry fail.                 *)
EventuallyLoaded == pc # "idle" ~> loaded
=============================================================================
