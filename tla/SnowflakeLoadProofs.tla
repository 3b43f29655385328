-------------------------- MODULE SnowflakeLoadProofs --------------------------
(***************************************************************************)
(* A load that returned left exactly one listing of each entity, for every *)
(* number of entities, objects, snapshots and download attempts.           *)
(***************************************************************************)
EXTENDS SnowflakeLoad, FiniteSetTheorems, TLAPS

USE LoadAssumption

(* An entity's local directory holds finitely many files, which are        *)
(* counted, and the objects Spark writes belong to a snapshot it began.    *)
FiniteDirectories == \A e \in Entities : IsFiniteSet(local[e])
WriterHasVersion == writer # 0 => version > 0
Types == TypeOK /\ FiniteDirectories /\ WriterHasVersion

(* What the entities before this one have is durable, or will be with the  *)
(* session's next commit; the entities after it have no table yet.         *)
EarlierLoaded ==
    /\ pc \in {"clear", "schema"} => entity = 1
    /\ pc \in {"list", "download", "table", "put", "copy"} =>
         \A d \in 1..(entity - 1) : Committed[d] = TableOf(listed[d])
    /\ pc = "commit" => \A d \in Entities : Committed[d] = TableOf(listed[d])
LaterEmpty ==
    /\ pc \in {"list", "download"} =>
         \A d \in entity..NEntities : Committed[d] = Nothing
    /\ pc \in {"table", "put", "copy"} =>
         \A d \in (entity + 1)..NEntities : Committed[d] = Nothing

(* The session has at most the COPY of the entity before, and none before  *)
(* the first statement or while a table waits for its own.                 *)
NothingCopied ==
    pc \in {"idle", "clear", "schema", "put", "copy"} => copied = Nothing

(* The entity's files: the listing is what is downloaded or still to be,   *)
(* and a file that counts as downloaded is whole while it is there.        *)
Files ==
    /\ pc = "download" => listed[entity] = got \cup todo
    /\ pc \in {"table", "put", "copy"} => got = listed[entity] /\ got # {}
    /\ pc \in {"download", "table", "put"} =>
         \A f \in local[entity] : f.object \in got => f.whole
Stage ==
    /\ pc \in {"list", "download", "table", "put", "commit"} => stage = {}
    /\ pc = "copy" => stage = Whole(got)

Finished == loaded => pc = "idle" /\ LoadedIsListed

LInv ==
    /\ Types /\ EarlierLoaded /\ LaterEmpty /\ NothingCopied
    /\ Files /\ Stage /\ Finished

-----------------------------------------------------------------------------
(* Lemmas on the operators *)

LEMMA WholeType == ASSUME NEW objects, objects \subseteq Objects PROVE Whole(objects) \subseteq Copies
<1>1. \A o \in objects : [object |-> o, whole |-> TRUE] \in Copies
  BY DEF Copies
<1>2. QED
  BY <1>1 DEF Whole

(* A row count is a number.                                                *)
LEMMA RowsType == ASSUME NEW copies, IsFiniteSet(copies) PROVE Rows(copies) \in Nat
<1>1. IsFiniteSet({f \in copies : f.whole})
  BY FS_Subset
<1>2. QED
  BY <1>1, FS_CardinalityType DEF Rows

LEMMA CommittedType ==
    ASSUME TypeOK PROVE Committed \in [Entities -> (SUBSET Copies) \cup {Nothing}]
<1>1. CASE copied = Nothing
  BY <1>1 DEF TypeOK, Committed
<1>2. CASE copied # Nothing
  <2>1. copied.entity \in Entities /\ copied.copies \in SUBSET Copies
    BY <1>2 DEF TypeOK
  <2>2. QED
    BY <1>2, <2>1 DEF TypeOK, Committed
<1>3. QED
  BY <1>1, <1>2

LEMMA InitLInv == Init => LInv
<1> SUFFICES ASSUME Init PROVE LInv
  OBVIOUS
<1>1. FiniteDirectories
  BY FS_EmptySet DEF Init, FiniteDirectories
<1>2. TypeOK
  <2>1. 1 \in Entities /\ 1 \in 1..Attempts /\ 0 \in 0..MaxVersion /\ "idle" \in Steps
    BY DEF Entities, Steps
  <2>2. QED
    BY <2>1 DEF Init, TypeOK
<1>3. QED
  BY <1>1, <1>2
     DEF Init, LInv, Types, WriterHasVersion, EarlierLoaded, LaterEmpty, NothingCopied, Files, Stage, Finished

-----------------------------------------------------------------------------
(* The types *)

(* Spark's steps, which change nothing but the snapshot.                   *)
SparkStep ==
    \/ StartSnapshot \/ (\E part \in 1..NParts : WriteObject(part)) \/ NextTable \/ EndSnapshot

LEMMA SparkStepTypes ==
    ASSUME Types, SparkStep
    PROVE  /\ version' \in 0..MaxVersion /\ silver' \in [Entities -> SUBSET Objects]
           /\ writer' \in Entities \cup {0} /\ WriterHasVersion'
           /\ UNCHANGED <<control, files, raw, loaded>>
<1> USE DEF Types, WriterHasVersion
<1>1. CASE StartSnapshot
  BY <1>1 DEF StartSnapshot, Overwrite, TypeOK, Entities
<1>2. ASSUME NEW part \in 1..NParts, WriteObject(part)
      PROVE  silver' \in [Entities -> SUBSET Objects]
  <2>1. writer \in Entities /\ version \in 1..MaxVersion
    BY <1>2 DEF WriteObject, TypeOK
  <2>2. [version |-> version, entity |-> writer, part |-> part] \in Objects
    BY <2>1 DEF Objects
  <2>3. QED
    BY <1>2, <2>1, <2>2 DEF WriteObject, TypeOK
<1>3. CASE NextTable
  BY <1>3 DEF NextTable, Overwrite, TypeOK, Entities
<1>4. CASE EndSnapshot
  BY <1>4 DEF EndSnapshot, TypeOK
<1>5. QED
  BY <1>1, <1>2, <1>3, <1>4 DEF SparkStep, WriteObject, TypeOK

LEMMA DownloadTypes ==
    ASSUME Types, NEW o \in todo, NEW whole \in BOOLEAN, Download(o, whole)
    PROVE  /\ local' \in [Entities -> SUBSET Copies]
           /\ FiniteDirectories'
<1>1. [object |-> o, whole |-> whole] \in Copies /\ entity \in Entities
  BY DEF Types, TypeOK, Copies
<1>2. CASE local' = local
  BY <1>2 DEF Types, TypeOK, FiniteDirectories
<1>3. CASE local' = [local EXCEPT ![entity] =
                       {f \in @ : f.object # o} \cup {[object |-> o, whole |-> whole]}]
  <2> DEFINE kept == {f \in local[entity] : f.object # o}
             now == kept \cup {[object |-> o, whole |-> whole]}
  <2>1. IsFiniteSet(kept)
    BY <1>1, FS_Subset DEF Types, FiniteDirectories
  <2>2. IsFiniteSet(now)
    BY <2>1, FS_AddElement
  <2>3. local' = [local EXCEPT ![entity] = now] /\ now \in SUBSET Copies
    BY <1>1, <1>3 DEF Types, TypeOK
  <2> HIDE DEF now
  <2>4. QED
    BY <1>1, <2>2, <2>3 DEF Types, TypeOK, FiniteDirectories
<1>4. QED
  BY <1>2, <1>3 DEF Download

LEMMA NextTypes == Types /\ [Next]_vars => Types'
<1> SUFFICES ASSUME Types, [Next]_vars PROVE Types'
  OBVIOUS
<1> USE DEF Types, WriterHasVersion, source, control, files, raw
<1>1. CASE SparkStep
  BY <1>1, SparkStepTypes DEF TypeOK, FiniteDirectories
<1>2. CASE StartLoad
  <2>1. 1 \in Entities /\ 1 \in 1..Attempts
    BY DEF Entities
  <2>2. QED
    BY <1>2, <2>1 DEF StartLoad, TypeOK, FiniteDirectories, Steps
<1>3. CASE ClearLocal
  BY <1>3, FS_EmptySet DEF ClearLocal, Cleared, TypeOK, FiniteDirectories, Steps
<1>4. CASE ReplaceSchema
  BY <1>4 DEF ReplaceSchema, TypeOK, FiniteDirectories, Steps
<1>5. CASE ListObjects
  BY <1>5 DEF ListObjects, TypeOK, FiniteDirectories, Steps
<1>6. ASSUME NEW o \in todo, NEW whole \in BOOLEAN, Download(o, whole)
      PROVE  Types'
  <2>1. local' \in [Entities -> SUBSET Copies] /\ FiniteDirectories'
    BY <1>6, DownloadTypes
  <2>2. /\ pc' \in Steps /\ entity' \in Entities /\ attempt' \in 1..Attempts
        /\ todo' \subseteq Objects /\ got' \subseteq Objects
        /\ copied' \in [entity : Entities, copies : SUBSET Copies] \cup {Nothing}
        /\ expected' \in Nat
    BY <1>6 DEF Download, Raise, TypeOK, Steps, Entities
  <2>3. UNCHANGED <<source, stage, tables, listed, loaded>>
    BY <1>6 DEF Download
  <2>4. QED
    BY <2>1, <2>2, <2>3 DEF TypeOK
<1>7. CASE EndDownload
  <2>1. expected' \in Nat
    BY <1>7, RowsType DEF EndDownload, NextEntity, Raise, TypeOK, FiniteDirectories
  <2>2. /\ pc' \in Steps /\ entity' \in Entities /\ attempt' \in 1..Attempts
        /\ copied' \in [entity : Entities, copies : SUBSET Copies] \cup {Nothing}
        /\ todo' \subseteq Objects /\ got' \subseteq Objects
    BY <1>7 DEF EndDownload, NextEntity, Raise, TypeOK, Steps, Entities
  <2>3. UNCHANGED <<source, local, listed, stage, tables, loaded>>
    BY <1>7 DEF EndDownload
  <2>4. QED
    BY <2>1, <2>2, <2>3 DEF TypeOK, FiniteDirectories
<1>8. CASE CreateTable
  BY <1>8, CommittedType DEF CreateTable, TypeOK, FiniteDirectories, Steps
<1>9. CASE PutFiles
  BY <1>9 DEF PutFiles, Raise, TypeOK, FiniteDirectories, Steps, Entities
<1>10. CASE CopyInto
  <2>1. /\ pc' \in Steps /\ entity' \in Entities /\ attempt' \in 1..Attempts
        /\ copied' \in [entity : Entities, copies : SUBSET Copies] \cup {Nothing}
        /\ stage' = {} /\ todo' \subseteq Objects /\ got' \subseteq Objects /\ expected' \in Nat
    BY <1>10 DEF CopyInto, NextEntity, Raise, TypeOK, Steps, Entities
  <2>2. UNCHANGED <<source, local, listed, tables, loaded>>
    BY <1>10 DEF CopyInto
  <2>3. QED
    BY <2>1, <2>2 DEF TypeOK, FiniteDirectories
<1>11. CASE CommitLoad
  BY <1>11, CommittedType DEF CommitLoad, TypeOK, FiniteDirectories, Steps
<1>12. CASE Crash
  <2>1. 1 \in Entities /\ 1 \in 1..Attempts /\ "idle" \in Steps
    BY DEF Entities, Steps
  <2>2. QED
    BY <1>12, <2>1 DEF Crash, Raise, TypeOK, FiniteDirectories
<1>13. ASSUME NEW e \in Entities, NEW gone \in SUBSET local[e], Cleanup(e, gone)
       PROVE  Types'
  <2>1. local' \in [Entities -> SUBSET Copies]
    BY <1>13 DEF Cleanup, TypeOK
  <2>2. \A d \in Entities : local'[d] \subseteq local[d]
    BY <1>13 DEF Cleanup, TypeOK
  <2>3. FiniteDirectories'
    BY <2>2, FS_Subset DEF FiniteDirectories
  <2>4. QED
    BY <1>13, <2>1, <2>3 DEF Cleanup, TypeOK
<1>14. CASE UNCHANGED vars
  BY <1>14 DEF vars, TypeOK, FiniteDirectories
<1>15. QED
  BY <1>1, <1>2, <1>3, <1>4, <1>5, <1>6, <1>7, <1>8, <1>9, <1>10, <1>11, <1>12, <1>13, <1>14
     DEF Next, LoadStep, SparkStep

(* The variables keep their types, whatever is cleaned up, served short or *)
(* rewritten under a load.                                                 *)
THEOREM LoadTypeCorrect == Spec => []TypeOK
<1>1. Init => Types
  BY InitLInv DEF LInv
<1>2. Types => TypeOK
  BY DEF Types
<1>3. QED
  BY <1>1, <1>2, NextTypes, PTL DEF Spec
-----------------------------------------------------------------------------
(* The invariant *)

(* A step of the load keeps the earlier entities' tables.                  *)
LEMMA DownloadLInv ==
    ASSUME LInv, NEW o \in todo, NEW whole \in BOOLEAN, Download(o, whole), Types'
    PROVE  LInv'
<1> USE DEF LInv, Types
<1>1. /\ pc = "download" /\ UNCHANGED <<stage, tables, listed, loaded>>
      /\ loaded = FALSE /\ stage = {}
  BY DEF Download, Raise, control, Finished, Stage, TypeOK
<1>2. CASE pc' = "idle"
  <2>1. copied' = Nothing
    BY <1>1, <1>2 DEF Download, Raise, control
  <2>2. QED
    BY <1>1, <1>2, <2>1
       DEF EarlierLoaded, LaterEmpty, NothingCopied, Files, Stage, Finished
<1>3. CASE pc' = "list"
  <2>1. copied' = copied /\ entity' = entity
    BY <1>1, <1>3 DEF Download, control, Raise
  <2>2. Committed' = Committed
    BY <1>1, <2>1 DEF Committed
  <2>3. QED
    BY <1>1, <1>3, <2>1, <2>2
       DEF EarlierLoaded, LaterEmpty, NothingCopied, Files, Stage, Finished, TableOf
<1>4. CASE pc' = "download"
  <2>1. /\ o \in silver[entity] /\ whole /\ UNCHANGED <<copied, entity>>
        /\ todo' = todo \ {o} /\ got' = got \cup {o}
    BY <1>1, <1>4 DEF Download, control, Raise, SizeMatches
  <2>2. Committed' = Committed
    BY <1>1, <2>1 DEF Committed
  <2>3. local'[entity] = {f \in local[entity] : f.object # o} \cup {[object |-> o, whole |-> whole]}
    BY <1>1, <2>1 DEF Download, TypeOK
  <2>4. Files'
    BY <1>1, <1>4, <2>1, <2>3 DEF Files
  <2>5. QED
    BY <1>1, <1>4, <2>1, <2>2, <2>4
       DEF EarlierLoaded, LaterEmpty, NothingCopied, Stage, Finished, TableOf
<1>5. QED
  BY <1>1, <1>2, <1>3, <1>4 DEF Download, control, Raise

(* An entity without an object is passed by, without a table.              *)
LEMMA EndDownloadLInv == ASSUME LInv, EndDownload, Types' PROVE LInv'
<1> USE DEF LInv, Types
<1>1. /\ pc = "download" /\ todo = {} /\ loaded = FALSE /\ stage = {}
      /\ UNCHANGED <<source, local, listed, stage, tables, loaded>>
      /\ got = listed[entity]
      /\ \A f \in local[entity] : f.object \in got => f.whole
      /\ entity \in 1..NEntities /\ NEntities \in Nat
  BY DEF EndDownload, Finished, Stage, Files, TypeOK, Entities
<1>2. CASE got = {} /\ NextEntity /\ UNCHANGED copied
  <2>1. Committed' = Committed /\ TableOf(listed[entity]) = Nothing
    BY <1>1, <1>2 DEF Committed, TableOf
  <2>2. /\ \A d \in 1..entity : Committed[d] = TableOf(listed[d])
        /\ \A d \in (entity + 1)..NEntities : Committed[d] = Nothing
    BY <1>1, <2>1 DEF EarlierLoaded, LaterEmpty
  <2>3. EarlierLoaded' /\ LaterEmpty'
    BY <1>1, <1>2, <2>1, <2>2 DEF EarlierLoaded, LaterEmpty, NextEntity, TableOf, Entities
  <2>4. QED
    BY <1>1, <1>2, <2>3 DEF NextEntity, NothingCopied, Files, Stage, Finished
<1>3. CASE got # {} /\ pc' = "table" /\ UNCHANGED <<entity, attempt, copied, todo, got>>
  <2>1. Committed' = Committed
    BY <1>1, <1>3 DEF Committed
  <2>2. EarlierLoaded' /\ LaterEmpty'
    BY <1>1, <1>3, <2>1 DEF EarlierLoaded, LaterEmpty, TableOf
  <2>3. QED
    BY <1>1, <1>3, <2>2 DEF NothingCopied, Files, Stage, Finished
<1>4. CASE Raise
  BY <1>1, <1>4 DEF Raise, EarlierLoaded, LaterEmpty, NothingCopied, Files, Stage, Finished
<1>5. QED
  BY <1>2, <1>3, <1>4 DEF EndDownload

LEMMA CreateTableLInv == ASSUME LInv, CreateTable, Types' PROVE LInv'
<1> USE DEF LInv, Types
<1>1. /\ pc = "table" /\ pc' = "put" /\ loaded = FALSE
      /\ UNCHANGED <<source, entity, attempt, files, stage, loaded>>
      /\ tables' = [Committed EXCEPT ![entity] = {}] /\ copied' = Nothing
      /\ entity \in 1..NEntities /\ NEntities \in Nat
  BY DEF CreateTable, Finished, TypeOK, Entities
<1>2. \A d \in Entities : d # entity => Committed'[d] = Committed[d]
  <2>1. Committed' = tables'
    BY <1>1 DEF Committed
  <2>2. QED
    BY <1>1, <2>1, CommittedType
<1>3. EarlierLoaded'
  BY <1>1, <1>2 DEF EarlierLoaded, TableOf, files, Entities
<1>4. LaterEmpty'
  BY <1>1, <1>2 DEF LaterEmpty, Entities
<1>5. QED
  BY <1>1, <1>3, <1>4 DEF NothingCopied, Files, Stage, Finished, files

(* Every downloaded file is still there, so what is staged is the listing. *)
LEMMA PutFilesLInv == ASSUME LInv, PutFiles, Types' PROVE LInv'
<1> USE DEF LInv, Types
<1>1. /\ pc = "put" /\ loaded = FALSE /\ stage = {}
      /\ UNCHANGED <<source, local, listed, tables, loaded>>
      /\ stage' = {f \in local[entity] : f.object \in got}
      /\ entity \in Entities /\ local[entity] \subseteq Copies
  BY DEF PutFiles, Finished, Stage, TypeOK
<1>2. CASE StillLocal /\ pc' = "copy" /\ UNCHANGED <<entity, attempt, copied, todo, got, expected>>
  <2>1. \A f \in stage' : /\ f.object \in got /\ f.whole = TRUE
                          /\ f = [object |-> f.object, whole |-> f.whole]
    BY <1>1 DEF Files, Copies
  <2>2. \A o \in got : \E f \in stage' : f.object = o
    BY <1>1, <1>2 DEF StillLocal
  <2>3. \A o \in got : [object |-> o, whole |-> TRUE] \in stage'
    BY <2>1, <2>2
  <2>4. stage' = Whole(got)
    BY <2>1, <2>3 DEF Whole
  <2>5. Committed' = Committed /\ stage' = Whole(got)'
    BY <1>1, <1>2, <2>4 DEF Committed, Whole, files
  <2>6. QED
    BY <1>1, <1>2, <2>5
       DEF EarlierLoaded, LaterEmpty, NothingCopied, Files, Stage, Finished, TableOf, files
<1>3. CASE Raise
  BY <1>1, <1>3 DEF Raise, EarlierLoaded, LaterEmpty, NothingCopied, Files, Stage, Finished
<1>4. QED
  BY <1>2, <1>3 DEF PutFiles

LEMMA CopyIntoLInv == ASSUME LInv, CopyInto, Types' PROVE LInv'
<1> USE DEF LInv, Types
<1>1. /\ pc = "copy" /\ loaded = FALSE /\ stage' = {} /\ copied = Nothing
      /\ UNCHANGED <<source, local, listed, tables, loaded>>
      /\ stage = TableOf(listed[entity]) /\ stage \subseteq Copies
      /\ entity \in 1..NEntities /\ NEntities \in Nat
  BY DEF CopyInto, Finished, NothingCopied, Files, Stage, TableOf, TypeOK, Entities
<1>2. CASE copied' = [entity |-> entity, copies |-> stage] /\ NextEntity
  <2>1. copied' # Nothing
    BY <1>1, <1>2, NothingAssumption DEF Entities
  <2>2. Committed' = [tables EXCEPT ![entity] = stage] /\ Committed = tables
    BY <1>1, <1>2, <2>1 DEF Committed
  <2>3. /\ Committed'[entity] = TableOf(listed[entity])
        /\ \A d \in Entities : d # entity => Committed'[d] = Committed[d]
    BY <1>1, <2>2 DEF TypeOK, Entities
  <2>4. /\ \A d \in 1..entity : Committed'[d] = TableOf(listed[d])
        /\ \A d \in (entity + 1)..NEntities : Committed'[d] = Nothing
    BY <1>1, <2>3 DEF EarlierLoaded, LaterEmpty, Entities
  <2>5. EarlierLoaded' /\ LaterEmpty'
    BY <1>1, <1>2, <2>4 DEF EarlierLoaded, LaterEmpty, NextEntity, TableOf, Entities, files
  <2>6. QED
    BY <1>1, <1>2, <2>5 DEF NextEntity, NothingCopied, Files, Stage, Finished
<1>3. CASE Raise
  BY <1>1, <1>3 DEF Raise, EarlierLoaded, LaterEmpty, NothingCopied, Files, Stage, Finished
<1>4. QED
  BY <1>2, <1>3 DEF CopyInto

LEMMA NextLInv == LInv /\ [Next]_vars => LInv'
<1> SUFFICES ASSUME LInv, [Next]_vars PROVE LInv'
  OBVIOUS
<1> USE DEF LInv
<1>0. Types'
  BY NextTypes
<1>1. CASE SparkStep
  <2>1. UNCHANGED <<control, files, raw, loaded>>
    BY <1>1, SparkStepTypes DEF Types
  <2>2. QED
    BY <1>0, <2>1
       DEF control, files, raw, Committed, EarlierLoaded, LaterEmpty, NothingCopied,
           Files, Stage, Finished, LoadedIsListed, TableOf
<1>2. CASE StartLoad
  BY <1>0, <1>2
     DEF StartLoad, raw, EarlierLoaded, LaterEmpty, NothingCopied, Files, Stage, Finished
<1>3. CASE ClearLocal
  BY <1>0, <1>3
     DEF ClearLocal, raw, EarlierLoaded, LaterEmpty, NothingCopied, Files, Stage, Finished
<1>4. CASE ReplaceSchema
  <2>1. entity' = entity /\ copied' = Nothing /\ \A d \in Entities : Committed'[d] = Nothing
    BY <1>4 DEF ReplaceSchema, NothingCopied, Committed
  <2>2. EarlierLoaded' /\ LaterEmpty'
    BY <1>0, <1>4, <2>1 DEF ReplaceSchema, EarlierLoaded, LaterEmpty, Types, TypeOK, Entities
  <2>3. QED
    BY <1>0, <1>4, <2>1, <2>2 DEF ReplaceSchema, NothingCopied, Files, Stage, Finished
<1>5. CASE ListObjects
  <2>1. /\ Committed' = Committed /\ entity' = entity /\ entity \in Entities
        /\ \A d \in Entities : d # entity => listed'[d] = listed[d]
        /\ listed'[entity] = todo' /\ got' = {}
    BY <1>5 DEF ListObjects, raw, Committed, Types, TypeOK
  <2>2. EarlierLoaded' /\ LaterEmpty'
    BY <1>5, <2>1 DEF ListObjects, EarlierLoaded, LaterEmpty, TableOf, Entities
  <2>3. QED
    BY <1>0, <1>5, <2>1, <2>2 DEF ListObjects, raw, NothingCopied, Files, Stage, Finished
<1>6. ASSUME NEW o \in todo, NEW whole \in BOOLEAN, Download(o, whole)
      PROVE  LInv'
  BY <1>0, <1>6, DownloadLInv
<1>7. CASE EndDownload
  BY <1>0, <1>7, EndDownloadLInv
<1>8. CASE CreateTable
  BY <1>0, <1>8, CreateTableLInv
<1>9. CASE PutFiles
  BY <1>0, <1>9, PutFilesLInv
<1>10. CASE CopyInto
  BY <1>0, <1>10, CopyIntoLInv
<1>11. CASE CommitLoad
  BY <1>0, <1>11
     DEF CommitLoad, files, EarlierLoaded, LaterEmpty, NothingCopied, Files, Stage, Finished,
         LoadedIsListed, TableOf
<1>12. CASE Crash
  BY <1>0, <1>12
     DEF Crash, Raise, EarlierLoaded, LaterEmpty, NothingCopied, Files, Stage, Finished
<1>13. ASSUME NEW e \in Entities, NEW gone \in SUBSET local[e], Cleanup(e, gone)
       PROVE  LInv'
  <2>1. UNCHANGED <<source, control, todo, got, listed, expected, raw, loaded, Committed>>
    BY <1>13 DEF Cleanup, raw, Committed
  <2>2. entity \in Entities /\ local'[entity] \subseteq local[entity]
    BY <1>13 DEF Cleanup, Types, TypeOK
  <2>3. Files'
    BY <2>1, <2>2 DEF Files, control
  <2>4. QED
    BY <1>0, <2>1, <2>3
       DEF control, raw, EarlierLoaded, LaterEmpty, NothingCopied, Stage, Finished,
           LoadedIsListed, TableOf, Whole
<1>14. CASE UNCHANGED vars
  BY <1>0, <1>14
     DEF vars, source, control, files, raw, Committed, EarlierLoaded, LaterEmpty, NothingCopied,
         Files, Stage, Finished, LoadedIsListed, TableOf, Whole
<1>15. QED
  BY <1>1, <1>2, <1>3, <1>4, <1>5, <1>6, <1>7, <1>8, <1>9, <1>10, <1>11, <1>12, <1>13, <1>14
     DEF Next, LoadStep, SparkStep

(* A load that returned left in every raw table what one listing of its    *)
(* entity named, each object once, whole and durable.                      *)
THEOREM LoadedTablesAreListed == Spec => []LoadedIsListed
<1>1. LInv => LoadedIsListed
  BY DEF LInv, Finished, LoadedIsListed
<1>2. QED
  BY <1>1, InitLInv, NextLInv, PTL DEF Spec
=============================================================================
