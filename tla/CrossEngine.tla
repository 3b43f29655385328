------------------------------ MODULE CrossEngine ------------------------------
(***************************************************************************)
(* The compare command: ValidationService.validate against one warehouse   *)
(* target after another, entity by entity, with one cached read of source  *)
(* history, then compare_reports over the targets' reports.                *)
(*                                                                         *)
(* Source history may move while the command runs.  A read that raises, or *)
(* a value that has no canonical form, turns all checks of the entity into *)
(* one failed "query" check.  The caches keep what was read, not what was  *)
(* raised.                                                                 *)
(***************************************************************************)
EXTENDS Integers, FiniteSets

CONSTANTS
    NTargets,    \* targets are validated in the order 1..NTargets
    NEntities,   \* configured entities, in the order 1..NEntities
    AllowEmpty,  \* entities whose rule allows no rows
    Keys, Values,
    Bad,         \* a value canonicalize rejects: it raises
    Absent,      \* no row: never inserted
    Deleted,     \* the last history row of the key is a delete
    None,        \* not read yet, no result
    MaxWrites    \* bound: changes of the source during the command

Targets == 1..NTargets
Entities == 1..NEntities
Columns == Values \cup {Bad}
Rows == UNION {[K -> Columns] : K \in SUBSET Keys}

ASSUME CompareAssumption ==
    /\ NTargets \in Nat \ {0} /\ NEntities \in Nat \ {0} /\ MaxWrites \in Nat
    /\ AllowEmpty \subseteq Entities

VARIABLES
    source,     \* [Entities -> [Keys -> last change]]: source history
    candidate,  \* [Targets -> [Entities -> rows]]: the validation views
    cacheRows,  \* [Entities -> rows]: CachingSnapshotReader
    cacheGone,  \* [Entities -> keys]: CachingTombstoneReader
    target, entity, step,   \* where the command is
    reports,    \* [Targets -> [Entities -> what was compared]]
    unreadable, \* [Targets -> entities]: candidate reads that raised
    unsourced,  \* entities of which a read of source history raised
    verdict,    \* the outcome in cross_engine.json
    writes

control == <<target, entity, step>>
caches == <<cacheRows, cacheGone>>
vars == <<source, candidate, caches, control, reports, unreadable, unsourced, verdict, writes>>

(* What the checks of one entity are computed from; or they raised.        *)
Compared == [expected : Rows, actual : Rows, gone : SUBSET Keys]
Query == [raised |-> TRUE]

ASSUME NoneAssumption ==
    /\ None \notin Rows /\ \A gone \in SUBSET Keys : None # gone
    /\ None \notin Compared \cup {Query} /\ None \notin {"passed", "failed"}

TypeOK ==
    /\ source \in [Entities -> [Keys -> Columns \cup {Absent, Deleted}]]
    /\ candidate \in [Targets -> [Entities -> Rows]]
    /\ cacheRows \in [Entities -> Rows \cup {None}]
    /\ cacheGone \in [Entities -> (SUBSET Keys) \cup {None}]
    /\ target \in Targets /\ entity \in Entities
    /\ step \in {"rows", "candidate", "tombstones", "checks", "compare", "done"}
    /\ reports \in [Targets -> [Entities -> Compared \cup {Query, None}]]
    /\ unreadable \in [Targets -> SUBSET Entities]
    /\ unsourced \subseteq Entities
    /\ verdict \in {None, "passed", "failed"}
    /\ writes \in 0..MaxWrites

Init ==
    /\ source \in [Entities -> [Keys -> Columns \cup {Absent, Deleted}]]
    /\ candidate \in [Targets -> [Entities -> Rows]]
    /\ cacheRows = [e \in Entities |-> None]
    /\ cacheGone = [e \in Entities |-> None]
    /\ target = 1 /\ entity = 1 /\ step = "rows"
    /\ reports = [t \in Targets |-> [e \in Entities |-> None]]
    /\ unreadable = [t \in Targets |-> {}]
    /\ unsourced = {}
    /\ verdict = None
    /\ writes = 0

-----------------------------------------------------------------------------
(* Reading source history: the live rows, and the keys deleted last.       *)

Present(e) == {k \in Keys : source[e][k] \in Columns}
SourceRows(e) == [k \in Present(e) |-> source[e][k]]
DeletedKeys(e) == {k \in Keys : source[e][k] = Deleted}

(* Faulty variants of the definitions that follow: no cache; a checksum    *)
(* over the key columns; the entity counter runs on.                       *)
CachedRowsUncached(e) == SourceRows(e)
ChecksumOfKeys(rows) == DOMAIN rows
NextEntityRunsOn ==
    /\ entity' = entity + 1 /\ step' = IF entity = NEntities THEN "compare" ELSE "rows"
    /\ UNCHANGED target

CachedRows(e) == IF cacheRows[e] = None THEN SourceRows(e) ELSE cacheRows[e]
CachedGone(e) == IF cacheGone[e] = None THEN DeletedKeys(e) ELSE cacheGone[e]

(* The checks of an entity.  A checksum identifies the canonical rows it   *)
(* was computed from.                                                      *)
Count(rows) == Cardinality(DOMAIN rows)
Checksum(rows) == rows
StillPresent(c) == c.gone \cap DOMAIN c.actual
Canonical(rows) == \A k \in DOMAIN rows : rows[k] # Bad

EntityPassed(e, c) ==
    /\ c # Query
    /\ e \in AllowEmpty \/ (Count(c.expected) > 0 /\ Count(c.actual) > 0)
    /\ Count(c.expected) = Count(c.actual)
    /\ StillPresent(c) = {}
    /\ Checksum(c.expected) = Checksum(c.actual)

TargetPassed(t) == \A e \in Entities : EntityPassed(e, reports[t][e])

(* Two targets' results of the entity's checks: the same checks, each with *)
(* the same outcome, expected and actual values.                           *)
SameResults(c, d) ==
    \/ c = Query /\ d = Query
    \/ /\ c # Query /\ d # Query
       /\ Count(c.expected) = Count(d.expected) /\ Count(c.actual) = Count(d.actual)
       /\ StillPresent(c) = StillPresent(d)
       /\ Checksum(c.expected) = Checksum(d.expected)
       /\ Checksum(c.actual) = Checksum(d.actual)

Disagreements ==
    {e \in Entities : \E t, u \in Targets : ~SameResults(reports[t][e], reports[u][e])}

-----------------------------------------------------------------------------
(* Actions *)

(* A transaction on the source, of a batch at or below the cutoff.         *)
Write(e, k) ==
    /\ writes < MaxWrites
    /\ writes' = writes + 1
    /\ \E v \in Values \cup (IF source[e][k] \in Columns THEN {Deleted} ELSE {}) :
         source' = [source EXCEPT ![e][k] = v]
    /\ UNCHANGED <<candidate, caches, control, reports, unreadable, unsourced, verdict>>

(* The loops of validate and of the command.                               *)
NextEntity ==
    \/ entity < NEntities /\ entity' = entity + 1 /\ step' = "rows" /\ UNCHANGED target
    \/ /\ entity = NEntities
       /\ entity' = 1
       /\ IF target < NTargets THEN target' = target + 1 /\ step' = "rows"
                               ELSE step' = "compare" /\ UNCHANGED target

(* Everything the per-entity handler catches.                              *)
Raises ==
    /\ reports' = [reports EXCEPT ![target][entity] = Query]
    /\ NextEntity

FetchRows ==
    /\ step = "rows"
    /\ \/ /\ cacheRows' = [cacheRows EXCEPT ![entity] = CachedRows(entity)]
          /\ step' = "candidate"
          /\ UNCHANGED <<target, entity, reports, unsourced>>
       \/ /\ cacheRows[entity] = None
          /\ Raises
          /\ unsourced' = unsourced \cup {entity}
          /\ UNCHANGED cacheRows
    /\ UNCHANGED <<source, candidate, cacheGone, unreadable, verdict, writes>>

FetchCandidate ==
    /\ step = "candidate"
    /\ \/ step' = "tombstones" /\ UNCHANGED <<target, entity, reports, unreadable>>
       \/ /\ Raises
          /\ unreadable' = [unreadable EXCEPT ![target] = @ \cup {entity}]
    /\ UNCHANGED <<source, candidate, caches, unsourced, verdict, writes>>

FetchDeletedKeys ==
    /\ step = "tombstones"
    /\ \/ /\ cacheGone' = [cacheGone EXCEPT ![entity] = CachedGone(entity)]
          /\ step' = "checks"
          /\ UNCHANGED <<target, entity, reports, unsourced>>
       \/ /\ cacheGone[entity] = None
          /\ Raises
          /\ unsourced' = unsourced \cup {entity}
          /\ UNCHANGED cacheGone
    /\ UNCHANGED <<source, candidate, cacheRows, unreadable, verdict, writes>>

CompareEntity ==
    /\ step = "checks"
    /\ LET c == [expected |-> cacheRows[entity], actual |-> candidate[target][entity],
                 gone |-> cacheGone[entity]]
       IN  \/ ~(Canonical(c.expected) /\ Canonical(c.actual)) /\ Raises
           \/ /\ Canonical(c.expected) /\ Canonical(c.actual)
              /\ reports' = [reports EXCEPT ![target][entity] = c]
              /\ NextEntity
    /\ UNCHANGED <<source, candidate, caches, unreadable, unsourced, verdict, writes>>

CompareReports ==
    /\ step = "compare"
    /\ step' = "done"
    /\ verdict' = IF Disagreements = {} /\ \A t \in Targets : TargetPassed(t)
                  THEN "passed" ELSE "failed"
    /\ UNCHANGED <<source, candidate, caches, target, entity, reports, unreadable, unsourced,
                   writes>>

Next ==
    \/ \E e \in Entities, k \in Keys : Write(e, k)
    \/ FetchRows \/ FetchCandidate \/ FetchDeletedKeys \/ CompareEntity \/ CompareReports

Spec == Init /\ [][Next]_vars

-----------------------------------------------------------------------------
(* Properties *)

(* An entity is reported as a disagreement only when the warehouses really *)
(* differ on it, or a read raised: a source that moves between the two     *)
(* validations never shows as one.  (A source read that raises for one     *)
(* target only does: the caches do not keep it.)                           *)
DisagreementIsWarehouseSide ==
    verdict # None => \A e \in Disagreements :
        \/ \E t, u \in Targets : candidate[t][e] # candidate[u][e]
        \/ \E t \in Targets : e \in unreadable[t]
        \/ e \in unsourced

(* The command passes only when every target holds the same rows for every *)
(* entity, and they are rows that one read of source history returned.     *)
PassedMeansIdentical ==
    verdict = "passed" => \A t \in Targets, e \in Entities :
        candidate[t][e] = cacheRows[e] /\ cacheGone[e] \cap DOMAIN candidate[t][e] = {}
=============================================================================
