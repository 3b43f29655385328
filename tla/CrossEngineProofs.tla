--------------------------- MODULE CrossEngineProofs ---------------------------
(***************************************************************************)
(* What the compare command's verdict means, for any number of targets and *)
(* entities, every source that moves under it and every read that raises.  *)
(***************************************************************************)
EXTENDS CrossEngine, TLAPS

USE CompareAssumption, NoneAssumption

(* An entity is behind the command once its checks are in a report.        *)
Behind(t, e) == t < target \/ (t = target /\ e < entity) \/ step \in {"compare", "done"}

(* What was read of an entity is in the caches while its checks run.       *)
CachesFilled ==
    /\ step \in {"candidate", "tombstones", "checks"} => cacheRows[entity] # None
    /\ step = "checks" => cacheGone[entity] # None

(* Checks that ran were computed from the caches and the target's rows.    *)
FromCaches(t, e) ==
    /\ cacheRows[e] # None /\ cacheGone[e] # None
    /\ reports[t][e] = [expected |-> cacheRows[e], actual |-> candidate[t][e],
                        gone |-> cacheGone[e]]
    /\ Canonical(cacheRows[e]) /\ Canonical(candidate[t][e])

(* Checks that raised met a read that raised, or rows without a form.      *)
RaisedForReason(t, e) ==
    /\ reports[t][e] = Query
    /\ \/ e \in unsourced
       \/ e \in unreadable[t]
       \/ cacheRows[e] # None /\ ~(Canonical(cacheRows[e]) /\ Canonical(candidate[t][e]))

Reported ==
    \A t \in Targets, e \in Entities :
        Behind(t, e) => FromCaches(t, e) \/ RaisedForReason(t, e)

VerdictSound ==
    verdict # None =>
        /\ step = "done"
        /\ verdict = IF Disagreements = {} /\ \A t \in Targets : TargetPassed(t)
                     THEN "passed" ELSE "failed"

CInv == TypeOK /\ CachesFilled /\ Reported /\ VerdictSound

-----------------------------------------------------------------------------
(* The types *)

LEMMA ReadTypes ==
    ASSUME TypeOK, NEW e \in Entities
    PROVE  /\ SourceRows(e) \in Rows /\ DeletedKeys(e) \in SUBSET Keys
           /\ CachedRows(e) \in Rows /\ CachedGone(e) \in SUBSET Keys
<1>1. Present(e) \in SUBSET Keys /\ SourceRows(e) \in [Present(e) -> Columns]
  BY DEF Present, SourceRows
<1>2. SourceRows(e) \in Rows
  BY <1>1 DEF Rows
<1>3. DeletedKeys(e) \in SUBSET Keys
  BY DEF DeletedKeys
<1>4. QED
  BY <1>2, <1>3 DEF TypeOK, CachedRows, CachedGone

LEMMA NextEntityTypes ==
    ASSUME TypeOK, NextEntity
    PROVE  /\ target' \in Targets /\ entity' \in Entities
           /\ step' \in {"rows", "compare"}
BY DEF TypeOK, NextEntity, Targets, Entities

(* A read that raises leaves one failed check in the target's report.      *)
LEMMA RaisesTypes ==
    ASSUME TypeOK, Raises
    PROVE  /\ reports' \in [Targets -> [Entities -> Compared \cup {Query, None}]]
           /\ target' \in Targets /\ entity' \in Entities /\ step' \in {"rows", "compare"}
BY NextEntityTypes DEF TypeOK, Raises

LEMMA InitCInv == Init => CInv
<1> SUFFICES ASSUME Init PROVE CInv
  OBVIOUS
<1>1. 1 \in Targets /\ 1 \in Entities
  BY DEF Targets, Entities
<1>2. TypeOK
  BY <1>1 DEF Init, TypeOK
<1>3. Reported
  BY DEF Init, Reported, Behind, Targets, Entities
<1>4. QED
  BY <1>2, <1>3 DEF Init, CInv, CachesFilled, VerdictSound

LEMMA NextTypes == TypeOK /\ CachesFilled /\ [Next]_vars => TypeOK'
<1> SUFFICES ASSUME TypeOK, CachesFilled, [Next]_vars PROVE TypeOK'
  OBVIOUS
<1> USE DEF caches, control
<1>1. ASSUME NEW e \in Entities, NEW k \in Keys, Write(e, k)
      PROVE  TypeOK'
  <2>1. PICK v \in Values \cup {Deleted} : source' = [source EXCEPT ![e][k] = v]
    BY <1>1 DEF Write
  <2>2. v \in Columns \cup {Absent, Deleted}
    BY <2>1 DEF Columns
  <2>3. source' \in [Entities -> [Keys -> Columns \cup {Absent, Deleted}]]
    BY <1>1, <2>1, <2>2 DEF TypeOK
  <2>4. writes' \in 0..MaxWrites
    BY <1>1 DEF Write, TypeOK
  <2>5. QED
    BY <1>1, <2>3, <2>4 DEF Write, TypeOK
<1>2. CASE FetchRows
  <2>1. UNCHANGED <<source, candidate, cacheGone, unreadable, verdict, writes>>
        /\ entity \in Entities /\ target \in Targets
    BY <1>2 DEF FetchRows, TypeOK
  <2>2. CASE /\ cacheRows' = [cacheRows EXCEPT ![entity] = CachedRows(entity)]
             /\ step' = "candidate" /\ UNCHANGED <<target, entity, reports, unsourced>>
    BY <2>1, <2>2, ReadTypes DEF TypeOK
  <2>3. CASE Raises /\ unsourced' = unsourced \cup {entity} /\ UNCHANGED cacheRows
    BY <2>1, <2>3, RaisesTypes DEF TypeOK
  <2>4. QED
    BY <1>2, <2>2, <2>3 DEF FetchRows
<1>3. CASE FetchCandidate
  <2>1. CASE step' = "tombstones" /\ UNCHANGED <<target, entity, reports, unreadable>>
    BY <1>3, <2>1 DEF FetchCandidate, TypeOK
  <2>2. CASE Raises /\ unreadable' = [unreadable EXCEPT ![target] = @ \cup {entity}]
    BY <1>3, <2>2, RaisesTypes DEF FetchCandidate, TypeOK
  <2>3. QED
    BY <1>3, <2>1, <2>2 DEF FetchCandidate
<1>4. CASE FetchDeletedKeys
  <2>1. UNCHANGED <<source, candidate, cacheRows, unreadable, verdict, writes>>
        /\ entity \in Entities /\ target \in Targets
    BY <1>4 DEF FetchDeletedKeys, TypeOK
  <2>2. CASE /\ cacheGone' = [cacheGone EXCEPT ![entity] = CachedGone(entity)]
             /\ step' = "checks" /\ UNCHANGED <<target, entity, reports, unsourced>>
    BY <2>1, <2>2, ReadTypes DEF TypeOK
  <2>3. CASE Raises /\ unsourced' = unsourced \cup {entity} /\ UNCHANGED cacheGone
    BY <2>1, <2>3, RaisesTypes DEF TypeOK
  <2>4. QED
    BY <1>4, <2>2, <2>3 DEF FetchDeletedKeys
<1>5. CASE CompareEntity
  <2> DEFINE c == [expected |-> cacheRows[entity], actual |-> candidate[target][entity],
                   gone |-> cacheGone[entity]]
  <2>1. UNCHANGED <<source, candidate, caches, unreadable, unsourced, verdict, writes>>
    BY <1>5 DEF CompareEntity
  <2>2. c \in Compared /\ target \in Targets /\ entity \in Entities
    BY <1>5 DEF CompareEntity, CachesFilled, TypeOK, Compared
  <2>3. CASE Raises
    BY <2>1, <2>3, RaisesTypes DEF TypeOK
  <2>4. CASE reports' = [reports EXCEPT ![target][entity] = c] /\ NextEntity
    <3>1. reports' \in [Targets -> [Entities -> Compared \cup {Query, None}]]
      BY <2>2, <2>4 DEF TypeOK
    <3>2. QED
      BY <2>1, <2>4, <3>1, NextEntityTypes DEF TypeOK
  <2>5. QED
    BY <1>5, <2>3, <2>4 DEF CompareEntity
<1>6. CASE CompareReports
  BY <1>6 DEF CompareReports, TypeOK
<1>7. CASE UNCHANGED vars
  BY <1>7 DEF vars, TypeOK
<1>8. QED
  BY <1>1, <1>2, <1>3, <1>4, <1>5, <1>6, <1>7 DEF Next
-----------------------------------------------------------------------------
(* The invariant *)

(* The command moves on from one entity to the next: what was behind it    *)
(* stays behind, and this entity joins.                                    *)
LEMMA NextEntityBehind ==
    ASSUME TypeOK, NextEntity, NEW t \in Targets, NEW e \in Entities, Behind(t, e)',
           step \notin {"compare", "done"}
    PROVE  Behind(t, e) \/ (t = target /\ e = entity)
BY DEF TypeOK, NextEntity, Behind, Targets, Entities

(* A step that only adds to the caches and to the reads that raised keeps  *)
(* what was reported.                                                      *)
LEMMA ReportKept ==
    ASSUME NEW t \in Targets, NEW e \in Entities,
           FromCaches(t, e) \/ RaisedForReason(t, e),
           reports'[t][e] = reports[t][e], candidate' = candidate,
           cacheRows[e] # None => cacheRows'[e] = cacheRows[e],
           cacheGone[e] # None => cacheGone'[e] = cacheGone[e],
           unsourced \subseteq unsourced', unreadable[t] \subseteq unreadable'[t]
    PROVE  FromCaches(t, e)' \/ RaisedForReason(t, e)'
BY DEF FromCaches, RaisedForReason, Canonical

(* The checks of this entity raised, for a reason that is on record.       *)
LEMMA RaisesReported ==
    ASSUME CInv, Raises, candidate' = candidate, step \notin {"compare", "done"},
           \A e \in Entities : cacheRows[e] # None => cacheRows'[e] = cacheRows[e],
           \A e \in Entities : cacheGone[e] # None => cacheGone'[e] = cacheGone[e],
           unsourced \subseteq unsourced',
           \A t \in Targets : unreadable[t] \subseteq unreadable'[t],
           NEW u, NEW d, u = target, d = entity,
           reports'[u][d] = Query => RaisedForReason(u, d)'
    PROVE  Reported'
<1> SUFFICES ASSUME NEW t \in Targets, NEW e \in Entities, Behind(t, e)'
             PROVE  FromCaches(t, e)' \/ RaisedForReason(t, e)'
  BY DEF Reported, Canonical
<1>1. reports' = [reports EXCEPT ![target][entity] = Query] /\ NextEntity
  BY DEF Raises
<1>2. CASE t = target /\ e = entity
  <2>1. reports'[target][entity] = Query
    BY <1>1, <1>2 DEF CInv, TypeOK
  <2>2. QED
    BY <1>2, <2>1
<1>3. CASE ~(t = target /\ e = entity)
  <2>1. reports'[t][e] = reports[t][e]
    BY <1>1, <1>3 DEF CInv, TypeOK
  <2>2. Behind(t, e)
    BY <1>1, <1>3, NextEntityBehind DEF CInv
  <2>3. FromCaches(t, e) \/ RaisedForReason(t, e)
    BY <2>2 DEF CInv, Reported
  <2>4. QED
    BY <2>1, <2>3, ReportKept
<1>4. QED
  BY <1>2, <1>3

(* A step that neither moves the command nor changes a report, and only    *)
(* fills caches, keeps what was reported.                                  *)
LEMMA StillReported ==
    ASSUME CInv, UNCHANGED <<candidate, target, entity, reports, unreadable, unsourced>>,
           step' \in {"compare", "done"} => step \in {"compare", "done"},
           \A e \in Entities : cacheRows[e] # None => cacheRows'[e] = cacheRows[e],
           \A e \in Entities : cacheGone[e] # None => cacheGone'[e] = cacheGone[e]
    PROVE  Reported'
<1> SUFFICES ASSUME NEW t \in Targets, NEW e \in Entities, Behind(t, e)'
             PROVE  FromCaches(t, e)' \/ RaisedForReason(t, e)'
  BY DEF Reported
<1>1. Behind(t, e)
  BY DEF Behind
<1>2. FromCaches(t, e) \/ RaisedForReason(t, e)
  BY <1>1 DEF CInv, Reported
<1>3. QED
  BY <1>2, ReportKept

LEMMA NextCInv == CInv /\ [Next]_vars => CInv'
<1> SUFFICES ASSUME CInv, [Next]_vars PROVE CInv'
  OBVIOUS
<1>0. TypeOK' /\ TypeOK /\ target \in Targets /\ entity \in Entities
  BY NextTypes DEF CInv, TypeOK
<1>1. ASSUME NEW e \in Entities, NEW k \in Keys, Write(e, k)
      PROVE  CInv'
  <2>1. UNCHANGED <<candidate, caches, control, reports, unreadable, unsourced, verdict>>
    BY <1>1 DEF Write
  <2>2. Reported'
    BY <2>1, StillReported DEF caches, control
  <2>3. QED
    BY <1>0, <2>1, <2>2
       DEF CInv, caches, control, CachesFilled, VerdictSound, Disagreements, TargetPassed
<1>2. CASE FetchRows
  <2>1. /\ step = "rows" /\ verdict = None /\ verdict' = None
        /\ UNCHANGED <<candidate, cacheGone, unreadable>>
    BY <1>2 DEF FetchRows, CInv, VerdictSound
  <2>2. CASE /\ cacheRows' = [cacheRows EXCEPT ![entity] = CachedRows(entity)]
             /\ step' = "candidate" /\ UNCHANGED <<target, entity, reports, unsourced>>
    <3>1. \A e \in Entities : cacheRows[e] # None => cacheRows'[e] = cacheRows[e]
      BY <1>0, <2>2 DEF TypeOK, CachedRows
    <3>2. Reported'
      BY <2>1, <2>2, <3>1, StillReported
    <3>3. CachesFilled'
      BY <1>0, <2>2, ReadTypes DEF CachesFilled, TypeOK
    <3>4. QED
      BY <1>0, <2>1, <3>2, <3>3 DEF CInv, VerdictSound
  <2>3. CASE Raises /\ unsourced' = unsourced \cup {entity} /\ UNCHANGED cacheRows
    <3>1. Reported'
      BY <1>0, <2>1, <2>3, RaisesReported DEF RaisedForReason
    <3>2. QED
      BY <1>0, <2>1, <2>3, <3>1, RaisesTypes DEF CInv, CachesFilled, VerdictSound
  <2>4. QED
    BY <1>2, <2>2, <2>3 DEF FetchRows
<1>3. CASE FetchCandidate
  <2>1. /\ step = "candidate" /\ verdict = None /\ verdict' = None
        /\ UNCHANGED <<candidate, caches, unsourced>>
    BY <1>3 DEF FetchCandidate, CInv, VerdictSound
  <2>2. CASE step' = "tombstones" /\ UNCHANGED <<target, entity, reports, unreadable>>
    <3>1. Reported'
      BY <2>1, <2>2, StillReported DEF caches
    <3>2. QED
      BY <1>0, <2>1, <2>2, <3>1 DEF CInv, CachesFilled, VerdictSound, caches
  <2>3. CASE Raises /\ unreadable' = [unreadable EXCEPT ![target] = @ \cup {entity}]
    <3>1. /\ entity \in unreadable'[target]
          /\ \A t \in Targets : unreadable[t] \subseteq unreadable'[t]
      BY <1>0, <2>3 DEF TypeOK
    <3>2. Reported'
      BY <1>0, <2>1, <2>3, <3>1, RaisesReported DEF RaisedForReason, caches
    <3>3. QED
      BY <1>0, <2>1, <2>3, <3>2, RaisesTypes DEF CInv, CachesFilled, VerdictSound
  <2>4. QED
    BY <1>3, <2>2, <2>3 DEF FetchCandidate
<1>4. CASE FetchDeletedKeys
  <2>1. /\ step = "tombstones" /\ verdict = None /\ verdict' = None
        /\ UNCHANGED <<candidate, cacheRows, unreadable>>
    BY <1>4 DEF FetchDeletedKeys, CInv, VerdictSound
  <2>2. CASE /\ cacheGone' = [cacheGone EXCEPT ![entity] = CachedGone(entity)]
             /\ step' = "checks" /\ UNCHANGED <<target, entity, reports, unsourced>>
    <3>1. \A e \in Entities : cacheGone[e] # None => cacheGone'[e] = cacheGone[e]
      BY <1>0, <2>2 DEF TypeOK, CachedGone
    <3>2. Reported'
      BY <2>1, <2>2, <3>1, StillReported
    <3>3. CachesFilled'
      BY <1>0, <2>1, <2>2, ReadTypes DEF CInv, CachesFilled, TypeOK
    <3>4. QED
      BY <1>0, <2>1, <3>2, <3>3 DEF CInv, VerdictSound
  <2>3. CASE Raises /\ unsourced' = unsourced \cup {entity} /\ UNCHANGED cacheGone
    <3>1. Reported'
      BY <1>0, <2>1, <2>3, RaisesReported DEF RaisedForReason
    <3>2. QED
      BY <1>0, <2>1, <2>3, <3>1, RaisesTypes DEF CInv, CachesFilled, VerdictSound
  <2>4. QED
    BY <1>4, <2>2, <2>3 DEF FetchDeletedKeys
<1>5. CASE CompareEntity
  <2> DEFINE c == [expected |-> cacheRows[entity], actual |-> candidate[target][entity],
                   gone |-> cacheGone[entity]]
  <2>1. /\ step = "checks" /\ verdict = None /\ verdict' = None
        /\ cacheRows[entity] # None /\ cacheGone[entity] # None
        /\ UNCHANGED <<candidate, caches, unreadable, unsourced>>
    BY <1>5 DEF CompareEntity, CInv, CachesFilled, VerdictSound
  <2>2. CASE ~(Canonical(c.expected) /\ Canonical(c.actual)) /\ Raises
    <3>1. Reported'
      BY <1>0, <2>1, <2>2, RaisesReported DEF RaisedForReason, caches, Canonical
    <3>2. QED
      BY <1>0, <2>1, <2>2, <3>1, RaisesTypes DEF CInv, CachesFilled, VerdictSound
  <2>3. CASE /\ Canonical(c.expected) /\ Canonical(c.actual)
             /\ reports' = [reports EXCEPT ![target][entity] = c] /\ NextEntity
    <3>1. ASSUME NEW t \in Targets, NEW e \in Entities, Behind(t, e)'
          PROVE  FromCaches(t, e)' \/ RaisedForReason(t, e)'
      <4>1. CASE t = target /\ e = entity
        <5>1. reports'[t][e] = c
          BY <1>0, <2>3, <4>1 DEF TypeOK
        <5>2. FromCaches(t, e)'
          BY <2>1, <2>3, <4>1, <5>1 DEF FromCaches, caches, Canonical
        <5>3. QED
          BY <5>2
      <4>2. CASE ~(t = target /\ e = entity)
        <5>1. reports'[t][e] = reports[t][e]
          BY <1>0, <2>3, <4>2 DEF TypeOK
        <5>2. Behind(t, e)
          BY <1>0, <2>1, <2>3, <3>1, <4>2, NextEntityBehind
        <5>3. FromCaches(t, e) \/ RaisedForReason(t, e)
          BY <5>2 DEF CInv, Reported
        <5>4. QED
          BY <2>1, <5>1, <5>3, ReportKept DEF caches
      <4>3. QED
        BY <4>1, <4>2
    <3>2. Reported'
      BY <3>1 DEF Reported
    <3>3. QED
      BY <1>0, <2>1, <2>3, <3>2, NextEntityTypes DEF CInv, CachesFilled, VerdictSound
  <2>4. QED
    BY <1>5, <2>2, <2>3 DEF CompareEntity
<1>6. CASE CompareReports
  <2>1. UNCHANGED <<candidate, caches, target, entity, reports, unreadable, unsourced>>
        /\ step \in {"compare", "done"} /\ step' = "done"
    BY <1>6 DEF CompareReports
  <2>2. Reported'
    BY <2>1, StillReported DEF caches
  <2>3. VerdictSound'
    BY <1>6, <2>1 DEF CompareReports, VerdictSound, Disagreements, TargetPassed
  <2>4. QED
    BY <1>0, <2>1, <2>2, <2>3 DEF CInv, CachesFilled
<1>7. CASE UNCHANGED vars
  <2>1. Reported'
    BY <1>7, StillReported DEF vars, caches, control
  <2>2. QED
    BY <1>0, <1>7, <2>1
       DEF vars, caches, control, CInv, CachesFilled, VerdictSound, Disagreements, TargetPassed
<1>8. QED
  BY <1>1, <1>2, <1>3, <1>4, <1>5, <1>6, <1>7 DEF Next

LEMMA AlwaysCInv == Spec => []CInv
BY InitCInv, NextCInv, PTL DEF Spec

(* The variables keep their types, whichever read raises.                  *)
THEOREM CompareTypeCorrect == Spec => []TypeOK
<1>1. CInv => TypeOK
  BY DEF CInv
<1>2. QED
  BY <1>1, AlwaysCInv, PTL

(* All that a report holds when a verdict is out.                          *)
LEMMA AllReported ==
    ASSUME CInv, verdict # None, NEW t \in Targets, NEW e \in Entities
    PROVE  FromCaches(t, e) \/ RaisedForReason(t, e)
BY DEF CInv, VerdictSound, Reported, Behind

(* The command passes only when every target holds the rows that one read  *)
(* of source history returned, for any number of targets and entities.     *)
THEOREM ComparePassedMeansIdentical == Spec => []PassedMeansIdentical
<1>1. CInv => PassedMeansIdentical
  <2> SUFFICES ASSUME CInv, verdict = "passed", NEW t \in Targets, NEW e \in Entities
               PROVE  /\ candidate[t][e] = cacheRows[e]
                      /\ cacheGone[e] \cap DOMAIN candidate[t][e] = {}
    BY DEF PassedMeansIdentical
  <2>1. verdict # None /\ EntityPassed(e, reports[t][e])
    BY DEF CInv, VerdictSound, TargetPassed
  <2>2. FromCaches(t, e)
    BY <2>1, AllReported DEF EntityPassed, RaisedForReason
  <2>3. QED
    BY <2>1, <2>2 DEF FromCaches, EntityPassed, Checksum, StillPresent
<1>2. QED
  BY <1>1, AlwaysCInv, PTL

(* A disagreement is reported only when the warehouses differ or a read    *)
(* raised, never because the source moved between two validations.         *)
THEOREM CompareDisagreements == Spec => []DisagreementIsWarehouseSide
<1>1. CInv => DisagreementIsWarehouseSide
  <2> SUFFICES ASSUME CInv, verdict # None, NEW e \in Disagreements,
                      \A t, u \in Targets : candidate[t][e] = candidate[u][e],
                      \A t \in Targets : e \notin unreadable[t],
                      e \notin unsourced
               PROVE  FALSE
    BY DEF DisagreementIsWarehouseSide
  <2>1. PICK t \in Targets, u \in Targets : ~SameResults(reports[t][e], reports[u][e])
    BY DEF Disagreements
  <2>2. e \in Entities /\ candidate[t][e] = candidate[u][e]
    BY DEF Disagreements
  <2>3. \A v \in {t, u} : \/ FromCaches(v, e)
                          \/ /\ reports[v][e] = Query
                             /\ ~(Canonical(cacheRows[e]) /\ Canonical(candidate[v][e]))
    BY <2>2, AllReported DEF RaisedForReason
  <2>4. CASE FromCaches(t, e) /\ FromCaches(u, e)
    <3>1. reports[t][e] = reports[u][e] /\ reports[t][e] # Query
      BY <2>2, <2>4 DEF FromCaches, Query
    <3>2. QED
      BY <2>1, <3>1 DEF SameResults
  <2>5. CASE reports[t][e] = Query /\ reports[u][e] = Query
    BY <2>1, <2>5 DEF SameResults
  <2>6. \/ FromCaches(t, e) /\ FromCaches(u, e)
        \/ reports[t][e] = Query /\ reports[u][e] = Query
    BY <2>2, <2>3 DEF FromCaches
  <2>7. QED
    BY <2>4, <2>5, <2>6
<1>2. QED
  BY <1>1, AlwaysCInv, PTL
=============================================================================
