---------------------------- MODULE IngestionProofs ----------------------------
(***************************************************************************)
(* Ingestion loses nothing and its snapshots show the last change of each  *)
(* key, for every source log, number of partitions and run ids, any number *)
(* of restarts of the connector and dying queries, and every interleaving  *)
(* of backfills with the query.                                            *)
(***************************************************************************)
EXTENDS Ingestion, WellFoundedInduction, TLAPS

-----------------------------------------------------------------------------
(* The parser *)

(* A set of indices that is not empty has a first one.                     *)
LEMMA FirstExists ==
    ASSUME NEW S, S \subseteq 1..10, S # {}
    PROVE  Min(S) \in S /\ \A y \in S : Min(S) <= y
<1> DEFINE R == OpToRel(<, Nat)
<1>1. IsWellFoundedOn(R, Nat)
  BY NatLessThanWellFounded
<1>2. \A x, y \in Nat : <<x, y>> \in R <=> x < y
  BY DEF OpToRel
<1> HIDE DEF R
<1>3. S \subseteq Nat
  OBVIOUS
<1>4. PICK m \in S : \A y \in S : ~(<<y, m>> \in R)
  BY <1>1, <1>3, WFMin
<1>5. ASSUME NEW y \in S PROVE m <= y
  <2>1. y \in Nat /\ m \in Nat /\ ~(<<y, m>> \in R)
    BY <1>3, <1>4
  <2>2. ~(y < m)
    BY <1>2, <2>1
  <2>3. QED
    BY <2>1, <2>2
<1>6. QED
  BY <1>5 DEF Min

(* The first check that fails decides, and no check else.                  *)
LEMMA ParseDecides ==
    ASSUME NEW r, r.body # "null"
    PROVE  \/ (\A i \in 1..10 : Checks(r)[i].ok) /\ Parse(r) = CdcEvent(r)
           \/ \E i \in 1..10 : /\ ~Checks(r)[i].ok /\ \A j \in 1..10 : j < i => Checks(r)[j].ok
                               /\ Parse(r) = Malformed(Checks(r)[i].reason)
<1> DEFINE checks == Checks(r)
           failing == {i \in 1..Len(checks) : ~checks[i].ok}
           failed == IF failing # {} THEN Min(failing) ELSE 0
<1>1. Parse(r) = IF failed = 0 THEN CdcEvent(r) ELSE Malformed(checks[failed].reason)
  BY DEF Parse, SelectInSeq
<1>2. Len(checks) = 10
  BY DEF Checks
<1> HIDE DEF checks
<1>3. CASE failing = {}
  BY <1>1, <1>2, <1>3 DEF checks
<1>4. CASE failing # {}
  <2>1. failing \subseteq 1..10
    BY <1>2
  <2>2. failed \in failing /\ \A y \in failing : failed <= y
    BY <1>4, <2>1, FirstExists
  <2> HIDE DEF failed
  <2>3. failed \in 1..10 /\ failed # 0 /\ ~checks[failed].ok
    BY <2>1, <2>2
  <2>4. \A j \in 1..10 : j < failed => checks[j].ok
    BY <1>2, <2>2, <2>3
  <2>5. QED
    BY <1>1, <2>3, <2>4 DEF checks
<1>5. QED
  BY <1>3, <1>4

(* The checks, one by one.                                                 *)
LEMMA ChecksAre ==
    ASSUME NEW r
    PROVE  /\ Checks(r)[1].ok <=> r.body # "notJson"
           /\ Checks(r)[2].ok <=> r.body = "envelope"
           /\ Checks(r)[3].ok <=> r.op \in Operations
           /\ Checks(r)[4].ok <=> ImageOf(r) # NoRow
           /\ Checks(r)[5].ok <=> r.source # NoSource
           /\ Checks(r)[6].ok <=> r.source.lsn # Absent
           /\ Checks(r)[7].ok <=> SchemaOk(r)
           /\ Checks(r)[8].ok <=> r.key \in Keys
           /\ Checks(r)[9].ok <=> KeysMatch(r)
           /\ Checks(r)[10].ok <=> BatchOf(r) # Absent
BY DEF Checks

(* The reasons, one by one.                                                *)
LEMMA ReasonsAre ==
    ASSUME NEW r
    PROVE  /\ Checks(r)[1].reason = "invalid_json"
           /\ Checks(r)[2].reason = "invalid_envelope"
           /\ Checks(r)[3].reason = "unsupported_operation"
           /\ Checks(r)[4].reason = "invalid_envelope"
           /\ Checks(r)[5].reason = "invalid_envelope"
           /\ Checks(r)[6].reason = "missing_source_lsn"
           /\ Checks(r)[7].reason = "invalid_schema"
           /\ Checks(r)[8].reason = "missing_key"
           /\ Checks(r)[9].reason = "invalid_schema"
           /\ Checks(r)[10].reason = "missing_batch_id"
BY DEF Checks

(* Decoding leaves everything but the decimals of a row as it was, and     *)
(* makes them text exactly when they can be read.                          *)
LEMMA ImageIsRow ==
    ASSUME NEW r, IsRecord(r)
    PROVE  /\ ImageOf(r).key = RowOf(r).key /\ ImageOf(r).complete = RowOf(r).complete
           /\ ImageOf(r).batch = RowOf(r).batch
           /\ RowOf(r) # NoRow => (ImageOf(r).decimal = "text" <=> Readable(r, RowOf(r)))
           /\ ImageOf(r) = NoRow <=> RowOf(r) = NoRow
<1> DEFINE row == RowOf(r)
           text == [row EXCEPT !.decimal = "text"]
<1>1. IsRow(row) /\ r.declared \in BOOLEAN
  BY DEF IsRecord, RowOf
<1>2. ImageOf(r) = IF r.declared /\ row.decimal = "encoded" THEN text ELSE row
  BY DEF ImageOf, RowOf, Decoded
<1> HIDE DEF row
<1>3. /\ text.key = row.key /\ text.complete = row.complete
      /\ text.batch = row.batch /\ text.decimal = "text"
  BY <1>1 DEF IsRow
<1> HIDE DEF text
<1>4. NoRow.decimal = "none"
  BY DEF NoRow
<1>5. /\ ImageOf(r).key = row.key /\ ImageOf(r).complete = row.complete
      /\ ImageOf(r).batch = row.batch
  BY <1>2, <1>3
<1>6. row # NoRow => (ImageOf(r).decimal = "text" <=> Readable(r, row))
  BY <1>1, <1>2, <1>3 DEF IsRow, Readable
<1>7. ImageOf(r) = NoRow <=> row = NoRow
  BY <1>2, <1>3, <1>4
<1>8. QED
  BY <1>5, <1>6, <1>7 DEF row

(* What the parser refuses has a flaw, and the reason it gives is one of   *)
(* its flaws; what it accepts has none.                                    *)
THEOREM ParserNamesAFlaw ==
    ASSUME NEW r, IsRecord(r)
    PROVE  /\ Flaws(r) = {} => Parse(r).kind \in {"event", "tombstone"}
           /\ Flaws(r) # {} => \E reason \in Flaws(r) : Parse(r) = Malformed(reason)
<1> USE ParsingAssumption
<1>1. CASE r.body = "null"
  <2>1. Parse(r) = IF r.key \in Keys THEN Tombstone(r.key) ELSE Malformed("missing_key")
    BY <1>1 DEF Parse
  <2>2. \A reason : reason \in Flaws(r) <=> reason = "missing_key" /\ r.key \notin Keys
    BY <1>1 DEF Flaws, Flaw, Reasons
  <2>3. QED
    BY <2>1, <2>2 DEF Tombstone
<1>2. CASE r.body # "null" /\ \A i \in 1..10 : Checks(r)[i].ok
  <2>1. Parse(r) = CdcEvent(r)
    BY <1>2, ParseDecides
  <2>2. /\ r.body = "envelope" /\ r.op \in Operations /\ ImageOf(r) # NoRow
        /\ r.source # NoSource /\ r.source.lsn # Absent /\ SchemaOk(r) /\ r.key \in Keys
        /\ KeysMatch(r) /\ BatchOf(r) # Absent
    BY <1>2, ChecksAre
  <2>3. RowOf(r) # NoRow /\ ~RowFlaw(r)
    BY <2>2, ImageIsRow DEF SchemaOk, FitsSchema, KeysMatch, RowFlaw
  <2>4. ~(RowOf(r).batch \in Missing /\ r.source.batch \in Missing)
    BY <2>2, ImageIsRow DEF BatchOf, OrElse, Positive, Missing
  <2>5. Flaws(r) = {}
    BY <2>2, <2>3, <2>4 DEF Flaws, Flaw
  <2>6. QED
    BY <2>1, <2>5 DEF CdcEvent
<1>3. CASE r.body # "null" /\ ~ \A i \in 1..10 : Checks(r)[i].ok
  <2>1. PICK i \in 1..10 : /\ ~Checks(r)[i].ok /\ \A j \in 1..10 : j < i => Checks(r)[j].ok
                           /\ Parse(r) = Malformed(Checks(r)[i].reason)
    BY <1>3, ParseDecides
  <2>2. Checks(r)[i].reason \in Flaws(r)
    <3>1. CASE i = 1
      BY <2>1, <3>1, ChecksAre, ReasonsAre DEF Flaws, Flaw, Reasons
    <3>2. CASE i = 2
      BY <1>3, <2>1, <3>2, ChecksAre, ReasonsAre DEF Flaws, Flaw, Reasons, IsRecord
    <3>3. i > 2 => r.body = "envelope"
      BY <2>1, ChecksAre
    <3>4. i > 3 => r.op \in Operations
      BY <2>1, ChecksAre
    <3>5. i > 4 => RowOf(r) # NoRow
      <4>1. i > 4 => ImageOf(r) # NoRow
        BY <2>1, ChecksAre
      <4>2. QED
        BY <4>1, ImageIsRow
    <3>6. i > 5 => r.source # NoSource
      BY <2>1, ChecksAre
    <3>7. i > 8 => r.key \in Keys
      BY <2>1, ChecksAre
    <3>8. CASE i = 3
      BY <2>1, <3>3, <3>8, ChecksAre, ReasonsAre DEF Flaws, Flaw, Reasons
    <3>9. CASE i = 4
      <4>1. RowOf(r) = NoRow
        BY <2>1, <3>9, ChecksAre, ImageIsRow
      <4>2. QED
        BY <3>3, <3>9, <4>1, ChecksAre, ReasonsAre DEF Flaws, Flaw, Reasons
    <3>10. CASE i = 5
      BY <2>1, <3>3, <3>10, ChecksAre, ReasonsAre DEF Flaws, Flaw, Reasons
    <3>11. CASE i = 6
      BY <2>1, <3>3, <3>6, <3>11, ChecksAre, ReasonsAre DEF Flaws, Flaw, Reasons
    <3>12. CASE i = 7
      <4>1. RowOf(r) # NoRow /\ ~SchemaOk(r)
        BY <2>1, <3>5, <3>12, ChecksAre
      <4>2. RowFlaw(r)
        BY <4>1, ImageIsRow DEF SchemaOk, FitsSchema, RowFlaw
      <4>3. QED
        BY <3>3, <3>12, <4>1, <4>2, ReasonsAre DEF Flaws, Flaw, Reasons
    <3>13. CASE i = 8
      BY <2>1, <3>3, <3>13, ChecksAre, ReasonsAre DEF Flaws, Flaw, Reasons
    <3>14. CASE i = 9
      <4>1. RowOf(r) # NoRow /\ ~KeysMatch(r) /\ r.key \in Keys
        BY <2>1, <3>5, <3>7, <3>14, ChecksAre
      <4>2. RowFlaw(r)
        BY <4>1, ImageIsRow DEF KeysMatch, RowFlaw
      <4>3. QED
        BY <3>3, <3>14, <4>1, <4>2, ReasonsAre DEF Flaws, Flaw, Reasons
    <3>15. CASE i = 10
      <4>1. RowOf(r) # NoRow /\ BatchOf(r) = Absent
        BY <2>1, <3>5, <3>15, ChecksAre
      <4>2. RowOf(r).batch \in Missing /\ r.source.batch \in Missing
        BY <4>1, ImageIsRow DEF BatchOf, OrElse, Positive, Missing
      <4>3. QED
        BY <3>3, <3>6, <3>15, <4>1, <4>2, ReasonsAre DEF Flaws, Flaw, Reasons
    <3>16. QED
      BY <3>1, <3>2, <3>8, <3>9, <3>10, <3>11, <3>12, <3>13, <3>14, <3>15
  <2>3. QED
    BY <2>1, <2>2
<1>4. QED
  BY <1>1, <1>2, <1>3

(* A record that tells of a change passes every check and is read as that  *)
(* change, in whatever form the connector sent it.                         *)
LEMMA ParseConveys ==
    ASSUME NEW r, IsRecord(r), NEW c, Conveys(r, c) PROVE Parse(r) = c
<1> USE ParsingAssumption
<1>1. /\ r.body = "envelope" /\ r.op \in Operations /\ r.op = c.op /\ r.key \in Keys
      /\ r.key = c.key /\ RowOf(r).key = r.key /\ RowOf(r).complete /\ Readable(r, RowOf(r))
      /\ r.source.lsn = c.lsn /\ c.lsn # Absent
  BY DEF Conveys
<1>2. /\ ImageOf(r) # NoRow /\ ImageOf(r).key = r.key /\ ImageOf(r).complete
      /\ ImageOf(r).decimal = "text" /\ ImageOf(r).batch = RowOf(r).batch
  <2>1. RowOf(r) # NoRow
    BY <1>1 DEF NoRow
  <2>2. QED
    BY <1>1, <2>1, ImageIsRow
<1>3. BatchOf(r) = c.batch /\ c.batch # Absent
  BY <1>2 DEF Conveys, BatchOf, OrElse, Positive, Missing
<1>4. TransactionOrder(r) = c.tx
  BY DEF Conveys, TransactionOrder, OrElse, Positive, Missing
<1>5. OrElse(r.source.day, r.day) = c.day
  BY DEF Conveys, OrElse
<1>6. r.source # NoSource
  BY <1>1 DEF NoSource
<1>7. SchemaOk(r) /\ KeysMatch(r)
  BY <1>1, <1>2 DEF SchemaOk, FitsSchema, KeysMatch
<1>8. \A i \in 1..10 : Checks(r)[i].ok
  <2>1. /\ Checks(r)[1].ok /\ Checks(r)[2].ok /\ Checks(r)[3].ok /\ Checks(r)[4].ok
        /\ Checks(r)[5].ok /\ Checks(r)[6].ok /\ Checks(r)[7].ok /\ Checks(r)[8].ok
        /\ Checks(r)[9].ok /\ Checks(r)[10].ok
    BY <1>1, <1>2, <1>3, <1>6, <1>7, ChecksAre
  <2> DEFINE ok(i) == Checks(r)[i].ok
  <2>2. ok(1) /\ ok(2) /\ ok(3) /\ ok(4) /\ ok(5) /\ ok(6) /\ ok(7) /\ ok(8) /\ ok(9) /\ ok(10)
    BY <2>1
  <2> HIDE DEF ok
  <2>3. \A i \in 1..10 : ok(i)
    BY <2>2
  <2>4. QED
    BY <2>3 DEF ok
<1>9. Parse(r) = CdcEvent(r)
  BY <1>1, <1>8, ParseDecides
<1>10. CdcEvent(r) = c
  BY <1>1, <1>3, <1>4, <1>5 DEF CdcEvent, Conveys
<1>11. QED
  BY <1>9, <1>10

(* The parser takes a record for what its sender means by it: the change   *)
(* it tells of, a tombstone, or the one damage it has.                     *)
THEOREM ParserFaithful ==
    ASSUME NEW r, IsRecord(r), NEW m, Means(r, m) PROVE Parse(r) = m
<1>1. CASE Conveys(r, m)
  BY <1>1, ParseConveys
<1>2. CASE r.body = "null" /\ r.key \in Keys /\ m = Tombstone(r.key)
  BY <1>2 DEF Parse
<1>3. ASSUME NEW reason \in Reasons, Flaws(r) = {reason}, m = Malformed(reason)
      PROVE  Parse(r) = m
  BY <1>3, ParserNamesAFlaw
<1>4. QED
  BY <1>1, <1>2, <1>3 DEF Means

(* The event date of a record is that of its source block, its envelope or *)
(* of Kafka, and never missing.                                            *)
LEMMA EventDayIsDay ==
    ASSUME NEW r, IsRecord(r) PROVE EventDay(r) \in Nat \ {0}
<1>1. CASE Parse(r).kind = "event"
  <2>1. r.body # "null" /\ Parse(r) # Malformed("missing_key")
    BY <1>1 DEF Parse, Tombstone, Malformed
  <2>2. \A reason : Parse(r) # Malformed(reason)
    BY <1>1 DEF Malformed
  <2>3. (\A i \in 1..10 : Checks(r)[i].ok) /\ Parse(r) = CdcEvent(r)
    BY <2>1, <2>2, ParseDecides
  <2>4. r.source # NoSource
    BY <2>3, ChecksAre
  <2>5. IsDay(Parse(r).day)
    BY <2>3, <2>4 DEF CdcEvent, OrElse, IsDay, IsRecord
  <2>6. QED
    BY <1>1, <2>5 DEF EventDay, OrElse, IsDay, IsRecord
<1>2. CASE Parse(r).kind # "event"
  BY <1>2 DEF EventDay, IsRecord
<1>3. QED
  BY <1>1, <1>2

-----------------------------------------------------------------------------
(* The invariant *)

USE IngestionAssumption, NothingAssumption

(* Offsets of records that are in the topic.                               *)
InTopic(upto) ==
    upto \in [Partitions -> Nat] /\ \A p \in Partitions : upto[p] <= Len(topic[p])
UpTo(from, to) == \A p \in Partitions : from[p] <= to[p]

(* Committed, planned and targeted offsets follow each other.              *)
Types ==
    /\ log \in Logs /\ sent \in Nat /\ sent <= Len(log)
    /\ topic \in [Partitions -> Seq(DOMAIN log)]
    /\ batchId \in Nat
    /\ proc # Nothing =>
         proc = [run |-> proc.run, target |-> proc.target, date |-> proc.date,
                 step |-> proc.step, todo |-> proc.todo]
OffsetsInv ==
    /\ InTopic(committed)
    /\ planned # Nothing => InTopic(planned) /\ UpTo(committed, planned)
    /\ proc # Nothing =>
         /\ InTopic(proc.target) /\ UpTo(committed, proc.target)
         /\ planned # Nothing => UpTo(planned, proc.target)
    /\ proc # Nothing /\ proc.step # "poll" => planned # Nothing

(* A file of a committed batch, or one that the planned batch may have     *)
(* written, under whatever run id.                                         *)
OfBatch(f) ==
    \/ f.id \in Nat /\ f.id < batchId /\ f.rec \in Below(committed)
    \/ f.id = batchId /\ planned # Nothing /\ f.rec \in Below(planned)
Kept(rec) == Result(rec).kind # "malformed"

BronzeSound == \A f \in bronze : OfBatch(f) /\ Kept(f.rec) /\ f.date = DateOf(f.rec)
DeadSound ==
    \A f \in dead : OfBatch(f) /\ ~Kept(f.rec) /\ f.reason = Result(f.rec).reason

(* What is committed is in a file that no later overwrite reaches: the     *)
(* paths are those of the next batch.                                      *)
BronzeComplete ==
    \A rec \in Below(committed) :
        Kept(rec) => \E f \in bronze : f.rec = rec /\ f.id < batchId
DeadComplete ==
    \A rec \in Below(committed) :
        ~Kept(rec) => \E f \in dead : f.rec = rec /\ f.id < batchId

(* How far the foreachBatch call under way has come.                       *)
BatchWritten ==
    /\ proc # Nothing /\ proc.step \in {"dates", "fill", "commit"} =>
         \A rec \in InBatch : Kept(rec) =>
            \/ DateOf(rec) \in proc.todo
            \/ proc.step = "fill" /\ DateOf(rec) = proc.date
            \/ \E f \in bronze : f.rec = rec /\ f.id = batchId
    /\ proc # Nothing /\ proc.step = "commit" =>
         /\ proc.todo = {}
         /\ \A rec \in InBatch : ~Kept(rec) => \E f \in dead : f.rec = rec /\ f.id = batchId

(* The snapshots.                                                          *)
SilverInv ==
    silver # Nothing =>
        /\ InTopic(silver.upto)
        /\ SnapshotReadsPrefix /\ BackfillCoversCommitted

Files == BronzeSound /\ DeadSound /\ BronzeComplete /\ DeadComplete
GInv == Types /\ OffsetsInv /\ Files /\ BatchWritten /\ SilverInv

-----------------------------------------------------------------------------
(* Lemmas on the helpers *)

LEMMA BelowMonotone ==
    ASSUME NEW from \in [Partitions -> Nat], NEW to \in [Partitions -> Nat], UpTo(from, to)
    PROVE  Below(from) \subseteq Below(to)
<1>1. MaxRecords \in Nat
  BY LongestAssumption DEF MaxRecords
<1>2. \A rec \in Records : rec[1] \in Partitions /\ rec[2] \in Nat
  BY <1>1 DEF Records
<1>3. QED
  BY <1>2 DEF Below, UpTo

(* What the parser makes of a delivered record does not change.            *)
LEMMA ResultStable ==
    ASSUME log' = log,
           \A p \in Partitions : \A o \in 1..Len(topic[p]) : topic'[p][o] = topic[p][o],
           \A p \in Partitions : Len(topic[p]) \in Nat,
           NEW upto, InTopic(upto), NEW rec \in Below(upto)
    PROVE  Result(rec)' = Result(rec) /\ DateOf(rec)' = DateOf(rec) /\ Kept(rec)' = Kept(rec)
<1>1. rec[1] \in Partitions /\ rec[2] \in 1..Len(topic[rec[1]])
  <2>1. MaxRecords \in Nat
    BY LongestAssumption DEF MaxRecords
  <2>2. rec[1] \in Partitions /\ rec[2] \in Nat \ {0} /\ rec[2] <= upto[rec[1]]
    BY <2>1 DEF Below, Records
  <2>3. upto[rec[1]] \in Nat /\ upto[rec[1]] <= Len(topic[rec[1]]) /\ Len(topic[rec[1]]) \in Nat
    BY <2>2 DEF InTopic
  <2>4. QED
    BY <2>2, <2>3
<1>2. Message(rec)' = Message(rec)
  BY <1>1 DEF Message
<1>3. QED
  BY <1>2 DEF Result, DateOf, Kept

LEMMA ResultUnchanged ==
    ASSUME UNCHANGED <<log, topic>>
    PROVE  \A rec : /\ Result(rec)' = Result(rec) /\ DateOf(rec)' = DateOf(rec)
                    /\ Kept(rec)' = Kept(rec)
BY DEF Result, DateOf, Kept, Message

LEMMA InitGInv == Init => GInv
<1> SUFFICES ASSUME Init PROVE GInv
  OBVIOUS
<1>1. Types
  BY DEF Init, Types
<1>2. InTopic(committed)
  BY DEF Init, InTopic
<1>3. Below(committed) = {}
  BY DEF Init, Below, Records
<1>4. QED
  BY <1>1, <1>2, <1>3
     DEF Init, GInv, OffsetsInv, Files, BronzeSound, DeadSound, BronzeComplete, DeadComplete,
         BatchWritten, SilverInv

-----------------------------------------------------------------------------
(* The topic grows under everything else. *)

LEMMA ProduceGInv == ASSUME GInv, Produce PROVE GInv'
<1> USE DEF GInv
<1>1. UNCHANGED <<log, resends, checkpointVars, fileVars, silver, proc>> /\ sent' = sent + 1
  BY DEF Produce
<1>2. PICK p : topic' = [topic EXCEPT ![p] = Append(@, sent + 1)]
  BY DEF Produce
<1>3. sent + 1 \in DOMAIN log
  <2>1. log \in Logs /\ sent \in Nat /\ sent < Len(log)
    BY DEF Produce, Types
  <2>2. Len(log) \in Nat /\ DOMAIN log = 1..Len(log)
    BY <2>1
  <2>3. QED
    BY <2>1, <2>2
<1>4. /\ topic' \in [Partitions -> Seq(DOMAIN log)]
      /\ \A q \in Partitions : Len(topic[q]) \in Nat /\ Len(topic[q]) <= Len(topic'[q])
      /\ \A q \in Partitions : \A o \in 1..Len(topic[q]) : topic'[q][o] = topic[q][o]
  <2> DEFINE Indices == DOMAIN log
  <2>1. topic \in [Partitions -> Seq(Indices)] /\ sent + 1 \in Indices
    BY <1>3 DEF Types
  <2> HIDE DEF Indices
  <2>2. ASSUME NEW q \in Partitions
        PROVE  /\ topic'[q] \in Seq(Indices)
               /\ Len(topic[q]) \in Nat /\ Len(topic[q]) <= Len(topic'[q])
               /\ \A o \in 1..Len(topic[q]) : topic'[q][o] = topic[q][o]
    <3>1. topic'[q] = topic[q] \/ topic'[q] = Append(topic[q], sent + 1)
      BY <1>2, <2>1
    <3>2. topic[q] \in Seq(Indices)
      BY <2>1
    <3>3. CASE topic'[q] = topic[q]
      BY <3>2, <3>3
    <3>4. CASE topic'[q] = Append(topic[q], sent + 1)
      BY <2>1, <3>2, <3>4
    <3>5. QED
      BY <3>1, <3>3, <3>4
  <2>3. topic' = [q \in Partitions |-> topic'[q]]
    BY <1>2, <2>1
  <2>4. QED
    BY <2>2, <2>3 DEF Indices
<1>5. Types'
  BY <1>1, <1>3, <1>4 DEF Types, checkpointVars
<1>6. \A upto : InTopic(upto) => InTopic(upto)'
  BY <1>4 DEF InTopic, Types
<1>7. OffsetsInv'
  BY <1>1, <1>6 DEF OffsetsInv, checkpointVars, InTopic
<1>8. \A upto : InTopic(upto) => \A rec \in Below(upto) :
          Result(rec)' = Result(rec) /\ DateOf(rec)' = DateOf(rec) /\ Kept(rec)' = Kept(rec)
  BY <1>1, <1>4, ResultStable
<1>9. /\ InTopic(committed) /\ (planned # Nothing => InTopic(planned))
      /\ \A rec \in InBatch : planned # Nothing => rec \in Below(planned)
      /\ \A f \in bronze \cup dead : OfBatch(f) =>
            f.rec \in Below(committed) \/ (planned # Nothing /\ f.rec \in Below(planned))
  BY DEF OffsetsInv, OfBatch, InBatch
<1>10. /\ UNCHANGED <<InBatch, Below(committed), batchId, planned, committed, bronze, dead, proc>>
       /\ \A f : OfBatch(f)' = OfBatch(f)
  BY <1>1 DEF checkpointVars, fileVars, InBatch, Below, OfBatch
<1>11. Files'
  BY <1>8, <1>9, <1>10
     DEF Files, BronzeSound, DeadSound, BronzeComplete, DeadComplete
<1>12. BatchWritten'
  BY <1>8, <1>9, <1>10 DEF BatchWritten, OffsetsInv
<1>13. SilverInv'
  <2>1. silver' = silver
    BY <1>1
  <2>2. CASE silver # Nothing
    <3>1. InTopic(silver.upto) /\ InTopic(silver.upto)'
      BY <1>6, <2>1, <2>2 DEF SilverInv, InTopic
    <3>2. \A rec \in Below(silver.upto) :
             Result(rec)' = Result(rec) /\ DateOf(rec)' = DateOf(rec)
      BY <1>8, <3>1
    <3>3. Valid(Below(silver.upto))' = Valid(Below(silver.upto))
      BY <2>1, <3>2 DEF Valid, Below
    <3>4. QED
      BY <2>1, <2>2, <3>1, <3>2, <3>3
         DEF SilverInv, SnapshotReadsPrefix, BackfillCoversCommitted, OfQuery, OfBackfill,
             Valid
  <2>3. QED
    BY <2>1, <2>2 DEF SilverInv
<1>14. QED
  BY <1>5, <1>7, <1>11, <1>12, <1>13
-----------------------------------------------------------------------------
(* Steps that leave the topic alone *)

(* A snapshot that reads what it should establishes the two properties.    *)
LEMMA SnapshotTaken ==
    ASSUME GInv, NEW r, NEW end, NEW recs, UNCHANGED <<log, topic>>,
           silver' = Snapshot(r, recs, end), InTopic(silver.upto)',
           silver'.end = Nothing => silver'.read = Valid(Below(silver'.upto)),
           silver'.end # Nothing =>
             {rec \in Valid(Below(silver'.upto)) : DateOf(rec) <= silver'.end} \subseteq silver'.read
    PROVE  SilverInv'
<1>1. \A rec : /\ Result(rec)' = Result(rec) /\ DateOf(rec)' = DateOf(rec)
  BY ResultUnchanged
<1>2. Valid(Below(silver.upto))' = Valid(Below(silver'.upto))
  BY <1>1 DEF Valid, Below
<1>3. QED
  BY <1>1, <1>2 DEF SilverInv, SnapshotReadsPrefix, BackfillCoversCommitted, OfQuery, OfBackfill

LEMMA SilverKept ==
    ASSUME SilverInv, UNCHANGED <<log, topic, silver>> PROVE SilverInv'
<1>1. \A rec : /\ Result(rec)' = Result(rec) /\ DateOf(rec)' = DateOf(rec)
  BY ResultUnchanged
<1>2. Valid(Below(silver.upto))' = Valid(Below(silver.upto))
  BY <1>1 DEF Valid, Below
<1>3. QED
  BY <1>1, <1>2
     DEF SilverInv, SnapshotReadsPrefix, BackfillCoversCommitted, OfQuery, OfBackfill, InTopic

(* Files and checkpoint stay as they are.                                  *)
LEMMA FilesKept ==
    ASSUME Files, UNCHANGED <<log, topic, bronze, dead, batchId, committed>>,
           planned # Nothing => planned' = planned
    PROVE  Files'
<1>1. \A rec : /\ Result(rec)' = Result(rec) /\ DateOf(rec)' = DateOf(rec)
               /\ Kept(rec)' = Kept(rec)
  BY ResultUnchanged
<1>2. Below(committed)' = Below(committed)
  BY DEF Below
<1>3. \A f : OfBatch(f) => OfBatch(f)'
  <2>1. planned # Nothing => planned' # Nothing /\ Below(planned)' = Below(planned)
    BY DEF Below
  <2>2. QED
    BY <1>2, <2>1 DEF OfBatch
<1>4. QED
  BY <1>1, <1>2, <1>3
     DEF Files, BronzeSound, DeadSound, BronzeComplete, DeadComplete

(* Steps of the process that write no file.                                *)
LEMMA ControlGInv ==
    ASSUME GInv, (\E r \in Cutoffs : StartQuery(r)) \/ Replay \/ Plan \/ ParseBatch \/ Crash
    PROVE  GInv'
<1> USE DEF GInv
<1>1. UNCHANGED <<sourceVars, committed, batchId, fileVars, silver>>
  BY DEF StartQuery, Replay, Plan, ParseBatch, Crash, checkpointVars
<1>2. SilverInv'
  BY <1>1, SilverKept DEF sourceVars
<1>3. Files'
  BY <1>1, FilesKept DEF sourceVars, fileVars, StartQuery, Replay, Plan, ParseBatch, Crash,
                         checkpointVars
<1>4. Types'
  BY DEF StartQuery, Replay, Plan, ParseBatch, Crash, checkpointVars, sourceVars, At, Types
<1>5. OffsetsInv'
  <2>1. \A p \in Partitions : Len(topic[p]) \in Nat
    BY DEF Types
  <2>2. ASSUME NEW r \in Cutoffs, StartQuery(r)
        PROVE  OffsetsInv'
    <3>1. /\ proc'.target = [p \in Partitions |-> Len(topic[p])] /\ proc'.step = "poll"
          /\ UNCHANGED <<topic, planned, committed>>
      BY <2>2 DEF StartQuery, sourceVars, checkpointVars
    <3>2. InTopic(proc.target)'
      BY <2>1, <3>1 DEF InTopic
    <3>3. QED
      BY <3>1, <3>2 DEF OffsetsInv, InTopic, UpTo
  <2>3. CASE Replay
    BY <2>3 DEF Replay, At, Types, checkpointVars, sourceVars, OffsetsInv, InTopic
  <2>4. CASE Plan
    <3>1. /\ proc # Nothing /\ proc'.target = proc.target /\ planned' = proc.target
          /\ UNCHANGED <<topic, committed>>
      BY <2>4 DEF Plan, At, Types, sourceVars
    <3>2. planned' # Nothing /\ InTopic(proc.target) /\ InTopic(proc.target)'
      BY <3>1 DEF OffsetsInv, InTopic
    <3>3. InTopic(committed)' /\ InTopic(planned)' /\ UpTo(committed, planned)'
      BY <3>1, <3>2 DEF OffsetsInv, InTopic, UpTo
    <3>4. UpTo(committed, proc.target)' /\ UpTo(planned, proc.target)'
      BY <3>1, <3>2 DEF OffsetsInv, InTopic, UpTo
    <3>5. QED
      BY <3>2, <3>3, <3>4 DEF OffsetsInv
  <2>5. CASE ParseBatch
    BY <2>5 DEF ParseBatch, At, Types, checkpointVars, sourceVars, OffsetsInv, InTopic
  <2>6. CASE Crash
    BY <2>6 DEF Crash, checkpointVars, sourceVars, OffsetsInv, InTopic
  <2>7. QED
    BY <2>2, <2>3, <2>4, <2>5, <2>6
<1>6. BatchWritten'
  <2>1. CASE proc' = Nothing \/ proc'.step \in {"poll", "parse"}
    BY <2>1 DEF BatchWritten
  <2>2. CASE ParseBatch /\ ~Raises(InBatch)
    <3>1. /\ proc'.step = "dates" /\ proc'.todo = DatesOf(InBatch)
          /\ UNCHANGED <<log, topic, planned, committed>>
      BY <2>2 DEF ParseBatch, At, Types, checkpointVars, sourceVars
    <3>2. InBatch' = InBatch
      BY <3>1 DEF InBatch, Below
    <3>3. \A rec \in InBatch : Kept(rec) => DateOf(rec) \in proc'.todo
      BY <3>1 DEF DatesOf, Valid, Kept
    <3>4. \A rec \in InBatch' : Kept(rec)' => DateOf(rec)' \in proc'.todo
      BY <3>1, <3>2, <3>3, ResultUnchanged
    <3>5. QED
      BY <3>1, <3>4 DEF BatchWritten
  <2>3. QED
    BY <2>1, <2>2 DEF StartQuery, Replay, Plan, ParseBatch, Crash, At, Types
<1>7. QED
  BY <1>2, <1>3, <1>4, <1>5, <1>6

-----------------------------------------------------------------------------
(* The overwrite of a path *)

(* Only files of the next batch's paths are deleted, and what they held is *)
(* still to be filled in.                                                  *)
LEMMA ClearDateGInv == ASSUME GInv, NEW d \in Days, ClearDate(d) PROVE GInv'
<1> USE DEF GInv
<1>1. /\ UNCHANGED <<log, sent, topic, planned, committed, batchId, dead, silver>>
      /\ proc # Nothing /\ proc.step = "dates"
      /\ bronze' = {f \in bronze : ~AtPath(f, d)}
      /\ proc' = [run |-> proc.run, target |-> proc.target, date |-> d, step |-> "fill",
                  todo |-> proc.todo \ {d}]
  BY DEF ClearDate, At, Types, sourceVars, checkpointVars
<1>2. /\ \A rec : Result(rec)' = Result(rec) /\ DateOf(rec)' = DateOf(rec) /\ Kept(rec)' = Kept(rec)
      /\ \A f : OfBatch(f)' = OfBatch(f)
      /\ UNCHANGED <<Below(committed), InBatch>>
  BY <1>1, ResultUnchanged DEF OfBatch, InBatch, Below
<1>3. Types' /\ OffsetsInv'
  BY <1>1 DEF Types, OffsetsInv, InTopic
<1>4. Files'
  <2>1. BronzeSound' /\ DeadSound' /\ DeadComplete'
    BY <1>1, <1>2 DEF Files, BronzeSound, DeadSound, DeadComplete
  <2>2. \A f \in bronze : f.id < batchId => f \in bronze'
    BY <1>1 DEF AtPath, Types
  <2>3. BronzeComplete'
    BY <1>1, <1>2, <2>2 DEF Files, BronzeComplete
  <2>4. QED
    BY <2>1, <2>3 DEF Files
<1>5. BatchWritten'
  <2>1. \A f \in bronze : f.date # d => f \in bronze'
    BY <1>1 DEF AtPath
  <2>2. ASSUME NEW rec \in InBatch, Kept(rec), DateOf(rec) # d
        PROVE  DateOf(rec) \in proc'.todo \/ \E f \in bronze' : f.rec = rec /\ f.id = batchId
    BY <1>1, <2>1, <2>2 DEF BatchWritten, Files, BronzeSound
  <2>3. QED
    BY <1>1, <1>2, <2>2 DEF BatchWritten
<1>6. QED
  BY <1>1, <1>3, <1>4, <1>5, SilverKept

LEMMA FillDateGInv == ASSUME GInv, FillDate PROVE GInv'
<1> USE DEF GInv
<1> DEFINE File(rec) == [run |-> proc.run, id |-> batchId, date |-> proc.date, rec |-> rec]
           due == {rec \in Valid(InBatch) : DateOf(rec) = proc.date}
           filled == {File(rec) : rec \in due}
<1>1. /\ UNCHANGED <<log, sent, topic, planned, committed, batchId, dead, silver>>
      /\ proc # Nothing /\ proc.step = "fill"
      /\ bronze' = bronze \cup filled
      /\ proc' = [run |-> proc.run, target |-> proc.target, date |-> Nothing,
                  step |-> "dates", todo |-> proc.todo]
  BY DEF FillDate, At, Types, sourceVars, checkpointVars
<1>2. /\ \A rec : Result(rec)' = Result(rec) /\ DateOf(rec)' = DateOf(rec) /\ Kept(rec)' = Kept(rec)
      /\ \A f : OfBatch(f)' = OfBatch(f)
      /\ UNCHANGED <<Below(committed), InBatch>>
  BY <1>1, ResultUnchanged DEF OfBatch, InBatch, Below
<1>3. Types' /\ OffsetsInv' /\ planned # Nothing
  BY <1>1 DEF Types, OffsetsInv, InTopic
<1>4. \A f \in filled : /\ f.rec \in Below(planned) /\ Kept(f.rec) /\ f.date = DateOf(f.rec)
                        /\ f.id = batchId
  BY DEF Valid, Kept, InBatch
<1>5. \A rec \in InBatch : Kept(rec) /\ DateOf(rec) = proc.date =>
          \E f \in filled : f.rec = rec /\ f.id = batchId
  <2>1. ASSUME NEW rec \in InBatch, Kept(rec), DateOf(rec) = proc.date
        PROVE  File(rec) \in filled /\ File(rec).rec = rec /\ File(rec).id = batchId
    <3>1. rec \in due
      BY <2>1 DEF Valid, Kept
    <3> HIDE DEF due
    <3>2. QED
      BY <3>1
  <2> HIDE DEF filled, File
  <2>2. QED
    BY <2>1
<1> HIDE DEF filled, due, File
<1>6. Files'
  <2>1. BronzeSound'
    BY <1>1, <1>2, <1>3, <1>4 DEF Files, BronzeSound, OfBatch
  <2>2. DeadSound' /\ DeadComplete' /\ BronzeComplete'
    BY <1>1, <1>2 DEF Files, DeadSound, DeadComplete, BronzeComplete
  <2>3. QED
    BY <2>1, <2>2 DEF Files
<1>7. BatchWritten'
  BY <1>1, <1>2, <1>5 DEF BatchWritten
<1>8. QED
  BY <1>1, <1>3, <1>6, <1>7, SilverKept

LEMMA WriteDeadLettersGInv == ASSUME GInv, WriteDeadLetters PROVE GInv'
<1> USE DEF GInv
<1> DEFINE bad == InBatch \ Valid(InBatch)
           Letter(rec) == [run |-> proc.run, id |-> batchId, rec |-> rec,
                           reason |-> Result(rec).reason]
           letters == {Letter(rec) : rec \in bad}
           others == {f \in dead : ~(f.run = proc.run /\ f.id = batchId)}
<1>1. /\ UNCHANGED <<log, sent, topic, planned, committed, batchId, bronze, silver>>
      /\ proc # Nothing /\ proc.step = "dates" /\ proc.todo = {}
      /\ proc' = [run |-> proc.run, target |-> proc.target, date |-> proc.date,
                  step |-> "commit", todo |-> proc.todo]
      /\ dead' = IF bad = {} THEN dead ELSE others \cup letters
  BY DEF WriteDeadLetters, At, Types, sourceVars, checkpointVars
<1>2. /\ \A rec : Result(rec)' = Result(rec) /\ DateOf(rec)' = DateOf(rec) /\ Kept(rec)' = Kept(rec)
      /\ \A f : OfBatch(f)' = OfBatch(f)
      /\ UNCHANGED <<Below(committed), InBatch>>
  BY <1>1, ResultUnchanged DEF OfBatch, InBatch, Below
<1>3. Types' /\ OffsetsInv' /\ planned # Nothing
  BY <1>1 DEF Types, OffsetsInv, InTopic
<1>4. \A rec : rec \in bad <=> rec \in InBatch /\ ~Kept(rec)
  BY DEF Valid, Kept
<1>5. /\ \A f \in letters : /\ f.rec \in Below(planned) /\ ~Kept(f.rec) /\ f.id = batchId
                             /\ f.reason = Result(f.rec).reason
      /\ \A rec \in bad : \E f \in letters : f.rec = rec /\ f.id = batchId
  <2>1. \A f \in letters : /\ f.rec \in Below(planned) /\ ~Kept(f.rec) /\ f.id = batchId
                           /\ f.reason = Result(f.rec).reason
    <3>1. \A rec \in bad : rec \in Below(planned) /\ ~Kept(rec)
      BY <1>4 DEF InBatch
    <3> HIDE DEF bad
    <3>2. QED
      BY <3>1
  <2>2. ASSUME NEW rec \in bad
        PROVE  Letter(rec) \in letters /\ Letter(rec).rec = rec /\ Letter(rec).id = batchId
    <3> HIDE DEF bad
    <3>1. QED
      BY <2>2
  <2> HIDE DEF letters, Letter, bad
  <2>3. QED
    BY <2>1, <2>2
<1>6. /\ \A f \in dead' : f \in dead \/ f \in letters
      /\ \A f \in dead : f.id < batchId => f \in dead'
      /\ \A rec \in bad : \E f \in dead' : f.rec = rec /\ f.id = batchId
  BY <1>1, <1>5 DEF Types
<1> HIDE DEF bad, letters, others, Letter
<1>7. Files'
  <2>1. DeadSound'
    BY <1>1, <1>2, <1>3, <1>5, <1>6 DEF Files, DeadSound, OfBatch
  <2>2. DeadComplete'
    BY <1>1, <1>2, <1>6 DEF Files, DeadComplete
  <2>3. BronzeSound' /\ BronzeComplete'
    BY <1>1, <1>2 DEF Files, BronzeSound, BronzeComplete
  <2>4. QED
    BY <2>1, <2>2, <2>3 DEF Files
<1>8. BatchWritten'
  BY <1>1, <1>2, <1>4, <1>6 DEF BatchWritten
<1>9. QED
  BY <1>1, <1>3, <1>7, <1>8, SilverKept

(* The commit moves the batch's files out of reach of later overwrites.    *)
LEMMA CommitBatchGInv == ASSUME GInv, CommitBatch PROVE GInv'
<1> USE DEF GInv
<1>1. /\ UNCHANGED <<log, sent, topic, bronze, dead, silver>>
      /\ proc # Nothing /\ proc.step = "commit"
      /\ committed' = planned /\ planned' = Nothing /\ batchId' = batchId + 1
      /\ proc' = [run |-> proc.run, target |-> proc.target, date |-> proc.date,
                  step |-> "poll", todo |-> proc.todo]
  BY DEF CommitBatch, At, Types, sourceVars, fileVars
<1>2. planned # Nothing /\ batchId \in Nat
  BY <1>1 DEF OffsetsInv, Types
<1>3. Types' /\ OffsetsInv'
  BY <1>1, <1>2 DEF Types, OffsetsInv, InTopic, UpTo
<1>4. /\ Below(committed)' = Below(planned)
      /\ Below(committed) \subseteq Below(planned)
      /\ \A rec \in Below(planned) : rec \in Below(committed) \/ rec \in InBatch
  BY <1>1, <1>2, BelowMonotone DEF OffsetsInv, InTopic, Below, InBatch
<1>5. \A rec : Result(rec)' = Result(rec) /\ DateOf(rec)' = DateOf(rec) /\ Kept(rec)' = Kept(rec)
  BY <1>1, ResultUnchanged
<1>6. \A f : OfBatch(f) => OfBatch(f)'
  BY <1>1, <1>2, <1>4 DEF OfBatch
<1>7. BronzeSound' /\ DeadSound'
  BY <1>1, <1>5, <1>6 DEF Files, BronzeSound, DeadSound
<1>8. ASSUME NEW rec \in Below(planned)
      PROVE  /\ Kept(rec) => \E f \in bronze : f.rec = rec /\ f.id < batchId + 1
             /\ ~Kept(rec) => \E f \in dead : f.rec = rec /\ f.id < batchId + 1
  <2>1. CASE rec \in Below(committed)
    <3>1. \A f \in bronze \cup dead : f.id < batchId => f.id < batchId + 1
      BY <1>2 DEF Files, BronzeSound, DeadSound, OfBatch
    <3>2. QED
      BY <2>1, <3>1 DEF Files, BronzeComplete, DeadComplete
  <2>2. CASE rec \in InBatch
    <3>1. /\ Kept(rec) => \E f \in bronze : f.rec = rec /\ f.id = batchId
          /\ ~Kept(rec) => \E f \in dead : f.rec = rec /\ f.id = batchId
      BY <1>1, <2>2 DEF BatchWritten
    <3>2. QED
      BY <1>2, <3>1
  <2>3. QED
    BY <1>4, <1>8, <2>1, <2>2
<1>9. BronzeComplete' /\ DeadComplete'
  BY <1>1, <1>4, <1>5, <1>8 DEF BronzeComplete, DeadComplete
<1>10. BatchWritten'
  BY <1>1 DEF BatchWritten
<1>11. QED
  BY <1>1, <1>3, <1>7, <1>9, <1>10, SilverKept DEF Files

-----------------------------------------------------------------------------
(* The snapshots *)

(* A query that has drained its target finds in bronze what was committed  *)
(* and nothing else.                                                       *)
LEMMA WriteSnapshotGInv == ASSUME GInv, WriteSnapshot PROVE GInv'
<1> USE DEF GInv
<1> DEFINE recs == {f.rec : f \in bronze}
<1>1. /\ UNCHANGED <<log, sent, topic, planned, committed, batchId, bronze, dead>>
      /\ proc # Nothing /\ planned = Nothing /\ committed = proc.target /\ proc' = Nothing
      /\ silver' = Snapshot(proc.run, recs, Nothing)
  BY DEF WriteSnapshot, At, Drained, sourceVars, checkpointVars, fileVars
<1>2. Types' /\ OffsetsInv' /\ BatchWritten' /\ Files'
  BY <1>1, FilesKept DEF Types, OffsetsInv, InTopic, BatchWritten
<1>3. recs \subseteq Valid(Below(committed))
  BY <1>1 DEF Files, BronzeSound, OfBatch, Valid, Kept
<1>4. Valid(Below(committed)) \subseteq recs
  BY DEF Files, BronzeComplete, Valid, Kept
<1>5. silver'.read = recs /\ silver'.end = Nothing /\ silver'.upto = committed
  BY <1>1 DEF Snapshot
<1> HIDE DEF recs
<1>6. InTopic(silver.upto)'
  BY <1>1, <1>5 DEF OffsetsInv, InTopic
<1>7. SilverInv'
  <2>1. silver'.read = Valid(Below(silver'.upto)) /\ ~(silver'.end # Nothing)
    BY <1>3, <1>4, <1>5
  <2>2. UNCHANGED <<log, topic>>
    BY <1>1
  <2>3. QED
    BY <1>1, <1>6, <2>1, <2>2, SnapshotTaken
<1>8. QED
  BY <1>2, <1>7

(* A backfill finds at least what was committed when it read.              *)
LEMMA BackfillGInv ==
    ASSUME GInv, NEW r \in Cutoffs, NEW end \in Days, Backfill(r, end) PROVE GInv'
<1> USE DEF GInv
<1> DEFINE recs == {f.rec : f \in {f \in bronze : InInterval(f, end)}}
<1>1. /\ UNCHANGED <<log, sent, topic, planned, committed, batchId, bronze, dead, proc>>
      /\ silver' = Snapshot(r, recs, end)
      /\ end # Nothing
  BY DEF Backfill, sourceVars, checkpointVars, fileVars, Days
<1>2. InBatch' = InBatch /\ \A rec : DateOf(rec)' = DateOf(rec) /\ Kept(rec)' = Kept(rec)
  BY <1>1, ResultUnchanged DEF InBatch, Below
<1>3. Types' /\ OffsetsInv' /\ BatchWritten' /\ Files'
  BY <1>1, <1>2, FilesKept DEF Types, OffsetsInv, InTopic, BatchWritten
<1>4. {rec \in Valid(Below(committed)) : DateOf(rec) <= end} \subseteq recs
  <2>1. ASSUME NEW rec \in Below(committed), Kept(rec), DateOf(rec) <= end
        PROVE  rec \in recs
    <3>1. PICK f \in bronze : f.rec = rec
      BY <2>1 DEF Files, BronzeComplete
    <3>2. InInterval(f, end)
      BY <2>1, <3>1 DEF Files, BronzeSound, InInterval
    <3>3. QED
      BY <3>1, <3>2
  <2> HIDE DEF recs
  <2>2. QED
    BY <2>1 DEF Valid, Kept
<1>5. silver'.read = recs /\ silver'.end = end /\ silver'.upto = committed
  BY <1>1 DEF Snapshot
<1> HIDE DEF recs
<1>6. InTopic(silver.upto)'
  BY <1>1, <1>5 DEF OffsetsInv, InTopic
<1>7. SilverInv'
  BY <1>1, <1>4, <1>5, <1>6, SnapshotTaken
<1>8. QED
  BY <1>3, <1>7

LEMMA NextGInv == GInv /\ [Next]_vars => GInv'
<1> SUFFICES ASSUME GInv, [Next]_vars PROVE GInv'
  OBVIOUS
<1>1. CASE Produce
  BY <1>1, ProduceGInv
<1>2. CASE (\E r \in Cutoffs : StartQuery(r)) \/ Replay \/ Plan \/ ParseBatch \/ Crash
  BY <1>2, ControlGInv
<1>3. ASSUME NEW d \in Days, ClearDate(d) PROVE GInv'
  BY <1>3, ClearDateGInv
<1>4. CASE FillDate
  BY <1>4, FillDateGInv
<1>5. CASE WriteDeadLetters
  BY <1>5, WriteDeadLettersGInv
<1>6. CASE CommitBatch
  BY <1>6, CommitBatchGInv
<1>7. CASE WriteSnapshot
  BY <1>7, WriteSnapshotGInv
<1>8. ASSUME NEW r \in Cutoffs, NEW end \in Days, Backfill(r, end) PROVE GInv'
  BY <1>8, BackfillGInv
<1>9. ASSUME NEW n \in 0..Longest, Resend(n) PROVE GInv'
  <2>1. /\ UNCHANGED <<log, topic, checkpointVars, fileVars, silver, proc>>
        /\ sent' = n /\ n < sent /\ n \in Nat
    BY <1>9, LongestAssumption DEF Resend
  <2>2. InBatch' = InBatch /\ \A rec : DateOf(rec)' = DateOf(rec) /\ Kept(rec)' = Kept(rec)
    BY <2>1, ResultUnchanged DEF InBatch, Below, checkpointVars
  <2>3. Types' /\ Files'
    <3>1. Types'
      BY <2>1 DEF GInv, Types, checkpointVars
    <3>2. UNCHANGED <<log, topic, bronze, dead, batchId, planned, committed>>
      BY <2>1 DEF checkpointVars, fileVars
    <3>3. QED
      BY <3>1, <3>2, FilesKept DEF GInv
  <2>4. OffsetsInv' /\ BatchWritten'
    <3>1. UNCHANGED <<topic, planned, committed, batchId, bronze, dead, proc>>
      BY <2>1 DEF checkpointVars, fileVars
    <3>2. OffsetsInv'
      BY <3>1 DEF GInv, OffsetsInv, InTopic
    <3>3. BatchWritten'
      BY <2>2, <3>1 DEF GInv, BatchWritten
    <3>4. QED
      BY <3>2, <3>3
  <2>5. QED
    BY <2>1, <2>3, <2>4, SilverKept DEF GInv
<1>10. CASE UNCHANGED vars
  <2>1. UNCHANGED <<log, sent, topic, checkpointVars, fileVars, silver, proc>>
    BY <1>10 DEF vars, sourceVars
  <2>2. InBatch' = InBatch /\ \A rec : DateOf(rec)' = DateOf(rec) /\ Kept(rec)' = Kept(rec)
    BY <2>1, ResultUnchanged DEF InBatch, Below, checkpointVars
  <2>3. Types' /\ Files'
    <3>1. Types'
      BY <2>1 DEF GInv, Types, checkpointVars
    <3>2. UNCHANGED <<log, topic, bronze, dead, batchId, planned, committed>>
      BY <2>1 DEF checkpointVars, fileVars
    <3>3. QED
      BY <3>1, <3>2, FilesKept DEF GInv
  <2>4. OffsetsInv' /\ BatchWritten'
    <3>1. UNCHANGED <<topic, planned, committed, batchId, bronze, dead, proc>>
      BY <2>1 DEF checkpointVars, fileVars
    <3>2. OffsetsInv'
      BY <3>1 DEF GInv, OffsetsInv, InTopic
    <3>3. BatchWritten'
      BY <2>2, <3>1 DEF GInv, BatchWritten
    <3>4. QED
      BY <3>2, <3>3
  <2>5. QED
    BY <2>1, <2>3, <2>4, SilverKept DEF GInv
<1>11. QED
  BY <1>1, <1>2, <1>3, <1>4, <1>5, <1>6, <1>7, <1>8, <1>9, <1>10 DEF Next, Step

LEMMA AlwaysGInv == Spec => []GInv
BY InitGInv, NextGInv, PTL DEF Spec

(* A query's snapshot reads exactly the valid records up to the offsets    *)
(* its run found, for any number of partitions, runs, crashes and replays. *)
THEOREM IngestionReadsPrefix == Spec => []SnapshotReadsPrefix
<1>1. GInv => SnapshotReadsPrefix
  BY DEF GInv, SilverInv, SnapshotReadsPrefix, OfQuery
<1>2. QED
  BY <1>1, AlwaysGInv, PTL

(* A backfill misses nothing that was committed for the days it asks for,  *)
(* whatever path the query is overwriting meanwhile.                       *)
THEOREM IngestionBackfillCovers == Spec => []BackfillCoversCommitted
<1>1. GInv => BackfillCoversCommitted
  BY DEF GInv, SilverInv, BackfillCoversCommitted, OfBackfill
<1>2. QED
  BY <1>1, AlwaysGInv, PTL

-----------------------------------------------------------------------------
(* Nothing is lost *)

(* Every message of the source is taken for what it carries.               *)
LEMMA ParseIsCarried == \A l \in Logs : \A i \in DOMAIN l : Parse(l[i].raw) = l[i].carries
BY SenderAssumption, ParserFaithful

(* A delivered record has a message of the log.                            *)
LEMMA Delivered ==
    ASSUME Types, NEW upto, InTopic(upto), NEW rec \in Below(upto)
    PROVE  /\ rec[1] \in Partitions /\ rec[2] \in 1..Len(topic[rec[1]])
           /\ rec[2] \in 1..upto[rec[1]] /\ rec = <<rec[1], rec[2]>>
           /\ topic[rec[1]][rec[2]] \in DOMAIN log /\ log \in Logs
           /\ Message(rec) = log[topic[rec[1]][rec[2]]]
<1>1. MaxRecords \in Nat
  BY LongestAssumption DEF MaxRecords
<1>2. /\ rec[1] \in Partitions /\ rec[2] \in Nat \ {0} /\ rec[2] <= upto[rec[1]]
      /\ rec = <<rec[1], rec[2]>>
  BY <1>1 DEF Below, Records
<1>3. Len(topic[rec[1]]) \in Nat /\ upto[rec[1]] \in Nat /\ upto[rec[1]] <= Len(topic[rec[1]])
  BY <1>2 DEF Types, InTopic
<1>4. rec[2] \in 1..Len(topic[rec[1]]) /\ rec[2] \in 1..upto[rec[1]]
  BY <1>2, <1>3
<1>5. topic[rec[1]][rec[2]] \in DOMAIN log
  BY <1>2, <1>4 DEF Types
<1>6. QED
  BY <1>2, <1>4, <1>5 DEF Types, Message

(* An offset is committed only once its record is durable under its own    *)
(* day, or in the dead letters with its reason, and never in both.         *)
THEOREM IngestionLosesNothing == Spec => []NothingLost
<1>1. GInv => NothingLost
  <2> SUFFICES ASSUME GInv, NEW rec \in Below(committed)
               PROVE  IF Message(rec).carries.kind = "malformed"
                      THEN /\ {f \in bronze : f.rec = rec} = {}
                           /\ \E f \in {f \in dead : f.rec = rec} :
                                 f.reason = Message(rec).carries.reason
                      ELSE /\ {f \in dead : f.rec = rec} = {}
                           /\ Result(rec) = Message(rec).carries
                           /\ \E f \in {f \in bronze : f.rec = rec} : f.date = DateOf(rec)
    BY DEF NothingLost
  <2>1. Result(rec) = Message(rec).carries
    <3>1. Types /\ InTopic(committed)
      BY DEF GInv, OffsetsInv
    <3>2. /\ topic[rec[1]][rec[2]] \in DOMAIN log /\ log \in Logs
          /\ Message(rec) = log[topic[rec[1]][rec[2]]]
      BY <3>1, Delivered
    <3>3. Message(rec).raw \in RawRecords
      BY <3>2 DEF RawRecords
    <3>4. Result(rec) = Parse(Message(rec).raw)
      BY <3>3 DEF Result, Normalized
    <3>5. QED
      BY <3>2, <3>4, ParseIsCarried
  <2>2. CASE Kept(rec)
    BY <2>1, <2>2 DEF GInv, Files, BronzeComplete, BronzeSound, DeadSound, Kept
  <2>3. CASE ~Kept(rec)
    BY <2>1, <2>3 DEF GInv, Files, DeadComplete, DeadSound, BronzeSound, Kept
  <2>4. QED
    BY <2>2, <2>3
<1>2. QED
  BY <1>1, AlwaysGInv, PTL

-----------------------------------------------------------------------------
(* What a snapshot shows *)

(* A record is in the partition of its message's key, and the rows of a    *)
(* query's snapshot are those of the records it read.                      *)
Placed ==
    \A p \in Partitions : \A o \in 1..Len(topic[p]) :
        PartitionOf[log[topic[p][o]].raw.key] = p
RowsInv == OfQuery => silver.rows = Current(silver.run, silver.read)
RInv == GInv /\ Placed /\ RowsInv

(* The last one of a set of offsets.                                       *)
LEMMA LastExists ==
    ASSUME NEW n \in Nat, NEW S, S \subseteq 1..n, S # {}
    PROVE  \E m \in S : \A y \in S : y <= m
<1> DEFINE R == OpToRel(<, Nat)
           T == {n - i : i \in S}
<1>1. IsWellFoundedOn(R, Nat)
  BY NatLessThanWellFounded
<1>2. T \subseteq Nat /\ T # {}
  <2>1. \A i \in S : n - i \in Nat /\ n - i \in T
    OBVIOUS
  <2>2. QED
    BY <2>1
<1>3. \A x, y \in Nat : <<x, y>> \in R <=> x < y
  BY DEF OpToRel
<1> HIDE DEF R, T
<1>4. PICK x \in T : \A y \in T : ~(<<y, x>> \in R)
  BY <1>1, <1>2, WFMin
<1>5. PICK m \in S : x = n - m
  BY <1>4 DEF T
<1>6. \A i \in S : n - i \in T
  BY DEF T
<1>7. ASSUME NEW y \in S PROVE y <= m
  <2>1. n - y \in T /\ n - y \in Nat /\ n - m \in Nat
    BY <1>6
  <2>2. ~(n - y < n - m)
    BY <1>3, <1>4, <1>5, <2>1
  <2>3. QED
    BY <2>2
<1>8. QED
  BY <1>7

(* The rows are a function of what the parser makes of the records read.   *)
LEMMA RowsOfResults ==
    ASSUME NEW r, NEW recs, \A q \in recs : Result(q)' = Result(q)
    PROVE  Current(r, recs)' = Current(r, recs)
<1> DEFINE changes == {q \in recs : Result(q).kind = "event"}
           events == {EventAt(q) : q \in changes}
<1>1. changes' = changes
  OBVIOUS
<1>2. \A q \in recs : EventAt(q)' = EventAt(q)
  BY DEF EventAt
<1> HIDE DEF changes
<1>3. changes \subseteq recs
  BY DEF changes
<1>4. events' = events
  BY <1>1, <1>2, <1>3
<1> HIDE DEF events
<1>5. Current(r, recs) =
        {<<e.partition, e.offset>> :
            e \in {e \in UNION {Latest({f \in events : f.key = k /\ f.batch <= r}) : k \in Keys} :
                     e.op # "d"}}
  BY DEF Current, events, changes
<1>6. Current(r, recs)' =
        {<<e.partition, e.offset>> :
            e \in {e \in UNION {Latest({f \in events' : f.key = k /\ f.batch <= r}) : k \in Keys} :
                     e.op # "d"}}
  BY DEF Current, events, changes
<1>7. QED
  BY <1>4, <1>5, <1>6

(* Rows depend on the records read and on nothing that changes.            *)
LEMMA RowsKept ==
    ASSUME RInv, UNCHANGED <<log, silver>>,
           \A p \in Partitions : \A o \in 1..Len(topic[p]) : topic'[p][o] = topic[p][o]
    PROVE  RowsInv'
<1> SUFFICES ASSUME OfQuery PROVE Current(silver.run, silver.read)' = Current(silver.run, silver.read)
  BY DEF RInv, RowsInv, OfQuery
<1>1. silver.read = Valid(Below(silver.upto)) /\ InTopic(silver.upto)
  BY DEF RInv, GInv, SilverInv, SnapshotReadsPrefix, OfQuery
<1>2. ASSUME NEW rec \in silver.read PROVE Result(rec)' = Result(rec)
  <2>1. \A p \in Partitions : Len(topic[p]) \in Nat
    BY DEF RInv, GInv, Types
  <2>2. rec \in Below(silver.upto)
    BY <1>1 DEF Valid
  <2>3. QED
    BY <1>1, <2>1, <2>2, ResultStable
<1>3. PICK r, recs : r = silver.run /\ recs = silver.read
  OBVIOUS
<1>4. Current(r, recs)' = Current(r, recs)
  BY <1>2, <1>3, RowsOfResults
<1>5. QED
  BY <1>3, <1>4

LEMMA InitRInv == Init => RInv
<1>1. Init => GInv
  BY InitGInv
<1>2. QED
  BY <1>1 DEF Init, RInv, Placed, RowsInv, OfQuery

LEMMA NextRInv == RInv /\ [Next]_vars => RInv'
<1> SUFFICES ASSUME RInv, [Next]_vars PROVE RInv'
  OBVIOUS
<1>1. GInv /\ GInv' /\ Placed /\ RowsInv
  BY NextGInv DEF RInv
<1>2. CASE Produce
  <2>1. PICK p : p = PartitionOf[log[sent + 1].raw.key] /\ topic' = [topic EXCEPT ![p] = Append(@, sent + 1)]
    BY <1>2 DEF Produce
  <2>2. UNCHANGED <<log, silver>>
    BY <1>2 DEF Produce
  <2>3. ASSUME NEW q \in Partitions
        PROVE  /\ \A o \in 1..Len(topic[q]) : topic'[q][o] = topic[q][o]
               /\ \A o \in 1..Len(topic'[q]) : PartitionOf[log[topic'[q][o]].raw.key] = q
    <3>1. topic[q] \in Seq(DOMAIN log) /\ (topic'[q] = topic[q] \/ (q = p /\ topic'[q] = Append(topic[q], sent + 1)))
      BY <1>1, <2>1 DEF GInv, Types
    <3>2. CASE topic'[q] = topic[q]
      BY <1>1, <3>2 DEF Placed
    <3>3. CASE q = p /\ topic'[q] = Append(topic[q], sent + 1)
      <4>1. /\ Len(topic[q]) \in Nat /\ Len(topic'[q]) = Len(topic[q]) + 1
            /\ \A o \in 1..Len(topic[q]) : topic'[q][o] = topic[q][o]
            /\ topic'[q][Len(topic[q]) + 1] = sent + 1
        BY <3>1, <3>3
      <4>2. \A o \in 1..Len(topic'[q]) : o \in 1..Len(topic[q]) \/ o = Len(topic[q]) + 1
        BY <4>1
      <4>3. \A o \in 1..Len(topic[q]) : PartitionOf[log[topic'[q][o]].raw.key] = q
        <5>1. \A o \in 1..Len(topic[q]) : PartitionOf[log[topic[q][o]].raw.key] = q
          BY <1>1 DEF Placed
        <5>2. QED
          BY <4>1, <5>1
      <4>4. PartitionOf[log[topic'[q][Len(topic[q]) + 1]].raw.key] = q
        BY <2>1, <3>3, <4>1
      <4>5. QED
        BY <4>1, <4>2, <4>3, <4>4
    <3>4. QED
      BY <3>1, <3>2, <3>3
  <2>4. Placed'
    BY <2>2, <2>3 DEF Placed
  <2>5. RowsInv'
    BY <2>2, <2>3, RowsKept
  <2>6. QED
    BY <1>1, <2>4, <2>5 DEF RInv
<1>3. ASSUME ~Produce PROVE UNCHANGED <<log, topic>>
  BY <1>3 DEF Next, Step, Resend, StartQuery, Replay, Plan, ParseBatch, ClearDate, FillDate,
              WriteDeadLetters, CommitBatch, WriteSnapshot, Backfill, Crash, sourceVars, vars
<1>4. ASSUME UNCHANGED <<log, topic>> PROVE Placed'
  BY <1>1, <1>4 DEF Placed
<1>5. CASE WriteSnapshot
  <2>1. UNCHANGED <<log, topic>>
    BY <1>5 DEF WriteSnapshot, sourceVars
  <2>2. \A rec : Result(rec)' = Result(rec)
    BY <2>1, ResultUnchanged
  <2>3. \A r, recs : Current(r, recs)' = Current(r, recs)
    BY <2>2, RowsOfResults
  <2>4. RowsInv'
    BY <1>5, <2>3 DEF WriteSnapshot, Snapshot, RowsInv, OfQuery
  <2>5. QED
    BY <1>1, <1>4, <2>1, <2>4 DEF RInv
<1>6. ASSUME NEW r \in Cutoffs, NEW end \in Days, Backfill(r, end) PROVE RInv'
  <2>1. UNCHANGED <<log, topic>>
    BY <1>6 DEF Backfill, sourceVars
  <2>2. RowsInv'
    BY <1>6 DEF Backfill, Snapshot, RowsInv, OfQuery, Days
  <2>3. QED
    BY <1>1, <1>4, <2>1, <2>2 DEF RInv
<1>7. CASE silver' = silver /\ ~Produce
  <2>1. RowsInv'
    BY <1>3, <1>7, RowsKept
  <2>2. QED
    BY <1>1, <1>3, <1>4, <1>7, <2>1 DEF RInv
<1>8. silver' = silver \/ WriteSnapshot \/ \E r \in Cutoffs, end \in Days : Backfill(r, end)
  BY DEF Next, Step, Produce, Resend, StartQuery, Replay, Plan, ParseBatch, ClearDate, FillDate,
         WriteDeadLetters, CommitBatch, Crash, vars
<1>9. QED
  BY <1>2, <1>5, <1>6, <1>7, <1>8

(* A message with a change has a record that tells of it.                  *)
LEMMA ChangeConveyed ==
    ASSUME NEW l \in Logs, NEW i \in DOMAIN l, l[i].carries.kind = "event"
    PROVE  Conveys(l[i].raw, l[i].carries)
<1>1. Means(l[i].raw, l[i].carries)
  BY SenderAssumption
<1>2. \A key : Tombstone(key).kind = "tombstone"
  BY DEF Tombstone
<1>3. \A reason : Malformed(reason).kind = "malformed"
  BY DEF Malformed
<1>4. QED
  BY <1>1, <1>2, <1>3 DEF Means

(* A change is numbered.                                                   *)
LEMMA NumbersOfChanges ==
    \A l \in Logs : \A i \in DOMAIN l :
        LET c == l[i].carries IN
          c.kind = "event" => c.batch \in Nat /\ c.lsn \in Nat /\ c.tx \in Nat
<1> SUFFICES ASSUME NEW l \in Logs, NEW i \in DOMAIN l, l[i].carries.kind = "event"
             PROVE  /\ l[i].carries.batch \in Nat /\ l[i].carries.lsn \in Nat
                    /\ l[i].carries.tx \in Nat
  OBVIOUS
<1> DEFINE r == l[i].raw
           c == l[i].carries
<1>1. IsRecord(r)
  BY SenderAssumption
<1>2. Conveys(r, c)
  BY ChangeConveyed
<1>3. c.batch \in Nat
  BY <1>1, <1>2 DEF Conveys, Missing, RowOf, IsRecord, IsRow, IsNumber
<1>4. c.lsn \in Nat
  BY <1>1, <1>2 DEF Conveys, IsRecord, IsNumber
<1>5. c.tx \in Nat
  BY <1>1, <1>2 DEF Conveys, Missing, IsRecord, IsNumber
<1>6. QED
  BY <1>3, <1>4, <1>5

(* A change that counts for a cutoff is delivered by a record whose event  *)
(* has the change's fields.                                                *)
LEMMA EventOfChange ==
    ASSUME Types, NEW upto, InTopic(upto), NEW rec \in Below(upto)
    PROVE  /\ Result(rec) = Message(rec).carries
           /\ EventAt(rec).key = Message(rec).carries.key
           /\ EventAt(rec).op = Message(rec).carries.op
           /\ EventAt(rec).batch = Message(rec).carries.batch
           /\ EventAt(rec).lsn = Message(rec).carries.lsn
           /\ EventAt(rec).tx = Message(rec).carries.tx
           /\ EventAt(rec).partition = rec[1] /\ EventAt(rec).offset = rec[2]
<1>1. topic[rec[1]][rec[2]] \in DOMAIN log /\ log \in Logs
      /\ Message(rec) = log[topic[rec[1]][rec[2]]]
  BY Delivered
<1>2. Message(rec).raw \in RawRecords /\ Parse(Message(rec).raw) = Message(rec).carries
  BY <1>1, ParseIsCarried DEF RawRecords
<1>3. Result(rec) = Message(rec).carries
  BY <1>2 DEF Result, Normalized
<1>4. QED
  BY <1>3 DEF EventAt

(* The records of a key that count for a cutoff, and the position of the   *)
(* last of them in the source.                                             *)
Own(recs, cutoff, k) ==
    {q \in recs : LET c == Message(q).carries IN
                    c.kind = "event" /\ c.key = k /\ c.batch <= cutoff}
LastOf(recs, cutoff, k) ==
    {i \in Positions(Own(recs, cutoff, k)) :
        \A j \in Positions(Own(recs, cutoff, k)) : j <= i}

(* Whichever delivered records are read, also the same message several     *)
(* times, the rows are the last changes among them that are no delete.     *)
LEMMA RowsAreLast ==
    ASSUME Types, Placed, NEW upto, InTopic(upto), NEW recs, recs \subseteq Below(upto),
           NEW cutoff
    PROVE  Positions(Current(cutoff, recs)) =
             UNION {{i \in LastOf(recs, cutoff, k) : log[i].carries.op # "d"} : k \in Keys}
<1> DEFINE pos(rec) == topic[rec[1]][rec[2]]
           changes == {q \in recs : Message(q).carries.kind = "event"}
           rows == Current(cutoff, recs)
           own(k) == {q \in changes : Message(q).carries.key = k /\ Message(q).carries.batch <= cutoff}
           history(k) == {EventAt(q) : q \in own(k)}
           last(k) == LastOf(recs, cutoff, k)
           shown(k) == {e \in Latest(history(k)) : e.op # "d"}
<1>1. Types /\ InTopic(upto) /\ log \in Logs /\ Placed
  BY DEF Types
<1>2. \A k \in Keys : last(k) = {i \in {pos(q) : q \in own(k)} : \A j \in {pos(q) : q \in own(k)} : j <= i}
  <2>1. \A k \in Keys : Own(recs, cutoff, k) = own(k)
    BY DEF Own
  <2> HIDE DEF own
  <2>2. QED
    BY <2>1 DEF LastOf, Positions
<1>3. ASSUME NEW k, NEW q \in own(k)
      PROVE  /\ q[1] \in Partitions /\ q[2] \in 1..Len(topic[q[1]]) /\ q[2] \in 1..upto[q[1]]
             /\ q = <<q[1], q[2]>> /\ pos(q) \in DOMAIN log /\ Message(q) = log[pos(q)]
             /\ q \in Below(upto)
             /\ log[pos(q)].carries.kind = "event" /\ log[pos(q)].carries.key = k
             /\ log[pos(q)].carries.batch <= cutoff
             /\ EventAt(q).op = log[pos(q)].carries.op
             /\ EventAt(q).lsn = log[pos(q)].carries.lsn
             /\ EventAt(q).tx = log[pos(q)].carries.tx
             /\ EventAt(q).partition = q[1] /\ EventAt(q).offset = q[2]
             /\ topic[EventAt(q).partition][EventAt(q).offset] = pos(q)
  <2>1. q \in Below(upto) /\ Message(q).carries.kind = "event"
        /\ Message(q).carries.key = k /\ Message(q).carries.batch <= cutoff
    OBVIOUS
  <2> HIDE DEF own, changes
  <2>2. /\ q[1] \in Partitions /\ q[2] \in 1..Len(topic[q[1]]) /\ q[2] \in 1..upto[q[1]]
        /\ q = <<q[1], q[2]>> /\ pos(q) \in DOMAIN log /\ Message(q) = log[pos(q)]
    BY <1>1, <2>1, Delivered
  <2>3. /\ EventAt(q).op = Message(q).carries.op /\ EventAt(q).lsn = Message(q).carries.lsn
        /\ EventAt(q).tx = Message(q).carries.tx
        /\ EventAt(q).partition = q[1] /\ EventAt(q).offset = q[2]
    BY <1>1, <2>1, EventOfChange
  <2>4. topic[EventAt(q).partition][EventAt(q).offset] = pos(q)
    BY <2>3
  <2> HIDE DEF pos
  <2>5. QED
    BY <2>1, <2>2, <2>3, <2>4
<1>4. rows = {<<e.partition, e.offset>> : e \in UNION {shown(k) : k \in Keys}}
  <2>2. \A q \in recs : Result(q) = Message(q).carries
    BY <1>1, EventOfChange
  <2>3. {q \in recs : Result(q).kind = "event"} = changes
    BY <2>2
  <2> DEFINE events == {EventAt(q) : q \in changes}
  <2>4. Current(cutoff, recs) =
          {<<e.partition, e.offset>> :
              e \in {e \in UNION {Latest({f \in events : f.key = k /\ f.batch <= cutoff}) : k \in Keys} :
                       e.op # "d"}}
    <3> DEFINE read == {q \in recs : Result(q).kind = "event"}
               found == {EventAt(q) : q \in read}
    <3>1. found = events
      <4>1. read = changes
        BY <2>3
      <4> HIDE DEF read, changes
      <4>2. QED
        BY <4>1
    <3>2. Current(cutoff, recs) =
            {<<e.partition, e.offset>> :
                e \in {e \in UNION {Latest({f \in found : f.key = k /\ f.batch <= cutoff}) : k \in Keys} :
                         e.op # "d"}}
      BY DEF Current
    <3> HIDE DEF found, events
    <3>3. QED
      BY <3>1, <3>2
  <2>5. ASSUME NEW k \in Keys
        PROVE  {f \in events : f.key = k /\ f.batch <= cutoff} = history(k)
    <3>1. \A q \in changes : EventAt(q).key = Message(q).carries.key
                            /\ EventAt(q).batch = Message(q).carries.batch
      BY <1>1, EventOfChange
    <3> HIDE DEF changes
    <3>2. QED
      BY <3>1
  <2> DEFINE part(k) == {f \in events : f.key = k /\ f.batch <= cutoff}
  <2>6. {e \in UNION {Latest(part(k)) : k \in Keys} : e.op # "d"} = UNION {shown(k) : k \in Keys}
    <3>1. \A k \in Keys : part(k) = history(k)
      BY <2>5
    <3> HIDE DEF events, history, part
    <3>2. \A k \in Keys : Latest(part(k)) = Latest(history(k))
      BY <3>1
    <3>3. ASSUME NEW e
          PROVE  e \in {e_1 \in UNION {Latest(part(k)) : k \in Keys} : e_1.op # "d"}
                   <=> e \in UNION {shown(k) : k \in Keys}
      BY <3>2
    <3>4. QED
      BY <3>3
  <2>7. QED
    BY <2>4, <2>6
<1> HIDE DEF own, changes, pos, history, shown, last, rows
<1>5. \A i \in DOMAIN log : i \in Nat
  BY <1>1
<1>6. ASSUME NEW k, NEW q \in own(k), NEW r \in own(k), pos(q) < pos(r)
      PROVE  /\ Later(EventAt(r), EventAt(q)) /\ ~Later(EventAt(q), EventAt(r))
  <2>1. /\ log[pos(q)].carries.lsn \in Int /\ log[pos(q)].carries.tx \in Int
        /\ log[pos(r)].carries.lsn \in Int /\ log[pos(r)].carries.tx \in Int
        /\ \/ log[pos(q)].carries.lsn < log[pos(r)].carries.lsn
           \/ /\ log[pos(q)].carries.lsn = log[pos(r)].carries.lsn
              /\ log[pos(q)].carries.tx < log[pos(r)].carries.tx
    <3>1. /\ pos(q) \in DOMAIN log /\ pos(r) \in DOMAIN log /\ pos(q) < pos(r)
          /\ log[pos(q)].carries.kind = "event" /\ log[pos(r)].carries.kind = "event"
          /\ log[pos(r)].carries.key = log[pos(q)].carries.key
      BY <1>3, <1>6
    <3>2. QED
      BY <1>1, <3>1, OrderAssumption, NumbersOfChanges
  <2>2. /\ EventAt(q).lsn = log[pos(q)].carries.lsn /\ EventAt(q).tx = log[pos(q)].carries.tx
        /\ EventAt(r).lsn = log[pos(r)].carries.lsn /\ EventAt(r).tx = log[pos(r)].carries.tx
    BY <1>3
  <2>3. QED
    BY <2>1, <2>2 DEF Later
<1>7. ASSUME NEW k, NEW q \in own(k) PROVE PartitionOf[log[pos(q)].raw.key] = q[1]
  <2>1. q[1] \in Partitions /\ q[2] \in 1..Len(topic[q[1]])
    BY <1>3
  <2>2. PartitionOf[log[topic[q[1]][q[2]]].raw.key] = q[1]
    BY <1>1, <2>1 DEF Placed
  <2>3. QED
    BY <2>2 DEF pos
<1>8. ASSUME NEW k \in Keys, NEW e \in shown(k)
      PROVE  /\ topic[e.partition][e.offset] \in last(k)
             /\ log[topic[e.partition][e.offset]].carries.op # "d"
  <2>1. PICK q \in own(k) : e = EventAt(q)
    BY <1>8 DEF shown, history, Latest
  <2>2. topic[e.partition][e.offset] = pos(q) /\ e.op = log[pos(q)].carries.op /\ e.op # "d"
    <3>1. topic[EventAt(q).partition][EventAt(q).offset] = pos(q) /\ EventAt(q).op = log[pos(q)].carries.op
      BY <1>3
    <3>2. e.op # "d"
      BY <1>8 DEF shown
    <3>3. QED
      BY <2>1, <3>1, <3>2
  <2>3. ASSUME NEW r \in own(k) PROVE pos(r) <= pos(q)
    <3>1. ~Later(EventAt(r), EventAt(q))
      BY <1>8, <2>1 DEF shown, history, Latest
    <3>2. ~(pos(q) < pos(r))
      BY <1>6, <3>1
    <3>3. pos(q) \in Nat /\ pos(r) \in Nat
      BY <1>3, <1>5
    <3>4. QED
      BY <3>2, <3>3
  <2>4. QED
    BY <1>2, <2>2, <2>3
<1>9. ASSUME NEW k \in Keys, NEW i \in last(k), log[i].carries.op # "d"
      PROVE  \E e \in shown(k) : topic[e.partition][e.offset] = i
  <2>1. PICK q \in own(k) : i = pos(q) /\ \A r \in own(k) : pos(r) <= i
    <3>1. i \in {pos(q) : q \in own(k)} /\ \A j \in {pos(q) : q \in own(k)} : j <= i
      BY <1>2, <1>9
    <3>2. QED
      BY <3>1
  <2> DEFINE p == q[1]
             S == {o \in 1..upto[p] : <<p, o>> \in own(k) /\ pos(<<p, o>>) = i}
  <2>2. upto[p] \in Nat /\ q[2] \in S /\ p \in Partitions
    <3>1. /\ p \in Partitions /\ q[2] \in 1..upto[p] /\ q = <<p, q[2]>>
      BY <1>3
    <3>2. upto[p] \in Nat
      BY <1>1, <3>1 DEF InTopic
    <3>3. <<p, q[2]>> \in own(k) /\ pos(<<p, q[2]>>) = i
      BY <2>1, <3>1
    <3>4. QED
      BY <3>1, <3>2, <3>3
  <2>3. PICK o \in S : \A y \in S : y <= o
    <3>1. S \subseteq 1..upto[p] /\ S # {}
      BY <2>2
    <3> HIDE DEF S
    <3>2. QED
      BY <2>2, <3>1, LastExists
  <2> DEFINE w == <<p, o>>
             e == EventAt(w)
  <2>4. w \in own(k) /\ pos(w) = i /\ w[1] = p /\ w[2] = o
    OBVIOUS
  <2>5. /\ e.op = log[i].carries.op /\ e.lsn = log[i].carries.lsn /\ e.tx = log[i].carries.tx
        /\ e.partition = p /\ e.offset = o /\ topic[e.partition][e.offset] = i
        /\ i \in DOMAIN log /\ log[i].carries.kind = "event"
    <3> HIDE DEF w
    <3>1. QED
      BY <1>3, <2>4
  <2>6. e.op # "d" /\ topic[e.partition][e.offset] = i
    BY <1>9, <2>5
  <2>7. ASSUME NEW r \in own(k) PROVE ~Later(EventAt(r), e)
    <3>1. pos(r) \in Nat /\ i \in Nat /\ pos(r) <= i
      BY <1>3, <1>5, <2>1
    <3>2. CASE pos(r) < i
      BY <1>6, <2>4, <3>2
    <3>3. CASE pos(r) = i
      <4>1. /\ EventAt(r).lsn = log[i].carries.lsn /\ EventAt(r).tx = log[i].carries.tx
            /\ EventAt(r).partition = r[1] /\ EventAt(r).offset = r[2]
        <5>1. /\ EventAt(r).lsn = log[pos(r)].carries.lsn
              /\ EventAt(r).tx = log[pos(r)].carries.tx
              /\ EventAt(r).partition = r[1] /\ EventAt(r).offset = r[2]
          BY <1>3
        <5>2. QED
          BY <3>3, <5>1
      <4>2. /\ e.lsn = log[i].carries.lsn /\ e.tx = log[i].carries.tx
            /\ e.partition = p /\ e.offset = o
        BY <2>5
      <4>3. log[i].carries.lsn \in Int /\ log[i].carries.tx \in Int
        BY <1>1, <2>5, NumbersOfChanges
      <4>4. r[1] = PartitionOf[log[i].raw.key] /\ p = PartitionOf[log[i].raw.key]
        <5>1. PartitionOf[log[pos(r)].raw.key] = r[1]
          BY <1>7
        <5>2. PartitionOf[log[pos(w)].raw.key] = w[1]
          <6>1. w \in own(k)
            BY <2>4
          <6> HIDE DEF w
          <6>2. QED
            BY <1>7, <6>1
        <5>3. pos(w) = i /\ w[1] = p
          BY <2>4
        <5> HIDE DEF w, p
        <5>4. QED
          BY <3>3, <5>1, <5>2, <5>3
      <4>5. r[2] \in S
        <5>1. r = <<p, r[2]>> /\ r[2] \in 1..upto[p]
          <6>1. r = <<r[1], r[2]>> /\ r[2] \in 1..upto[r[1]] /\ r[1] = p
            BY <1>3, <4>4
          <6> HIDE DEF p
          <6>2. QED
            BY <6>1
        <5>2. QED
          BY <3>3, <5>1
      <4>6. r[2] <= o /\ r[2] \in Int /\ o \in Int /\ p \in Int
        BY <2>2, <2>3, <4>5
      <4> HIDE DEF e, S, p, w
      <4>7. QED
        BY <4>1, <4>2, <4>3, <4>4, <4>6 DEF Later
    <3> HIDE DEF e, S, p, w
    <3>4. QED
      BY <3>1, <3>2, <3>3
  <2>8. e \in shown(k)
    BY <2>4, <2>6, <2>7 DEF shown, history, Latest
  <2>9. QED
    BY <2>6, <2>8
<1>10. {topic[rec[1]][rec[2]] : rec \in rows} =
        {topic[e.partition][e.offset] : e \in UNION {shown(k) : k \in Keys}}
  <2> DEFINE all == UNION {shown(k) : k \in Keys}
  <2> HIDE DEF all
  <2>1. rows = {<<e.partition, e.offset>> : e \in all}
    BY <1>4 DEF all
  <2>2. ASSUME NEW x \in {topic[rec[1]][rec[2]] : rec \in rows}
        PROVE  x \in {topic[e.partition][e.offset] : e \in all}
    <3>1. PICK rec \in rows : x = topic[rec[1]][rec[2]]
      OBVIOUS
    <3>2. PICK e \in all : rec = <<e.partition, e.offset>>
      BY <2>1
    <3>3. QED
      BY <3>1, <3>2
  <2>3. ASSUME NEW x \in {topic[e.partition][e.offset] : e \in all}
        PROVE  x \in {topic[rec[1]][rec[2]] : rec \in rows}
    <3>1. PICK e \in all : x = topic[e.partition][e.offset]
      OBVIOUS
    <3>2. <<e.partition, e.offset>> \in rows
      BY <2>1
    <3> DEFINE rec == <<e.partition, e.offset>>
    <3>3. rec \in rows /\ x = topic[rec[1]][rec[2]]
      BY <3>1, <3>2
    <3> HIDE DEF rec
    <3>4. QED
      BY <3>3
  <2>4. QED
    BY <2>2, <2>3 DEF all
<1>11. {topic[e.partition][e.offset] : e \in UNION {shown(k) : k \in Keys}} =
         UNION {{i \in last(k) : log[i].carries.op # "d"} : k \in Keys}
  BY <1>8, <1>9
<1>12. QED
  BY <1>10, <1>11 DEF last, rows, Positions


(* However often the connector starts over and whatever was replayed, the  *)
(* rows of a snapshot are, key by key, the last change the source made     *)
(* among those delivered, and no row where that was a delete.              *)
THEOREM IngestionShowsLastChange == Spec => []SnapshotShowsLastChange
<1>1. RInv => SnapshotShowsLastChange
  <2> SUFFICES ASSUME RInv, OfQuery
               PROVE  Positions(silver.rows) =
                        UNION {{i \in LastChange(k, silver.run, silver.upto) :
                                  log[i].carries.op # "d"} : k \in Keys}
    BY DEF SnapshotShowsLastChange, Positions
  <2> DEFINE read == Valid(Below(silver.upto))
  <2>1. /\ Types /\ Placed /\ InTopic(silver.upto)
        /\ silver.rows = Current(silver.run, read)
    BY DEF RInv, GInv, SilverInv, RowsInv, SnapshotReadsPrefix, OfQuery
  <2>2. read \subseteq Below(silver.upto)
    BY DEF Valid
  <2>3. ASSUME NEW k PROVE LastOf(read, silver.run, k) = LastChange(k, silver.run, silver.upto)
    <3>1. \A q \in Below(silver.upto) : Result(q) = Message(q).carries
      BY <2>1, EventOfChange
    <3>2. \A q \in Below(silver.upto) :
            Message(q).carries.kind = "event" => q \in read
      BY <3>1 DEF Valid
    <3> HIDE DEF read
    <3>3. Positions(Own(read, silver.run, k)) = Changes(k, silver.run, silver.upto)
      BY <2>2, <3>2 DEF Positions, Own, Changes
    <3>4. QED
      BY <3>3 DEF LastOf, LastChange
  <2> HIDE DEF read
  <2>4. Positions(Current(silver.run, read)) =
          UNION {{i \in LastOf(read, silver.run, k) : log[i].carries.op # "d"} : k \in Keys}
    BY <2>1, <2>2, RowsAreLast
  <2>5. QED
    BY <2>1, <2>3, <2>4
<1>2. QED
  BY <1>1, InitRInv, NextRInv, PTL DEF Spec

-----------------------------------------------------------------------------
(* Types *)

(* The connector's restarts bound the topic; a path being filled is that   *)
(* of a day.                                                               *)
Lengths == \A p \in Partitions : Len(topic[p]) <= Longest * resends + sent
Filling == proc # Nothing /\ proc.step = "fill" => proc.date \in Days
TInv == GInv /\ TypeOK /\ Lengths /\ Filling

LEMMA Times ==
    ASSUME NEW a \in Nat, NEW n \in Nat
    PROVE  a * n \in Nat /\ a * (n + 1) = a * n + a
OBVIOUS

LEMMA TimesMonotone ==
    ASSUME NEW a \in Nat, NEW m \in Nat, NEW n \in Nat, m <= n
    PROVE  a * m <= a * n
<1>1. n - m \in Nat /\ n = m + (n - m)
  OBVIOUS
<1>2. a * n = a * m + a * (n - m) /\ a * (n - m) >= 0 /\ a * m \in Int /\ a * n \in Int
  <2>1. \A d \in Nat : a * (m + d) = a * m + a * d /\ a * d >= 0
    OBVIOUS
  <2>2. QED
    BY <1>1, <2>1
<1>3. QED
  BY <1>2

LEMMA Sizes ==
    ASSUME TypeOK, Lengths
    PROVE  /\ Longest \in Nat /\ MaxRecords \in Nat /\ sent \in Nat /\ sent <= Longest
           /\ \A p \in Partitions : Len(topic[p]) \in 0..MaxRecords
<1>1. /\ Longest \in Nat /\ Len(log) \in Nat /\ sent \in Nat /\ sent <= Len(log)
      /\ Len(log) <= Longest /\ MaxResends \in Nat /\ resends \in Nat /\ resends <= MaxResends
  BY LongestAssumption DEF TypeOK
<1>2. /\ Longest * resends \in Nat /\ Longest * resends <= Longest * MaxResends
      /\ MaxRecords = Longest * MaxResends + Longest /\ MaxRecords \in Nat
  BY <1>1, Times, TimesMonotone DEF MaxRecords
<1>3. \A p \in Partitions : Len(topic[p]) \in Nat
  BY DEF TypeOK
<1>4. QED
  BY <1>1, <1>2, <1>3 DEF Lengths

LEMMA RecordsBelow == \A upto : Below(upto) \subseteq Records
BY DEF Below

(* A row of a snapshot is a record that was read.                          *)
LEMMA RowsAreRead ==
    ASSUME NEW cutoff, NEW recs \in SUBSET Records
    PROVE  Current(cutoff, recs) \subseteq recs
<1>1. ASSUME NEW e \in {EventAt(rec) : rec \in recs} PROVE <<e.partition, e.offset>> \in recs
  <2>1. PICK rec \in recs : e = EventAt(rec)
    BY <1>1
  <2>2. rec = <<rec[1], rec[2]>>
    BY DEF Records
  <2>3. e.partition = rec[1] /\ e.offset = rec[2]
    BY <2>1 DEF EventAt
  <2>4. QED
    BY <2>2, <2>3
<1> DEFINE events == {EventAt(rec) : rec \in {q \in recs : Result(q).kind = "event"}}
<1>2. events \subseteq {EventAt(rec) : rec \in recs}
  OBVIOUS
<1> HIDE DEF events
<1>3. Current(cutoff, recs) =
        {<<e.partition, e.offset>> :
            e \in {e \in UNION {Latest({f \in events : f.key = k /\ f.batch <= cutoff}) : k \in Keys} :
                     e.op # "d"}}
  BY DEF Current, events
<1>4. QED
  BY <1>1, <1>2, <1>3 DEF Latest

(* The events of a planned batch that does not fail are of proper days.    *)
LEMMA DatesAreDays ==
    ASSUME GInv, planned # Nothing, NEW rec \in InBatch, ~Raises(InBatch)
    PROVE  DateOf(rec) \in Days
<1>1. rec \in Below(planned) /\ InTopic(planned) /\ Types
  BY DEF InBatch, GInv, OffsetsInv
<1>2. /\ topic[rec[1]][rec[2]] \in DOMAIN log /\ log \in Logs
      /\ Message(rec) = log[topic[rec[1]][rec[2]]]
  BY <1>1, Delivered
<1>3. Message(rec).raw \in RawRecords
  BY <1>2 DEF RawRecords
<1>4. DateOf(rec) = EventDay(Message(rec).raw)
  BY <1>3 DEF DateOf, Normalized
<1>5. DateOf(rec) \in Nat \ {0}
  BY <1>2, <1>4, SenderAssumption, EventDayIsDay
<1>6. QED
  BY <1>5, ParsingAssumption DEF Raises, DayRaises, Days

LEMMA SnapshotTyped ==
    ASSUME TypeOK, NEW r \in Cutoffs, NEW end \in Days \cup {Nothing},
           NEW recs \in SUBSET Records, end = Nothing => proc.target \in Offsets
    PROVE  Snapshot(r, recs, end) \in Snapshots /\ Snapshot(r, recs, end) # Nothing
<1>1. committed \in Offsets /\ Current(r, recs) \subseteq Records
  BY RowsAreRead DEF TypeOK
<1>2. QED
  BY <1>1, SnapshotsAssumption DEF Snapshot, Snapshots

LEMMA InitTInv == Init => TInv
<1> SUFFICES ASSUME Init PROVE TInv
  OBVIOUS
<1>1. GInv
  BY InitGInv
<1>2. Longest \in Nat /\ MaxRecords \in Nat /\ Longest * 0 = 0
  BY LongestAssumption, Times DEF MaxRecords
<1>3. Len(log) \in Nat /\ 0 \in 0..Len(log)
  BY DEF Init
<1>4. QED
  BY <1>1, <1>2, <1>3 DEF Init, TInv, TypeOK, Lengths, Filling, Offsets

(* The process keeps its form, whatever step it takes.                     *)
ProcOK(q) == q \in [run : Cutoffs, target : Offsets, date : Days \cup {Nothing},
                    step : {"poll", "parse", "dates", "fill", "commit"}, todo : SUBSET Days]

LEMMA NextTInv == TInv /\ [Next]_vars => TInv'
<1> SUFFICES ASSUME TInv, [Next]_vars PROVE TInv'
  OBVIOUS
<1>1. GInv /\ GInv' /\ TypeOK /\ Lengths /\ Filling
  BY NextGInv DEF TInv
<1>2. /\ Longest \in Nat /\ MaxRecords \in Nat /\ sent \in Nat /\ sent <= Longest
      /\ \A p \in Partitions : Len(topic[p]) \in 0..MaxRecords
  BY <1>1, Sizes
<1>3. log \in Logs /\ Len(log) \in Nat /\ DOMAIN log = 1..Len(log) /\ Len(log) <= Longest
  BY <1>1, LongestAssumption DEF TypeOK
<1>4. proc # Nothing => ProcOK(proc)
  BY <1>1 DEF TypeOK, ProcOK
<1>5. CASE Produce
  <2>1. /\ UNCHANGED <<log, resends, checkpointVars, fileVars, silver, proc, crashes>>
        /\ sent < Len(log) /\ sent' = sent + 1
    BY <1>5 DEF Produce
  <2>2. PICK p : topic' = [topic EXCEPT ![p] = Append(@, sent + 1)]
    BY <1>5 DEF Produce
  <2>3. topic' \in [Partitions -> Seq(DOMAIN log)]
    BY <1>1, <2>1 DEF GInv, Types
  <2>4. \A q \in Partitions : Len(topic[q]) \in Nat /\ Len(topic'[q]) <= Len(topic[q]) + 1
    <3>1. \A q \in Partitions : topic[q] \in Seq(DOMAIN log)
      BY <1>1 DEF GInv, Types
    <3>2. \A q \in Partitions : topic'[q] = topic[q] \/ topic'[q] = Append(topic[q], sent + 1)
      BY <2>2, <1>1 DEF GInv, Types
    <3>3. QED
      BY <3>1, <3>2
  <2>5. Longest * resends \in Nat
    BY <1>1, <1>2, Times DEF TypeOK
  <2>6. Lengths'
    <3>1. ASSUME NEW q \in Partitions PROVE Len(topic'[q]) <= Longest * resends + (sent + 1)
      <4> DEFINE most == Longest * resends
      <4>1. Len(topic[q]) <= most + sent /\ Len(topic'[q]) \in Nat /\ most \in Nat
        <5>1. topic'[q] \in Seq(DOMAIN log)
          BY <2>3
        <5>2. Len(topic'[q]) \in Nat
          BY <5>1
        <5>3. QED
          BY <1>1, <2>5, <5>2 DEF Lengths
      <4> HIDE DEF most
      <4>2. Len(topic'[q]) <= most + (sent + 1)
        BY <1>2, <2>4, <4>1
      <4>3. QED
        BY <4>2 DEF most
    <3>2. QED
      BY <2>1, <3>1 DEF Lengths
  <2>7. TypeOK'
    BY <1>1, <1>2, <1>3, <2>1, <2>3 DEF TypeOK, checkpointVars, fileVars
  <2>8. QED
    BY <1>1, <2>1, <2>6, <2>7 DEF TInv, Filling
<1>6. ASSUME NEW n \in 0..Longest, Resend(n) PROVE TInv'
  <2>1. /\ UNCHANGED <<log, topic, checkpointVars, fileVars, silver, proc, crashes>>
        /\ n < sent /\ resends < MaxResends /\ sent' = n /\ resends' = resends + 1
    BY <1>6 DEF Resend
  <2>2. resends \in Nat /\ resends + 1 \in 0..MaxResends /\ n \in Nat /\ n \in 0..Len(log)
    BY <1>1, <1>2, <1>3, <2>1 DEF TypeOK
  <2>3. Lengths'
    <3>1. Longest * (resends + 1) = Longest * resends + Longest /\ Longest * resends \in Nat
      BY <1>2, <2>2, Times
    <3>2. \A p \in Partitions : Len(topic[p]) <= Longest * (resends + 1) + n
      BY <1>1, <1>2, <2>2, <3>1 DEF Lengths
    <3>3. QED
      BY <2>1, <3>2 DEF Lengths
  <2>4. TypeOK'
    BY <1>1, <2>1, <2>2 DEF TypeOK, checkpointVars, fileVars
  <2>5. QED
    BY <1>1, <2>1, <2>3, <2>4 DEF TInv, Filling
<1>7. ASSUME UNCHANGED sourceVars PROVE Lengths'
  BY <1>1, <1>7 DEF Lengths, sourceVars
<1>8. ASSUME NEW r \in Cutoffs, StartQuery(r) PROVE TInv'
  <2>1. /\ UNCHANGED <<sourceVars, checkpointVars, fileVars, silver, crashes>>
        /\ proc' = [run |-> r, target |-> [p \in Partitions |-> Len(topic[p])],
                    step |-> "poll", date |-> Nothing, todo |-> {}]
    BY <1>8 DEF StartQuery
  <2>2. ProcOK(proc')
    BY <1>2, <2>1 DEF ProcOK, Offsets
  <2>3. TypeOK' /\ Filling'
    BY <1>1, <2>1, <2>2 DEF TypeOK, ProcOK, Filling, sourceVars, checkpointVars, fileVars
  <2>4. QED
    BY <1>1, <1>7, <2>1, <2>3 DEF TInv
<1>9. CASE Replay \/ Plan \/ Crash
  <2>1. /\ UNCHANGED <<sourceVars, committed, batchId, fileVars, silver>>
        /\ proc # Nothing /\ planned' \in {planned, proc.target}
        /\ proc' = Nothing \/ proc' = [proc EXCEPT !.step = "parse"]
        /\ crashes' \in 0..MaxCrashes
    BY <1>1, <1>9 DEF Replay, Plan, Crash, At, TypeOK, checkpointVars
  <2>2. planned' \in Offsets \cup {Nothing} /\ (proc' # Nothing => ProcOK(proc') /\ proc'.step = "parse")
    BY <1>1, <1>4, <2>1 DEF TypeOK, ProcOK
  <2>3. TypeOK' /\ Filling'
    BY <1>1, <2>1, <2>2 DEF TypeOK, ProcOK, Filling, sourceVars, fileVars
  <2>4. QED
    BY <1>1, <1>7, <2>1, <2>3 DEF TInv
<1>10. CASE ParseBatch
  <2>1. /\ UNCHANGED <<sourceVars, checkpointVars, fileVars, silver, crashes>>
        /\ proc # Nothing /\ proc.step = "parse"
        /\ IF Raises(InBatch) THEN proc' = Nothing
           ELSE proc' = [proc EXCEPT !.step = "dates", !.todo = DatesOf(InBatch)]
    BY <1>10 DEF ParseBatch, At
  <2>2. ~Raises(InBatch) => DatesOf(InBatch) \subseteq Days
    BY <1>1, <2>1, DatesAreDays DEF DatesOf, Valid, GInv, OffsetsInv
  <2>3. proc' # Nothing => ProcOK(proc') /\ proc'.step = "dates"
    BY <1>4, <2>1, <2>2 DEF ProcOK
  <2>4. TypeOK' /\ Filling'
    BY <1>1, <2>1, <2>3 DEF TypeOK, ProcOK, Filling, sourceVars, checkpointVars, fileVars
  <2>5. QED
    BY <1>1, <1>7, <2>1, <2>4 DEF TInv
<1>11. ASSUME NEW d \in Days, ClearDate(d) PROVE TInv'
  <2>1. /\ UNCHANGED <<sourceVars, checkpointVars, dead, silver, crashes>>
        /\ proc # Nothing /\ bronze' \subseteq bronze
        /\ proc' = [proc EXCEPT !.step = "fill", !.date = d, !.todo = @ \ {d}]
    BY <1>11 DEF ClearDate, At
  <2>2. ProcOK(proc') /\ proc'.date = d
    BY <1>4, <2>1 DEF ProcOK
  <2>3. TypeOK' /\ Filling'
    BY <1>1, <2>1, <2>2 DEF TypeOK, ProcOK, Filling, sourceVars, checkpointVars
  <2>4. QED
    BY <1>1, <1>7, <2>1, <2>3 DEF TInv
<1>12. InBatch \subseteq Records
  BY RecordsBelow DEF InBatch
<1>13. CASE FillDate
  <2> DEFINE filled == {[run |-> proc.run, id |-> batchId, date |-> proc.date, rec |-> rec] :
                          rec \in {rec \in Valid(InBatch) : DateOf(rec) = proc.date}}
  <2>1. /\ UNCHANGED <<sourceVars, checkpointVars, dead, silver, crashes>>
        /\ proc # Nothing /\ proc.step = "fill" /\ bronze' = bronze \cup filled
        /\ proc' = [proc EXCEPT !.step = "dates", !.date = Nothing]
    BY <1>13 DEF FillDate, At
  <2>2. proc.run \in Cutoffs /\ proc.date \in Days /\ batchId \in Nat
    BY <1>1, <1>4, <2>1 DEF ProcOK, Filling, TypeOK
  <2>3. filled \subseteq [run : Cutoffs, id : Nat, date : Days, rec : Records]
    BY <1>12, <2>2 DEF Valid
  <2> HIDE DEF filled
  <2>4. ProcOK(proc') /\ proc'.step = "dates"
    BY <1>4, <2>1 DEF ProcOK
  <2>5. TypeOK' /\ Filling'
    BY <1>1, <2>1, <2>3, <2>4 DEF TypeOK, ProcOK, Filling, sourceVars, checkpointVars
  <2>6. QED
    BY <1>1, <1>7, <2>1, <2>5 DEF TInv
<1>14. CASE WriteDeadLetters
  <2> DEFINE bad == InBatch \ Valid(InBatch)
             refused == {[run |-> proc.run, id |-> batchId, rec |-> rec,
                          reason |-> Result(rec).reason] : rec \in bad}
  <2>1. /\ UNCHANGED <<sourceVars, checkpointVars, bronze, silver, crashes>>
        /\ proc # Nothing /\ dead' \subseteq dead \cup refused
        /\ proc' = [proc EXCEPT !.step = "commit"]
    BY <1>14 DEF WriteDeadLetters, At
  <2>2. proc.run \in Cutoffs /\ batchId \in Nat
    BY <1>1, <1>4, <2>1 DEF ProcOK, TypeOK
  <2>3. \A f \in refused : f.run \in Cutoffs /\ f.id \in Nat /\ f.rec \in Records
    BY <1>12, <2>2
  <2> HIDE DEF refused
  <2>4. ProcOK(proc') /\ proc'.step = "commit"
    BY <1>4, <2>1 DEF ProcOK
  <2>5. TypeOK' /\ Filling'
    BY <1>1, <2>1, <2>3, <2>4 DEF TypeOK, ProcOK, Filling, sourceVars, checkpointVars
  <2>6. QED
    BY <1>1, <1>7, <2>1, <2>5 DEF TInv
<1>15. CASE CommitBatch
  <2>1. /\ UNCHANGED <<sourceVars, fileVars, silver, crashes>>
        /\ proc # Nothing /\ proc.step = "commit"
        /\ committed' = planned /\ planned' = Nothing /\ batchId' = batchId + 1
        /\ proc' = [proc EXCEPT !.step = "poll"]
    BY <1>15 DEF CommitBatch, At
  <2>2. planned \in Offsets /\ batchId + 1 \in Nat
    BY <1>1, <2>1 DEF TypeOK, GInv, OffsetsInv
  <2>3. ProcOK(proc') /\ proc'.step = "poll"
    BY <1>4, <2>1 DEF ProcOK
  <2>4. TypeOK' /\ Filling'
    BY <1>1, <2>1, <2>2, <2>3 DEF TypeOK, ProcOK, Filling, sourceVars, fileVars
  <2>5. QED
    BY <1>1, <1>7, <2>1, <2>4 DEF TInv
<1>17. CASE WriteSnapshot
  <2>1. /\ UNCHANGED <<sourceVars, checkpointVars, fileVars, crashes>>
        /\ proc # Nothing /\ proc' = Nothing
        /\ silver' = Snapshot(proc.run, {f.rec : f \in bronze}, Nothing)
    BY <1>17 DEF WriteSnapshot, At
  <2>2. {f.rec : f \in bronze} \subseteq Records /\ proc.run \in Cutoffs /\ proc.target \in Offsets
    BY <1>1, <1>4, <2>1 DEF TypeOK, ProcOK
  <2>3. TypeOK' /\ Filling'
    BY <1>1, SnapshotTyped, <2>1, <2>2 DEF TypeOK, Filling, sourceVars, checkpointVars, fileVars
  <2>4. QED
    BY <1>1, <1>7, <2>1, <2>3 DEF TInv
<1>18. ASSUME NEW r \in Cutoffs, NEW end \in Days, Backfill(r, end) PROVE TInv'
  <2> DEFINE recs == {f.rec : f \in {f \in bronze : InInterval(f, end)}}
  <2>1. /\ UNCHANGED <<sourceVars, checkpointVars, fileVars, proc, crashes>>
        /\ silver' = Snapshot(r, recs, end) /\ end # Nothing
    BY <1>18 DEF Backfill, Days
  <2>2. recs \subseteq Records
    BY <1>1 DEF TypeOK
  <2> HIDE DEF recs
  <2>3. TypeOK' /\ Filling'
    BY <1>1, SnapshotTyped, <2>1, <2>2 DEF TypeOK, Filling, sourceVars, checkpointVars, fileVars
  <2>4. QED
    BY <1>1, <1>7, <2>1, <2>3 DEF TInv
<1>19. CASE UNCHANGED vars
  BY <1>1, <1>19
     DEF TInv, TypeOK, Lengths, Filling, vars, sourceVars, checkpointVars, fileVars
<1>20. QED
  BY <1>5, <1>6, <1>8, <1>9, <1>10, <1>11, <1>13, <1>14, <1>15, <1>17, <1>18, <1>19
     DEF Next, Step

(* The states have their types: no offset passes the records the restarts  *)
(* of the connector allow for, no file is written for a day a date cannot  *)
(* hold, and a snapshot reads and shows records of the topic.              *)
THEOREM IngestionTypeCorrect == Spec => []TypeOK
<1>1. TInv => TypeOK
  BY DEF TInv
<1>2. QED
  BY <1>1, InitTInv, NextTInv, PTL DEF Spec

-----------------------------------------------------------------------------
(* Ingestion implements the archive *)

(* What the connector has behind it is in the topic, a message after all   *)
(* earlier ones of its partition, however often it started over; a         *)
(* snapshot's rows are delivered records.                                  *)
SentInv ==
    \A p \in Partitions : \A j \in 1..sent :
        PartitionOf[log[j].raw.key] = p => \E o \in 1..Len(topic[p]) : topic[p][o] = j
OrderedInv ==
    \A p \in Partitions : \A o \in 1..Len(topic[p]) : \A j \in 1..topic[p][o] :
        PartitionOf[log[j].raw.key] = p => \E x \in 1..o : topic[p][x] = j
RowsDelivered ==
    silver # Nothing =>
        \A rec \in silver.rows : rec[1] \in Partitions /\ rec[2] \in 1..Len(topic[rec[1]])
AInv == RInv /\ TInv /\ SentInv /\ OrderedInv /\ RowsDelivered

LEMMA InitAInv == Init => AInv
BY InitRInv, InitTInv DEF Init, AInv, SentInv, OrderedInv, RowsDelivered

(* The message appended follows everything sent before it.                 *)
LEMMA ProduceOrdered ==
    ASSUME AInv, Produce PROVE SentInv' /\ OrderedInv'
<1>1. /\ Types /\ SentInv /\ OrderedInv /\ UNCHANGED log
      /\ sent' = sent + 1 /\ sent \in Nat /\ sent < Len(log) /\ Len(log) \in Nat
  BY DEF AInv, RInv, GInv, Types, Produce
<1>2. PICK p : p = PartitionOf[log[sent + 1].raw.key] /\ topic' = [topic EXCEPT ![p] = Append(@, sent + 1)]
  BY DEF Produce
<1>3. ASSUME NEW q \in Partitions, NEW j \in 1..(sent + 1), PartitionOf[log[j].raw.key] = q
      PROVE  \E o \in 1..Len(topic'[q]) : topic'[q][o] = j
  <2>1. topic[q] \in Seq(DOMAIN log) /\ (topic'[q] = topic[q] \/ (q = p /\ topic'[q] = Append(topic[q], sent + 1)))
    BY <1>1, <1>2 DEF Types
  <2>2. CASE j = sent + 1
    <3>1. q = p /\ topic'[q] = Append(topic[q], sent + 1)
      BY <1>1, <1>2, <1>3, <2>2 DEF Types
    <3>2. Len(topic[q]) + 1 \in 1..Len(topic'[q]) /\ topic'[q][Len(topic[q]) + 1] = j
      BY <2>1, <2>2, <3>1
    <3>3. QED
      BY <3>2
  <2>3. CASE j \in 1..sent
    <3>1. PICK o \in 1..Len(topic[q]) : topic[q][o] = j
      BY <1>1, <1>3, <2>3 DEF SentInv
    <3>2. o \in 1..Len(topic'[q]) /\ topic'[q][o] = topic[q][o]
      BY <2>1
    <3>3. QED
      BY <3>1, <3>2
  <2>4. QED
    BY <1>1, <2>2, <2>3
<1>4. ASSUME NEW q \in Partitions, NEW o \in 1..Len(topic'[q]), NEW j \in 1..topic'[q][o],
             PartitionOf[log[j].raw.key] = q
      PROVE  \E x \in 1..o : topic'[q][x] = j
  <2>1. topic[q] \in Seq(DOMAIN log) /\ (topic'[q] = topic[q] \/ (q = p /\ topic'[q] = Append(topic[q], sent + 1)))
    BY <1>1, <1>2 DEF Types
  <2>2. Len(topic[q]) \in Nat /\ \A x \in 1..Len(topic[q]) : topic'[q][x] = topic[q][x]
    <3>1. ASSUME topic'[q] = Append(topic[q], sent + 1)
          PROVE  \A x \in 1..Len(topic[q]) : topic'[q][x] = topic[q][x]
      BY <2>1, <3>1
    <3>2. QED
      BY <2>1, <3>1
  <2>3. CASE o \in 1..Len(topic[q])
    <3>1. topic'[q][o] = topic[q][o]
      BY <2>2, <2>3
    <3>2. PICK x \in 1..o : topic[q][x] = j
      BY <1>1, <1>4, <2>3, <3>1 DEF OrderedInv
    <3>3. topic'[q][x] = topic[q][x]
      BY <2>2, <2>3
    <3>4. QED
      BY <3>2, <3>3
  <2>4. CASE o \notin 1..Len(topic[q])
    <3>1. o = Len(topic[q]) + 1 /\ o = Len(topic'[q]) /\ topic'[q][o] = sent + 1
      BY <2>1, <2>2, <2>4
    <3>2. j \in 1..(sent + 1)
      BY <3>1
    <3>3. PICK x \in 1..Len(topic'[q]) : topic'[q][x] = j
      BY <1>3, <1>4, <3>2
    <3>4. QED
      BY <3>1, <3>3
  <2>5. QED
    BY <2>3, <2>4
<1>5. SentInv'
  <2>1. sent' = sent + 1 /\ log' = log
    BY <1>1
  <2>2. QED
    BY <1>3, <2>1, Zenon DEF SentInv
<1>6. OrderedInv'
  <2>1. SUFFICES ASSUME NEW q \in Partitions, NEW o \in 1..Len(topic'[q]),
                        NEW j \in 1..topic'[q][o], PartitionOf[log'[j].raw.key] = q
                 PROVE  \E x \in 1..o : topic'[q][x] = j
    BY Zenon DEF OrderedInv
  <2>2. PartitionOf[log[j].raw.key] = q
    BY <1>1, <2>1
  <2>3. QED
    BY <1>4, <2>2
<1>7. QED
  BY <1>5, <1>6

(* A topic is only appended to.                                            *)
LEMMA LengthsGrow ==
    ASSUME GInv, [Next]_vars
    PROVE  /\ log' = log
           /\ \A p \in Partitions :
                /\ Len(topic[p]) \in Nat /\ Len(topic'[p]) \in Nat
                /\ Len(topic[p]) <= Len(topic'[p])
                /\ \A o \in 1..Len(topic[p]) : topic'[p][o] = topic[p][o]
<1>1. Types
  BY DEF GInv
<1>2. CASE Produce
  <2>1. PICK p : topic' = [topic EXCEPT ![p] = Append(@, sent + 1)] /\ log' = log
    BY <1>2 DEF Produce
  <2>2. ASSUME NEW q \in Partitions
        PROVE  /\ Len(topic[q]) \in Nat /\ Len(topic'[q]) \in Nat
               /\ Len(topic[q]) <= Len(topic'[q])
               /\ \A o \in 1..Len(topic[q]) : topic'[q][o] = topic[q][o]
    <3>1. topic[q] \in Seq(DOMAIN log) /\ (topic'[q] = topic[q] \/ topic'[q] = Append(topic[q], sent + 1))
      BY <1>1, <2>1 DEF Types
    <3>2. CASE topic'[q] = topic[q]
      BY <3>1, <3>2
    <3>3. CASE topic'[q] = Append(topic[q], sent + 1)
      BY <3>1, <3>3
    <3>4. QED
      BY <3>1, <3>2, <3>3
  <2>3. QED
    BY <2>1, <2>2
<1>3. CASE UNCHANGED <<log, topic>>
  BY <1>1, <1>3 DEF Types
<1>4. QED
  BY <1>2, <1>3
     DEF Next, Step, Resend, StartQuery, Replay, Plan, ParseBatch, ClearDate, FillDate,
         WriteDeadLetters, CommitBatch, WriteSnapshot, Backfill, Crash, sourceVars, vars

(* Whatever is in a bronze file has been delivered.                        *)
LEMMA BronzeDelivered ==
    ASSUME GInv PROVE \E upto : InTopic(upto) /\ {f.rec : f \in bronze} \subseteq Below(upto)
<1>1. ASSUME NEW f \in bronze
      PROVE  f.rec \in Below(committed) \/ (planned # Nothing /\ f.rec \in Below(planned))
  BY DEF GInv, Files, BronzeSound, OfBatch
<1>2. CASE planned = Nothing
  BY <1>1, <1>2 DEF GInv, OffsetsInv
<1>3. CASE planned # Nothing
  <2>1. InTopic(planned) /\ Below(committed) \subseteq Below(planned)
    BY <1>3, BelowMonotone DEF GInv, OffsetsInv, InTopic
  <2>2. QED
    BY <1>1, <2>1
<1>4. QED
  BY <1>2, <1>3

LEMMA NextAInv == AInv /\ [Next]_vars => AInv'
<1> SUFFICES ASSUME AInv, [Next]_vars PROVE AInv'
  OBVIOUS
<1>1. RInv' /\ TInv'
  BY NextRInv, NextTInv DEF AInv
<1>2. SentInv' /\ OrderedInv'
  <2>1. CASE Produce
    BY <2>1, ProduceOrdered
  <2>2. ASSUME NEW n \in 0..Longest, Resend(n) PROVE SentInv' /\ OrderedInv'
    <3>1. UNCHANGED <<log, topic>> /\ sent' \in Int /\ sent' <= sent /\ sent \in Nat
      BY <2>2 DEF Resend, AInv, RInv, GInv, Types
    <3>2. QED
      BY <3>1 DEF AInv, SentInv, OrderedInv
  <2>3. CASE UNCHANGED <<log, topic, sent>>
    <3>1. SentInv /\ OrderedInv
      BY DEF AInv
    <3>2. SentInv'
      BY <2>3, <3>1 DEF SentInv
    <3>3. OrderedInv'
      BY <2>3, <3>1 DEF OrderedInv
    <3>4. QED
      BY <3>2, <3>3
  <2>4. \/ Produce \/ \E n \in 0..Longest : Resend(n)
        \/ UNCHANGED <<log, topic, sent>>
    <3>1. CASE Step
      BY <3>1 DEF Step, Replay, Plan, ParseBatch, ClearDate, FillDate, WriteDeadLetters,
                  CommitBatch, WriteSnapshot, sourceVars
    <3>2. QED
      BY <3>1 DEF Next, StartQuery, Backfill, Crash, sourceVars, vars
  <2>5. QED
    BY <2>1, <2>2, <2>3, <2>4
<1>3. RowsDelivered'
  <2>1. ASSUME silver' = silver PROVE RowsDelivered'
    <3>1. \A p \in Partitions : Len(topic[p]) \in Nat /\ Len(topic'[p]) \in Nat
                               /\ Len(topic[p]) <= Len(topic'[p])
      BY LengthsGrow DEF AInv, RInv
    <3>2. \A p \in Partitions : 1..Len(topic[p]) \subseteq 1..Len(topic'[p])
      BY <3>1
    <3>3. QED
      BY <2>1, <3>2 DEF AInv, RowsDelivered
  <2>2. ASSUME NEW r, NEW recs, NEW end, silver' = Snapshot(r, recs, end),
               recs = {f.rec : f \in bronze} \/ \E d : recs = {f.rec : f \in {f \in bronze : InInterval(f, d)}},
               UNCHANGED <<log, topic>>
        PROVE  RowsDelivered'
    <3>1. recs \subseteq {f.rec : f \in bronze}
      BY <2>2
    <3>2. PICK upto : InTopic(upto) /\ recs \subseteq Below(upto)
      BY <3>1, BronzeDelivered DEF AInv, RInv
    <3>3. Current(r, recs) \subseteq recs
      BY <3>2, RecordsBelow, RowsAreRead
    <3>4. \A rec \in Current(r, recs) : rec[1] \in Partitions /\ rec[2] \in 1..Len(topic[rec[1]])
      BY <3>2, <3>3, Delivered DEF AInv, RInv, GInv
    <3>5. silver'.rows = Current(r, recs)
      BY <2>2 DEF Snapshot
    <3>6. QED
      BY <2>2, <3>4, <3>5 DEF RowsDelivered
  <2>3. CASE WriteSnapshot
    BY <2>2, <2>3 DEF WriteSnapshot, sourceVars
  <2>4. ASSUME NEW r \in Cutoffs, NEW end \in Days, Backfill(r, end) PROVE RowsDelivered'
    BY <2>2, <2>4 DEF Backfill, sourceVars
  <2>5. QED
    BY <2>1, <2>3, <2>4
       DEF Next, Step, Produce, Resend, StartQuery, Replay, Plan, ParseBatch, ClearDate, FillDate,
           WriteDeadLetters, CommitBatch, Crash, vars
<1>4. QED
  BY <1>1, <1>2, <1>3 DEF AInv

(* Which message a record has, in the terms of the archive.                *)
LEMMA MessagesAre ==
    ASSUME Types
    PROVE  /\ DOMAIN Messages = DOMAIN log /\ DOMAIN log \subseteq Nat
           /\ \A i \in DOMAIN log : 1..i \subseteq DOMAIN log
           /\ \A i \in DOMAIN log :
                /\ Messages[i].partition = PartitionOf[log[i].raw.key]
                /\ Messages[i].carries = log[i].carries
                /\ Messages[i].day = Normalized[log[i].raw].date
                /\ log[i].carries.kind = "event" => log[i].carries.key \in Keys
<1>1. log \in Logs /\ Len(log) \in Nat /\ DOMAIN log = 1..Len(log)
  BY DEF Types
<1>2. ASSUME NEW i \in DOMAIN log, log[i].carries.kind = "event"
      PROVE  log[i].carries.key \in Keys
  <2>1. Conveys(log[i].raw, log[i].carries)
    BY <1>1, <1>2, ChangeConveyed
  <2>2. QED
    BY <2>1 DEF Conveys
<1>3. QED
  BY <1>1, <1>2 DEF Messages

(* Delivered records are at positions of the log.                          *)
LEMMA PositionsAre ==
    ASSUME Types, NEW upto, InTopic(upto), NEW recs, recs \subseteq Below(upto)
    PROVE  /\ Positions(recs) \subseteq DOMAIN log
           /\ \A rec \in recs : Message(rec) = log[topic[rec[1]][rec[2]]]
BY Delivered DEF Positions

(* Only changes count, so what else is read does not matter.               *)
LEMMA SameChanges ==
    ASSUME Types, NEW cutoff, NEW S, NEW T, S \subseteq DOMAIN log, T \subseteq DOMAIN log,
           \A i \in DOMAIN log : log[i].carries.kind = "event" => (i \in S <=> i \in T)
    PROVE  Promise!LastChanges(cutoff, S) = Promise!LastChanges(cutoff, T)
<1>1. \A i \in DOMAIN log : Messages[i].carries = log[i].carries
  BY MessagesAre
<1>2. \A i \in DOMAIN log : Promise!Counts(i, cutoff) => (i \in S <=> i \in T)
  BY <1>1 DEF Promise!Counts
<1>3. QED
  BY <1>2 DEF Promise!LastChanges

(* The rows of a snapshot are what the archive promises of the records it  *)
(* read.                                                                   *)
LEMMA RowsAreLastChanges ==
    ASSUME Types, Placed, NEW upto, InTopic(upto), NEW recs, recs \subseteq Below(upto),
           NEW cutoff
    PROVE  Positions(Current(cutoff, recs)) = Promise!LastChanges(cutoff, Positions(recs))
<1> DEFINE read == Positions(recs)
           counts(i, k) == /\ log[i].carries.kind = "event" /\ log[i].carries.key = k
                           /\ log[i].carries.batch <= cutoff
<1>1. read \subseteq DOMAIN log /\ \A rec \in recs : Message(rec) = log[topic[rec[1]][rec[2]]]
  BY PositionsAre
<1>2. ASSUME NEW k PROVE Positions(Own(recs, cutoff, k)) = {i \in read : counts(i, k)}
  BY <1>1 DEF Positions, Own
<1>3. ASSUME NEW k
      PROVE  LastOf(recs, cutoff, k) =
               {i \in read : counts(i, k) /\ \A j \in read : counts(j, k) => j <= i}
  BY <1>2 DEF LastOf
<1> HIDE DEF read
<1>4. Promise!LastChanges(cutoff, read) =
        {i \in read :
            /\ \E k \in Keys : counts(i, k) /\ \A j \in read : counts(j, k) => j <= i
            /\ log[i].carries.op # "d"}
  <2>1. ASSUME NEW i \in read
        PROVE  /\ Promise!Counts(i, cutoff) <=> counts(i, log[i].carries.key)
               /\ Messages[i].carries = log[i].carries
               /\ log[i].carries.kind = "event" => log[i].carries.key \in Keys
    BY <1>1, MessagesAre DEF Promise!Counts
  <2>2. ASSUME NEW i \in read
        PROVE  (/\ Promise!Counts(i, cutoff) /\ Messages[i].carries.op # "d"
                /\ \A j \in read :
                     Promise!Counts(j, cutoff) /\ Messages[j].carries.key = Messages[i].carries.key
                        => j <= i)
               <=> (/\ \E k \in Keys : counts(i, k) /\ \A j \in read : counts(j, k) => j <= i
                    /\ log[i].carries.op # "d")
    BY <2>1
  <2>3. QED
    BY <2>2 DEF Promise!LastChanges
<1>5. Positions(Current(cutoff, recs)) =
        UNION {{i \in LastOf(recs, cutoff, k) : log[i].carries.op # "d"} : k \in Keys}
  BY RowsAreLast
<1> DEFINE rows == UNION {{i \in LastOf(recs, cutoff, k) : log[i].carries.op # "d"} : k \in Keys}
<1>6. \A i : i \in rows <=> i \in Promise!LastChanges(cutoff, read)
  <2>1. \A i : i \in rows <=> \E k \in Keys : i \in LastOf(recs, cutoff, k) /\ log[i].carries.op # "d"
    OBVIOUS
  <2> HIDE DEF rows
  <2>2. QED
    BY <1>3, <1>4, <2>1
<1> HIDE DEF rows
<1>7. rows = Promise!LastChanges(cutoff, read)
  BY <1>6, <1>4
<1>8. QED
  BY <1>5, <1>7 DEF rows, read

(* Committed offsets leave no gap in the order of the source.              *)
LEMMA CommittedIsGapless ==
    ASSUME AInv, NEW upto, InTopic(upto)
    PROVE  Promise!Gapless(Positions(Below(upto)))
<1>1. Types /\ Placed /\ OrderedInv /\ MaxRecords \in Nat
  BY LongestAssumption DEF AInv, RInv, GInv, MaxRecords
<1> SUFFICES ASSUME NEW i \in Positions(Below(upto)), NEW j \in 1..i,
                    Messages[j].partition = Messages[i].partition
             PROVE  j \in Positions(Below(upto))
  BY DEF Promise!Gapless
<1>2. PICK rec \in Below(upto) : i = topic[rec[1]][rec[2]]
  BY DEF Positions
<1>3. /\ rec[1] \in Partitions /\ rec[2] \in 1..Len(topic[rec[1]])
      /\ rec[2] \in 1..upto[rec[1]] /\ i \in DOMAIN log
  BY <1>1, <1>2, Delivered
<1>4. rec[2] \in 1..MaxRecords
  BY <1>1, <1>2 DEF Below, Records
<1>5. j \in DOMAIN log /\ PartitionOf[log[j].raw.key] = rec[1]
  <2>1. j \in DOMAIN log
    BY <1>1, <1>3, MessagesAre
  <2>2. PartitionOf[log[j].raw.key] = PartitionOf[log[i].raw.key]
    BY <1>1, <1>3, <2>1, MessagesAre
  <2>3. QED
    BY <1>1, <1>2, <1>3, <2>1, <2>2 DEF Placed
<1>6. PICK x \in 1..rec[2] : topic[rec[1]][x] = j
  <2>1. j \in 1..topic[rec[1]][rec[2]]
    BY <1>2
  <2>2. \A n \in 1..topic[rec[1]][rec[2]] :
          PartitionOf[log[n].raw.key] = rec[1] => \E x \in 1..rec[2] : topic[rec[1]][x] = n
    BY <1>1, <1>3 DEF OrderedInv
  <2>3. QED
    BY <1>5, <2>1, <2>2
<1>7. upto[rec[1]] \in Nat
  BY <1>3 DEF InTopic
<1>8. <<rec[1], x>> \in Below(upto)
  <2>1. x \in 1..MaxRecords /\ x <= upto[rec[1]]
    BY <1>1, <1>3, <1>4, <1>7
  <2>2. QED
    BY <1>3, <2>1 DEF Below, Records
<1>9. QED
  BY <1>6, <1>8 DEF Positions

LEMMA InitArchive == Init => Promise!Init
<1> SUFFICES ASSUME Init PROVE Promise!Init
  OBVIOUS
<1>1. Below(committed) = {}
  <2>1. Types /\ InTopic(committed) /\ \A p \in Partitions : Len(topic[p]) = 0
    BY InitGInv DEF GInv, OffsetsInv, Init
  <2>2. ASSUME NEW rec \in Below(committed) PROVE FALSE
    <3>1. rec[1] \in Partitions /\ rec[2] \in 1..Len(topic[rec[1]])
      BY <2>1, Delivered
    <3>2. Len(topic[rec[1]]) = 0
      BY <2>1, <3>1
    <3>3. QED
      BY <3>1, <3>2
  <2>3. QED
    BY <2>2
<1>2. QED
  BY <1>1 DEF Init, Promise!Init, Positions, Shown

(* Committing a batch archives its messages.                               *)
LEMMA CommitDrains ==
    ASSUME AInv, CommitBatch PROVE Promise!Drain
<1>1. /\ Types /\ InTopic(committed) /\ InTopic(planned) /\ UpTo(committed, planned)
  BY DEF AInv, RInv, GInv, OffsetsInv, CommitBatch, At
<1>2. committed' = planned /\ UNCHANGED <<log, topic, silver>>
  BY DEF CommitBatch, sourceVars
<1>3. UNCHANGED <<Messages, Shown>> /\ \A recs : Positions(recs)' = Positions(recs)
  BY <1>2 DEF Messages, Shown, Positions
<1>4. Positions(Below(committed))' = Positions(Below(planned))
  BY <1>2 DEF Positions, Below
<1>5. Positions(Below(committed)) \subseteq Positions(Below(planned))
  BY <1>1, BelowMonotone DEF InTopic, Positions
<1>6. Positions(Below(planned)) \in SUBSET DOMAIN Messages
  BY <1>1, PositionsAre, MessagesAre
<1>7. Promise!Gapless(Positions(Below(planned)))
  BY <1>1, CommittedIsGapless
<1>8. QED
  BY <1>3, <1>4, <1>5, <1>6, <1>7 DEF Promise!Drain

(* The run's snapshot shows the last changes of what is archived.          *)
LEMMA WriteIsSnapshot ==
    ASSUME AInv, AInv', WriteSnapshot PROVE \E r \in Cutoffs : Promise!Snapshot(r)
<1> DEFINE recs == Valid(Below(committed))
           stored == {f.rec : f \in bronze}
<1>1. /\ Types /\ Placed /\ InTopic(committed) /\ proc # Nothing /\ proc.run \in Cutoffs
      /\ committed = proc.target /\ TypeOK /\ proc.target \in Offsets
  BY DEF AInv, RInv, GInv, OffsetsInv, TInv, TypeOK, WriteSnapshot, At, Drained
<1>2. /\ UNCHANGED <<log, topic, committed>>
      /\ silver' = Snapshot(proc.run, stored, Nothing)
  BY DEF WriteSnapshot, sourceVars, checkpointVars
<1>3. stored \in SUBSET Records
  BY <1>1 DEF TypeOK
<1> HIDE DEF stored
<1>4. /\ silver'.run = proc.run /\ silver'.end = Nothing /\ silver'.upto = committed
      /\ silver'.read = stored /\ silver' # Nothing
      /\ silver'.rows = Current(proc.run, stored)
  BY <1>1, <1>2, <1>3, SnapshotTyped DEF Snapshot
<1>5. stored = recs
  <2>1. silver'.read = Valid(Below(silver.upto))'
    BY <1>4 DEF AInv, RInv, GInv, SilverInv, SnapshotReadsPrefix, OfQuery
  <2>2. Below(silver.upto)' = Below(committed)
    BY <1>4 DEF Below
  <2>3. \A rec : Result(rec)' = Result(rec)
    BY <1>2, ResultUnchanged
  <2>4. Valid(Below(silver.upto))' = recs
    BY <2>2, <2>3 DEF Valid
  <2>5. QED
    BY <1>4, <2>1, <2>4
<1>6. Positions(Current(proc.run, recs)) = Promise!LastChanges(proc.run, Positions(Below(committed)))
  <2>1. recs \subseteq Below(committed)
    BY DEF Valid
  <2>2. Positions(Current(proc.run, recs)) = Promise!LastChanges(proc.run, Positions(recs))
    BY <1>1, <2>1, RowsAreLastChanges
  <2>3. /\ Positions(recs) \subseteq DOMAIN log /\ Positions(Below(committed)) \subseteq DOMAIN log
        /\ \A rec \in Below(committed) : Message(rec) = log[topic[rec[1]][rec[2]]]
    BY <1>1, <2>1, PositionsAre
  <2>4. \A rec \in Below(committed) : Result(rec) = Message(rec).carries
    BY <1>1, EventOfChange
  <2>5. \A rec \in Below(committed) :
          log[topic[rec[1]][rec[2]]].carries.kind = "event" => rec \in recs
    BY <2>3, <2>4 DEF Valid
  <2> HIDE DEF recs
  <2>6. \A i \in DOMAIN log : log[i].carries.kind = "event" =>
          (i \in Positions(recs) <=> i \in Positions(Below(committed)))
    BY <2>1, <2>5 DEF Positions
  <2>7. QED
    BY <1>1, <2>2, <2>3, <2>6, SameChanges
<1>7. UNCHANGED <<Messages, Positions(Below(committed))>>
  BY <1>2 DEF Messages, Positions, Below
<1>8. Shown' = [run |-> proc.run, end |-> Nothing,
                rows |-> Positions(Current(proc.run, recs))]
  <2>1. Positions(silver.rows)' = Positions(Current(proc.run, recs))
    BY <1>2, <1>4, <1>5 DEF Positions
  <2>2. QED
    BY <1>4, <2>1 DEF Shown
<1>9. QED
  BY <1>1, <1>6, <1>7, <1>8 DEF Promise!Snapshot

(* A backfill shows the last changes of the days it asks for, whatever it  *)
(* finds of batches that are not committed.                                *)
LEMMA BackfillIsBackfill ==
    ASSUME AInv, AInv', NEW r \in Cutoffs, NEW end \in Days, Backfill(r, end)
    PROVE  Promise!Backfill(r, end)
<1> DEFINE stored == {f.rec : f \in {f \in bronze : InInterval(f, end)}}
           archived == {i \in Positions(Below(committed)) : Messages[i].day <= end}
           read == archived \cup Positions(stored)
<1>1. /\ Types /\ Placed /\ InTopic(committed) /\ TypeOK /\ GInv /\ end # Nothing
      /\ stored \in SUBSET Records
  <2>1. \A f \in bronze : f.rec \in Records
    BY DEF AInv, TInv, TypeOK
  <2>2. stored \in SUBSET Records
    BY <2>1
  <2> HIDE DEF stored
  <2>3. Types /\ Placed /\ InTopic(committed) /\ TypeOK /\ GInv
    BY DEF AInv, RInv, GInv, OffsetsInv, TInv
  <2>4. QED
    BY <2>2, <2>3 DEF Days
<1>2. /\ UNCHANGED <<log, topic, committed>>
      /\ silver' = Snapshot(r, stored, end)
  BY DEF Backfill, sourceVars, checkpointVars
<1>3. PICK upto : InTopic(upto) /\ stored \subseteq Below(upto)
  BY <1>1, BronzeDelivered
<1>4. /\ \A rec \in stored : DateOf(rec) <= end
      /\ \A rec : DateOf(rec) = Normalized[Message(rec).raw].date
  BY <1>1 DEF GInv, Files, BronzeSound, InInterval, DateOf
<1> HIDE DEF stored
<1>5. /\ silver'.run = r /\ silver'.end = end /\ silver'.upto = committed
      /\ silver'.read = stored /\ silver' # Nothing
      /\ silver'.rows = Current(r, stored)
  BY <1>1, <1>2, SnapshotTyped DEF Snapshot
<1>6. \A rec \in Valid(Below(committed)) : DateOf(rec) <= end => rec \in stored
  <2>1. {rec \in Valid(Below(silver.upto)) : DateOf(rec) <= silver.end}' \subseteq silver'.read
    BY <1>1, <1>5 DEF AInv, RInv, GInv, SilverInv, BackfillCoversCommitted, OfBackfill
  <2>2. Below(silver.upto)' = Below(committed)
    BY <1>5 DEF Below
  <2>3. \A rec : Result(rec)' = Result(rec) /\ DateOf(rec)' = DateOf(rec)
    BY <1>2, ResultUnchanged
  <2>4. Valid(Below(silver.upto))' = Valid(Below(committed))
    BY <2>2, <2>3 DEF Valid
  <2>5. QED
    BY <1>5, <2>1, <2>3, <2>4
<1>7. /\ Positions(stored) \subseteq DOMAIN log /\ Positions(Below(committed)) \subseteq DOMAIN log
      /\ \A rec \in stored : Message(rec) = log[topic[rec[1]][rec[2]]]
      /\ \A rec \in Below(committed) : Message(rec) = log[topic[rec[1]][rec[2]]]
  BY <1>1, <1>3, PositionsAre
<1>8. \A i \in DOMAIN log : Messages[i].day = Normalized[log[i].raw].date
  BY <1>1, MessagesAre
<1>9. read \in SUBSET {i \in DOMAIN Messages : Messages[i].day <= end}
  <2>1. ASSUME NEW i \in Positions(stored) PROVE Messages[i].day <= end
    <3>1. PICK rec \in stored : i = topic[rec[1]][rec[2]]
      BY DEF Positions
    <3>2. Messages[i].day = DateOf(rec)
      BY <1>4, <1>7, <1>8, <3>1
    <3>3. QED
      BY <1>4, <3>2
  <2>2. QED
    BY <1>1, <1>7, <2>1, MessagesAre
<1>10. \A i \in DOMAIN log : log[i].carries.kind = "event" =>
         (i \in Positions(stored) <=> i \in read)
  <2>1. ASSUME NEW i \in archived, log[i].carries.kind = "event" PROVE i \in Positions(stored)
    <3>1. PICK rec \in Below(committed) : i = topic[rec[1]][rec[2]]
      BY DEF Positions
    <3>2. Result(rec) = Message(rec).carries /\ Message(rec) = log[i]
      BY <1>1, <1>7, <3>1, EventOfChange
    <3>3. rec \in Valid(Below(committed))
      BY <2>1, <3>2 DEF Valid
    <3>4. DateOf(rec) = Messages[i].day /\ Messages[i].day <= end
      BY <1>4, <1>7, <1>8, <3>2
    <3>5. rec \in stored
      BY <1>6, <3>3, <3>4
    <3>6. QED
      BY <3>1, <3>5 DEF Positions
  <2>2. QED
    BY <2>1
<1>11. Positions(Current(r, stored)) = Promise!LastChanges(r, read)
  <2>1. Positions(Current(r, stored)) = Promise!LastChanges(r, Positions(stored))
    BY <1>1, <1>3, RowsAreLastChanges
  <2>2. read \subseteq DOMAIN log
    BY <1>7
  <2> HIDE DEF read
  <2>3. Promise!LastChanges(r, Positions(stored)) = Promise!LastChanges(r, read)
    BY <1>1, <1>7, <1>10, <2>2, SameChanges
  <2>4. QED
    BY <2>1, <2>3
<1>12. UNCHANGED <<Messages, Positions(Below(committed))>>
  BY <1>2 DEF Messages, Positions, Below
<1>13. Shown' = [run |-> r, end |-> end, rows |-> Promise!LastChanges(r, read)]
  <2>1. Positions(silver.rows)' = Positions(Current(r, stored))
    BY <1>2, <1>5 DEF Positions
  <2>2. QED
    BY <1>5, <1>11, <2>1 DEF Shown
<1>14. \A i \in Positions(Below(committed)) : Messages[i].day <= end => i \in read
  OBVIOUS
<1> HIDE DEF read
<1>15. QED
  BY <1>9, <1>12, <1>13, <1>14 DEF Promise!Backfill

(* Every other step leaves the archive as it is.                           *)
LEMMA ArchiveKept ==
    ASSUME AInv, [Next]_vars, UNCHANGED <<committed, silver>>
    PROVE  UNCHANGED Promise!vars
<1>1. /\ Types /\ InTopic(committed) /\ RowsDelivered /\ log' = log
      /\ \A p \in Partitions : \A o \in 1..Len(topic[p]) : topic'[p][o] = topic[p][o]
  BY LengthsGrow DEF AInv, RInv, GInv, OffsetsInv
<1>2. Positions(Below(committed))' = Positions(Below(committed))
  <2>1. Below(committed)' = Below(committed)
    BY DEF Below
  <2>2. \A rec \in Below(committed) : topic'[rec[1]][rec[2]] = topic[rec[1]][rec[2]]
    BY <1>1, Delivered
  <2>3. QED
    BY <2>1, <2>2 DEF Positions
<1>3. Shown' = Shown
  <2>1. CASE silver = Nothing
    BY <2>1 DEF Shown
  <2>2. CASE silver # Nothing
    <3>1. \A rec \in silver.rows : topic'[rec[1]][rec[2]] = topic[rec[1]][rec[2]]
      BY <1>1, <2>2 DEF RowsDelivered
    <3>2. Positions(silver.rows)' = Positions(silver.rows)
      BY <3>1 DEF Positions
    <3>3. QED
      BY <2>2, <3>2 DEF Shown
  <2>3. QED
    BY <2>1, <2>2
<1>4. Messages' = Messages
  BY <1>1 DEF Messages
<1>5. QED
  BY <1>2, <1>3, <1>4 DEF Promise!vars

LEMMA StepImplementsArchive ==
    AInv /\ AInv' /\ [Next]_vars => [Promise!Next]_(Promise!vars)
<1> SUFFICES ASSUME AInv, AInv', [Next]_vars PROVE [Promise!Next]_(Promise!vars)
  OBVIOUS
<1>1. CASE CommitBatch
  BY <1>1, CommitDrains DEF Promise!Next
<1>2. CASE WriteSnapshot
  BY <1>2, WriteIsSnapshot DEF Promise!Next
<1>3. ASSUME NEW r \in Cutoffs, NEW end \in Days, Backfill(r, end)
      PROVE  Promise!Next
  BY <1>3, BackfillIsBackfill DEF Promise!Next
<1>4. CASE UNCHANGED <<committed, silver>>
  BY <1>4, ArchiveKept
<1>5. \/ CommitBatch \/ WriteSnapshot \/ \E r \in Cutoffs, end \in Days : Backfill(r, end)
      \/ UNCHANGED <<committed, silver>>
  <2>1. Step => CommitBatch \/ WriteSnapshot \/ UNCHANGED <<committed, silver>>
    BY DEF Step, Replay, Plan, ParseBatch, ClearDate, FillDate, WriteDeadLetters, checkpointVars
  <2>2. QED
    BY <2>1 DEF Next, Produce, Resend, StartQuery, Crash, checkpointVars, vars
<1>6. QED
  BY <1>1, <1>2, <1>3, <1>4, <1>5

(* Ingestion implements the archive: whatever crashes, restarts, replays,  *)
(* run ids and backfills there are, what is committed only grows and has   *)
(* no gap, and every snapshot shows the last changes it stands for.        *)
THEOREM IngestionImplementsArchive == Spec => ImplementsArchive
BY InitArchive, StepImplementsArchive, InitAInv, NextAInv, PTL
   DEF Spec, ImplementsArchive, Promise!Spec

-----------------------------------------------------------------------------
(* Snapshots that follow each other *)

(* The source's message j is about the same key as i, and not earlier.     *)
Follows(j, i) ==
    /\ log[i].carries.kind = "event" /\ log[j].carries.kind = "event"
    /\ log[j].carries.key = log[i].carries.key
    /\ i <= j

(* What a snapshot shows has been delivered by a batch that is committed,  *)
(* or is planned and will be, and counts for its cutoff.                   *)
Planned(rec) == rec \in Below(committed) \/ (planned # Nothing /\ rec \in Below(planned))
HeldInv ==
    silver # Nothing =>
        \A rec \in silver.rows :
            /\ Planned(rec)
            /\ Message(rec).carries.kind = "event"
            /\ Message(rec).carries.batch <= silver.run
HInv == AInv /\ HeldInv

(* A row of a snapshot is a change of its cutoff.                          *)
LEMMA RowsCount ==
    ASSUME Types, NEW upto, InTopic(upto), NEW cutoff, NEW recs, recs \subseteq Below(upto)
    PROVE  \A rec \in Current(cutoff, recs) :
              /\ rec \in recs
              /\ Message(rec).carries.kind = "event" /\ Message(rec).carries.batch <= cutoff
<1> DEFINE events == {EventAt(rec) : rec \in {q \in recs : Result(q).kind = "event"}}
<1>1. ASSUME NEW e \in events, e.batch <= cutoff
      PROVE  LET rec == <<e.partition, e.offset>> IN
               /\ rec \in recs
               /\ Message(rec).carries.kind = "event" /\ Message(rec).carries.batch <= cutoff
  <2>1. PICK rec \in recs : e = EventAt(rec) /\ Result(rec).kind = "event"
    BY <1>1
  <2>2. rec = <<rec[1], rec[2]>>
    BY DEF Below, Records
  <2>3. /\ e.partition = rec[1] /\ e.offset = rec[2] /\ e.batch = Message(rec).carries.batch
        /\ Result(rec) = Message(rec).carries
    BY <2>1, EventOfChange
  <2>4. <<e.partition, e.offset>> = rec
    BY <2>2, <2>3
  <2>5. QED
    BY <1>1, <2>1, <2>3, <2>4
<1> HIDE DEF events
<1>2. Current(cutoff, recs) =
        {<<e.partition, e.offset>> :
            e \in {e \in UNION {Latest({f \in events : f.key = k /\ f.batch <= cutoff}) : k \in Keys} :
                     e.op # "d"}}
  BY DEF Current, events
<1>3. QED
  BY <1>1, <1>2 DEF Latest

LEMMA NextHInv == HInv /\ [Next]_vars => HInv'
<1> SUFFICES ASSUME HInv, [Next]_vars PROVE HInv'
  OBVIOUS
<1>1. AInv' /\ GInv /\ Types /\ OffsetsInv /\ HeldInv
  BY NextAInv DEF HInv, AInv, RInv, GInv
<1>2. ASSUME UNCHANGED <<silver, committed>>, planned' = planned \/ planned = Nothing
      PROVE  HeldInv'
  <2>1. SUFFICES ASSUME silver # Nothing, NEW rec \in silver.rows
                 PROVE  Planned(rec)' /\ Message(rec)' = Message(rec)
    BY <1>1, <1>2 DEF HeldInv
  <2>2. Planned(rec)
    BY <1>1, <2>1 DEF HeldInv
  <2>3. Planned(rec)'
    BY <1>2, <2>2 DEF Planned, Below
  <2>4. Message(rec)' = Message(rec)
    <3>1. rec[1] \in Partitions /\ rec[2] \in 1..Len(topic[rec[1]])
      BY <2>1 DEF HInv, AInv, RowsDelivered
    <3>2. QED
      BY <1>1, <3>1, LengthsGrow DEF Message
  <2>5. QED
    BY <2>3, <2>4
<1>3. ASSUME CommitBatch PROVE HeldInv'
  <2>1. /\ committed' = planned /\ UNCHANGED <<log, topic, silver>>
        /\ planned # Nothing
    BY <1>1, <1>3 DEF CommitBatch, At, OffsetsInv, sourceVars
  <2>2. Below(committed) \subseteq Below(planned)
    BY <1>1, <2>1, BelowMonotone DEF OffsetsInv, InTopic
  <2>3. \A rec : Planned(rec) => Planned(rec)'
    BY <2>1, <2>2 DEF Planned, Below
  <2>4. \A rec : Message(rec)' = Message(rec)
    BY <2>1 DEF Message
  <2>5. QED
    BY <1>1, <2>1, <2>3, <2>4 DEF HeldInv
<1>4. ASSUME NEW r, NEW recs, NEW end, silver' = Snapshot(r, recs, end),
             recs \subseteq {f.rec : f \in bronze},
             UNCHANGED <<log, topic, committed, planned>>
      PROVE  HeldInv'
  <2>1. PICK upto : InTopic(upto) /\ recs \subseteq Below(upto)
    BY <1>1, <1>4, BronzeDelivered
  <2>2. \A rec \in recs : Planned(rec)
    BY <1>1, <1>4 DEF GInv, Files, BronzeSound, OfBatch, Planned
  <2>3. silver'.rows = Current(r, recs) /\ silver'.run = r
    BY <1>4 DEF Snapshot
  <2>4. \A rec : /\ Planned(rec)' <=> Planned(rec)
                 /\ Message(rec)' = Message(rec)
    BY <1>4 DEF Planned, Below, Message
  <2>5. QED
    BY <1>1, <2>1, <2>2, <2>3, <2>4, RowsCount DEF HeldInv
<1>5. ASSUME WriteSnapshot PROVE HeldInv'
  <2>1. silver' = Snapshot(proc.run, {f.rec : f \in bronze}, Nothing)
    BY <1>5 DEF WriteSnapshot
  <2>2. UNCHANGED <<log, topic, committed, planned>>
    BY <1>5 DEF WriteSnapshot, sourceVars, checkpointVars
  <2>3. QED
    BY <1>4, <2>1, <2>2
<1>6. ASSUME NEW r \in Cutoffs, NEW end \in Days, Backfill(r, end) PROVE HeldInv'
  <2>1. {f.rec : f \in {f \in bronze : InInterval(f, end)}} \subseteq {f.rec : f \in bronze}
    OBVIOUS
  <2>2. QED
    BY <1>4, <1>6, <2>1 DEF Backfill, sourceVars, checkpointVars
<1>7. HeldInv'
  <2>1. Step => \/ CommitBatch \/ WriteSnapshot
                \/ UNCHANGED <<silver, committed>> /\ (planned' = planned \/ planned = Nothing)
    BY DEF Step, Replay, Plan, ParseBatch, ClearDate, FillDate, WriteDeadLetters, checkpointVars
  <2>2. QED
    BY <1>2, <1>3, <1>5, <1>6, <2>1
       DEF Next, Produce, Resend, StartQuery, Crash, checkpointVars, vars
<1>8. QED
  BY <1>1, <1>7 DEF HInv

LEMMA SnapshotFollows ==
    ASSUME HInv, HInv', WriteSnapshot, silver # Nothing, silver.run <= proc.run,
           NEW i \in Positions(silver.rows)
    PROVE  /\ \E j \in Positions(Below(committed)) :
                /\ Follows(j, i)
                /\ j \in Positions(silver.rows)' \/ log[j].carries.op = "d"
           /\ \A j \in Positions(silver.rows)' :
                log[j].carries.key = log[i].carries.key => Follows(j, i)
<1> DEFINE drained == Positions(Below(committed))
           run == proc.run
           key == log[i].carries.key
           own == {j \in drained : log[j].carries.kind = "event" /\ log[j].carries.key = key
                                   /\ log[j].carries.batch <= run}
<1>1. /\ AInv /\ AInv' /\ Types /\ HeldInv /\ InTopic(committed) /\ planned = Nothing
      /\ proc # Nothing /\ run \in Nat /\ silver.run \in Nat
  BY DEF HInv, AInv, RInv, TInv, TypeOK, Snapshots, GInv, OffsetsInv, WriteSnapshot, At, Drained
<1>2. drained \subseteq DOMAIN log /\ DOMAIN log = 1..Len(log) /\ Len(log) \in Nat
  BY <1>1, PositionsAre DEF Types
<1>3. PICK rec \in silver.rows : i = topic[rec[1]][rec[2]]
  BY DEF Positions
<1>4. rec \in Below(committed) /\ i \in drained
  BY <1>1, <1>3 DEF HeldInv, Planned, Positions
<1>5. /\ log[i].carries.kind = "event" /\ log[i].carries.batch <= silver.run
  BY <1>1, <1>3, <1>4, PositionsAre DEF HeldInv
<1>6. log[i].carries.batch \in Nat
  BY <1>1, <1>2, <1>4, <1>5, NumbersOfChanges DEF Types
<1>7. i \in own
  BY <1>1, <1>4, <1>5, <1>6
<1>8. Positions(silver.rows)' = Promise!LastChanges(run, drained)
  <2>1. PICK r \in Cutoffs : Promise!Snapshot(r)
    BY <1>1, WriteIsSnapshot
  <2>2. Shown' = [run |-> r, end |-> Nothing, rows |-> Promise!LastChanges(r, drained)]
    BY <2>1 DEF Promise!Snapshot
  <2>3. silver' # Nothing /\ silver'.run = run
    <3>1. silver' = Snapshot(run, {f.rec : f \in bronze}, Nothing)
      BY DEF WriteSnapshot
    <3>2. {f.rec : f \in bronze} \in SUBSET Records
      <4>1. bronze \subseteq [run : Cutoffs, id : Nat, date : Days, rec : Records]
        BY <1>1 DEF AInv, TInv, TypeOK
      <4>2. QED
        BY <4>1
    <3>3. run \in Cutoffs /\ proc.target \in Offsets
      BY <1>1 DEF AInv, TInv, TypeOK
    <3>4. silver' # Nothing
      BY <1>1, <3>1, <3>2, <3>3, SnapshotTyped DEF AInv, TInv
    <3>5. silver'.run = run
      BY <3>1 DEF Snapshot
    <3>6. QED
      BY <3>4, <3>5
  <2>4. Shown' = [run |-> run, end |-> silver'.end, rows |-> Positions(silver.rows)']
    BY <2>3 DEF Shown
  <2>5. [run |-> run, end |-> silver'.end, rows |-> Positions(silver.rows)'].rows
           = Positions(silver.rows)'
    OBVIOUS
  <2>6. QED
    BY <2>2, <2>4, <2>5
<1>9. \A j \in drained : Messages[j].carries = log[j].carries
  BY <1>1, <1>2, MessagesAre
<1> HIDE DEF drained
<1>10. Promise!LastChanges(run, drained) =
         {j \in drained : /\ log[j].carries.kind = "event" /\ log[j].carries.batch <= run
                          /\ log[j].carries.op # "d"
                          /\ \A l \in drained :
                               /\ log[l].carries.kind = "event" /\ log[l].carries.batch <= run
                               /\ log[l].carries.key = log[j].carries.key
                               => l <= j}
  BY <1>9 DEF Promise!LastChanges, Promise!Counts
<1>11. PICK m \in own : \A y \in own : y <= m
  BY <1>2, <1>7, LastExists
<1>12. Follows(m, i) /\ m \in drained
  BY <1>5, <1>7, <1>11 DEF Follows
<1>13. m \in Promise!LastChanges(run, drained) \/ log[m].carries.op = "d"
  BY <1>10, <1>11
<1>14. ASSUME NEW j \in Promise!LastChanges(run, drained), log[j].carries.key = key
       PROVE  Follows(j, i)
  BY <1>5, <1>7, <1>10, <1>14 DEF Follows
<1>15. QED
  BY <1>8, <1>12, <1>13, <1>14 DEF drained

(* A query's snapshot never takes a key back: whatever an earlier snapshot *)
(* of the same or a lower cutoff showed, a backfill's beside a running     *)
(* query too, the query shows that change or a later one of the key, or    *)
(* nothing because a later change deleted it.                              *)
SnapshotsAdvance ==
    [][WriteSnapshot /\ silver # Nothing /\ silver.run <= proc.run =>
         \A i \in Positions(silver.rows) :
            /\ \E j \in Positions(Below(committed)) :
                 /\ Follows(j, i)
                 /\ j \in Positions(silver.rows)' \/ log[j].carries.op = "d"
            /\ \A j \in Positions(silver.rows)' :
                 log[j].carries.key = log[i].carries.key => Follows(j, i)]_vars

THEOREM IngestionSnapshotsAdvance == Spec => SnapshotsAdvance
<1>1. Init => HInv
  BY InitAInv DEF Init, HInv, HeldInv
<1>2. HInv /\ HInv' /\ [Next]_vars =>
        [WriteSnapshot /\ silver # Nothing /\ silver.run <= proc.run =>
           \A i \in Positions(silver.rows) :
              /\ \E j \in Positions(Below(committed)) :
                   /\ Follows(j, i)
                   /\ j \in Positions(silver.rows)' \/ log[j].carries.op = "d"
              /\ \A j \in Positions(silver.rows)' :
                   log[j].carries.key = log[i].carries.key => Follows(j, i)]_vars
  BY SnapshotFollows
<1>3. QED
  BY <1>1, <1>2, NextHInv, PTL DEF Spec, SnapshotsAdvance

-----------------------------------------------------------------------------
(* A record on which the job raises *)

(* No query gets past the parsing of a batch with such a record.           *)
PoisonInv == Poisoned => proc = Nothing \/ proc.step \in {"poll", "parse"}
PInv == GInv /\ PoisonInv

(* Nothing that happens beside a planned batch makes its records raise, or *)
(* stops them from it.                                                     *)
LEMMA RaisesKept ==
    ASSUME GInv, [Next]_vars, planned # Nothing, UNCHANGED <<planned, committed>>
    PROVE  Poisoned' <=> Poisoned
<1>1. InTopic(planned) /\ \A p \in Partitions : Len(topic[p]) \in Nat
  BY LengthsGrow DEF GInv, OffsetsInv
<1>2. InBatch' = InBatch /\ InBatch \subseteq Below(planned)
  BY DEF InBatch, Below
<1>3. \A rec \in InBatch : DateOf(rec)' = DateOf(rec)
  BY <1>1, <1>2, LengthsGrow, ResultStable
<1>4. Raises(InBatch)' <=> Raises(InBatch)
  BY <1>2, <1>3 DEF Raises
<1>5. QED
  BY <1>4 DEF Poisoned

LEMMA PoisonedStep ==
    ASSUME PInv, [Next]_vars
    PROVE  /\ PoisonInv'
           /\ Poisoned => Poisoned' /\ UNCHANGED <<planned, committed, bronze, dead>>
<1>1. GInv /\ PoisonInv /\ Types
  BY DEF PInv, GInv
<1>2. CASE Poisoned
  <2>1. planned # Nothing /\ Raises(InBatch) /\ (proc = Nothing \/ proc.step \in {"poll", "parse"})
    BY <1>1, <1>2 DEF Poisoned, PoisonInv
  <2>2. /\ UNCHANGED <<planned, committed, bronze, dead>>
        /\ proc' = Nothing \/ proc' = proc \/ proc'.step \in {"poll", "parse"}
    <3>1. CASE Step
      <4>1. CASE Replay
        BY <1>1, <2>1, <4>1 DEF Replay, At, Types, checkpointVars, fileVars
      <4>2. CASE ParseBatch
        BY <2>1, <4>2 DEF ParseBatch, checkpointVars, fileVars
      <4>3. Replay \/ ParseBatch
        BY <2>1, <3>1 DEF Step, Plan, ClearDate, FillDate, WriteDeadLetters, CommitBatch,
                          WriteSnapshot, Drained, At
      <4>4. QED
        BY <4>1, <4>2, <4>3
    <3>2. ASSUME NEW r \in Cutoffs, StartQuery(r)
          PROVE  UNCHANGED <<planned, committed, bronze, dead>> /\ proc'.step = "poll"
      BY <3>2 DEF StartQuery, checkpointVars, fileVars
    <3>3. QED
      BY <3>1, <3>2 DEF Next, Produce, Resend, Backfill, Crash, checkpointVars, fileVars, vars
  <2>3. Poisoned'
    BY <1>1, <1>2, <2>1, <2>2, RaisesKept
  <2>4. PoisonInv'
    BY <2>1, <2>2 DEF PoisonInv
  <2>5. QED
    BY <2>2, <2>3, <2>4
<1>3. CASE ~Poisoned
  <2>1. SUFFICES ASSUME Poisoned' PROVE PoisonInv'
    BY <1>3 DEF PoisonInv
  <2>2. CASE Plan
    BY <1>1, <2>2 DEF Plan, At, Types, PoisonInv
  <2>3. CASE CommitBatch
    BY <2>1, <2>3 DEF CommitBatch, Poisoned
  <2>4. CASE UNCHANGED <<planned, committed>>
    BY <1>1, <1>3, <2>1, <2>4, RaisesKept DEF Poisoned
  <2>5. Plan \/ CommitBatch \/ UNCHANGED <<planned, committed>>
    <3>1. Step => Plan \/ CommitBatch \/ UNCHANGED <<planned, committed>>
      BY DEF Step, Replay, ParseBatch, ClearDate, FillDate, WriteDeadLetters, WriteSnapshot,
             checkpointVars
    <3>2. QED
      BY <3>1 DEF Next, Produce, Resend, StartQuery, Backfill, Crash, checkpointVars, vars
  <2>6. QED
    BY <2>2, <2>3, <2>4, <2>5
<1>4. QED
  BY <1>2, <1>3

(* One record whose day cannot be represented stops the ingestion of its   *)
(* entity for good: whoever retries, under whatever run id, the planned    *)
(* batch stays as it is, and no record of it or after it, in no partition, *)
(* is ever committed or written.  (This is the exception in                *)
(* EventuallyCommitted.)                                                   *)
THEOREM PoisonedForGood ==
    Spec => [][Poisoned => Poisoned' /\ UNCHANGED <<planned, committed, bronze, dead>>]_vars
<1>1. Init => PInv
  BY InitGInv DEF Init, PInv, PoisonInv
<1>2. PInv /\ [Next]_vars => PInv'
  BY NextGInv, PoisonedStep DEF PInv
<1>3. PInv /\ [Next]_vars =>
        [Poisoned => Poisoned' /\ UNCHANGED <<planned, committed, bronze, dead>>]_vars
  BY PoisonedStep
<1>4. QED
  BY <1>1, <1>2, <1>3, PTL DEF Spec

=============================================================================
