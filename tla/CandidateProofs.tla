---------------------------- MODULE CandidateProofs ----------------------------
(***************************************************************************)
(* What the source promises the gate and what the gate promises readers,   *)
(* for every set of keys, number of batches and changes, and any number of *)
(* executions of different runs that interleave, fail and are repeated.    *)
(***************************************************************************)
EXTENDS Candidate, FiniteSetTheorems, WellFoundedInduction, TLAPS

-----------------------------------------------------------------------------
(* Greatest positions *)

(* A set of positions has a greatest one, which Max names.                 *)
LEMMA MaxExists ==
    ASSUME NEW n \in Nat, NEW S, S \subseteq 1..n, S # {}
    PROVE  Max(S) \in S /\ \A y \in S : y <= Max(S)
<1> DEFINE R == OpToRel(<, Nat)
           T == {n - i : i \in S}
<1>1. IsWellFoundedOn(R, Nat)
  BY NatLessThanWellFounded
<1>2. T \subseteq Nat /\ T # {}
  <2>1. \A i \in S : n - i \in Nat /\ n - i \in T
    OBVIOUS
  <2>2. QED
    BY <2>1
<1>3. \A x, y \in Nat : <<x, y>> \in R <=> x < y
  BY DEF OpToRel
<1> HIDE DEF R, T
<1>4. PICK x \in T : \A y \in T : ~(<<y, x>> \in R)
  BY <1>1, <1>2, WFMin
<1>5. PICK m \in S : x = n - m
  BY <1>4 DEF T
<1>6. \A i \in S : n - i \in T
  BY DEF T
<1>7. ASSUME NEW y \in S PROVE m >= y
  <2>1. n - y \in T /\ n - y \in Nat /\ n - m \in Nat
    BY <1>6
  <2>2. ~(n - y < n - m)
    BY <1>3, <1>4, <1>5, <2>1
  <2>3. QED
    BY <2>2
<1>8. QED
  BY <1>7 DEF Max

-----------------------------------------------------------------------------
(* Types of the source *)

(* A captured change is one more entry of the log.                         *)
Appended(c) ==
    /\ state[c.batch] = "loading"
    /\ log' \in Seq(Change) /\ Len(log') <= MaxChanges
    /\ DOMAIN log' = DOMAIN log \cup {Len(log) + 1} /\ Len(log) + 1 \notin DOMAIN log
    /\ DOMAIN log = 1..Len(log) /\ Len(log) \in Nat
    /\ \A i \in DOMAIN log : log'[i] = log[i]
    /\ log'[Len(log) + 1] = c

LEMMA CaptureAppends ==
    ASSUME SourceTypeOK, NEW k \in Keys, NEW op \in {"c", "u", "d"}, NEW b \in Batches,
           NEW rowBatch \in Batches, Capture(k, op, b, rowBatch)
    PROVE  Appended([key |-> k, op |-> op, batch |-> b, rowBatch |-> rowBatch])
<1> USE SourceAssumption
<1> DEFINE c == [key |-> k, op |-> op, batch |-> b, rowBatch |-> rowBatch]
<1>1. log \in Seq(Change) /\ c \in Change /\ log' = Append(log, c) /\ Len(log) < MaxChanges
      /\ state[b] = "loading"
  BY DEF SourceTypeOK, Capture, Change
<1> HIDE DEF c
<1>2. /\ log' \in Seq(Change) /\ Len(log') = Len(log) + 1 /\ Len(log) \in Nat
      /\ DOMAIN log = 1..Len(log) /\ DOMAIN log' = 1..(Len(log) + 1)
      /\ \A i \in DOMAIN log : log'[i] = log[i]
      /\ log'[Len(log) + 1] = c
  BY <1>1
<1>3. c.batch = b
  BY DEF c
<1>4. QED
  BY <1>1, <1>2, <1>3 DEF Appended, c

LEMMA InitSourceType == SourceInit => SourceTypeOK
BY SourceAssumption DEF SourceInit, SourceTypeOK, States

LEMMA NextSourceType == SourceTypeOK /\ [SourceNext]_sourceVars => SourceTypeOK'
<1> SUFFICES ASSUME SourceTypeOK, [SourceNext]_sourceVars PROVE SourceTypeOK'
  OBVIOUS
<1>1. ASSUME NEW b \in Batches, StartBatch(b) \/ CompleteBatch(b) PROVE SourceTypeOK'
  BY <1>1 DEF StartBatch, CompleteBatch, SourceTypeOK, States
<1>2. ASSUME NEW b \in Batches, NEW k \in Keys, Write(k, b) PROVE SourceTypeOK'
  <2>1. Capture(k, "c", b, b) \/ Capture(k, "u", b, b)
    BY <1>2 DEF Write
  <2>2. log' \in Seq(Change) /\ Len(log') <= MaxChanges
    BY <2>1, CaptureAppends DEF Appended
  <2>3. state' = state /\ table' = [table EXCEPT ![k] = b]
    BY <1>2 DEF Write
  <2>4. QED
    BY <2>2, <2>3 DEF SourceTypeOK
<1>3. ASSUME NEW b \in Batches, NEW k \in Keys, Delete(k, b) PROVE SourceTypeOK'
  <2>1. Capture(k, "d", b, table[k]) /\ table[k] \in Batches
    BY <1>3 DEF Delete, SourceTypeOK
  <2>2. log' \in Seq(Change) /\ Len(log') <= MaxChanges
    BY <2>1, CaptureAppends DEF Appended
  <2>3. state' = state /\ table' = [table EXCEPT ![k] = Absent]
    BY <1>3 DEF Delete
  <2>4. QED
    BY <2>2, <2>3 DEF SourceTypeOK
<1>4. CASE UNCHANGED sourceVars
  BY <1>4 DEF sourceVars, SourceTypeOK
<1>5. QED
  BY <1>1, <1>2, <1>3, <1>4 DEF SourceNext

-----------------------------------------------------------------------------
(* The source *)

(* Batches run one after another, so the log is in the order of batches;   *)
(* only a delete can carry another batch in its row than in its history,   *)
(* and that one has started before.                                        *)
OneAfterAnother ==
    \A b \in Batches : state[b] # "absent" => \A lower \in 1..(b - 1) : state[lower] = "completed"
LogStarted == \A i \in DOMAIN log : state[log[i].batch] # "absent"
LogOrdered == \A i, j \in DOMAIN log : i < j => log[i].batch <= log[j].batch
RowsStarted == \A k \in Keys : table[k] # Absent => state[table[k]] # "absent"
RowsNotLater == \A i \in DOMAIN log : log[i].rowBatch <= log[i].batch
Stamped ==
    \A i \in DOMAIN log : log[i].op # "d" \/ TouchFirst => log[i].rowBatch = log[i].batch
Ordered ==
    OneAfterAnother /\ LogStarted /\ LogOrdered /\ RowsStarted /\ RowsNotLater
SrcInv == SourceTypeOK /\ Stamped /\ Ordered

LEMMA InitSrcInv == SourceInit => SrcInv
BY InitSourceType DEF SourceInit, SrcInv, Ordered, OneAfterAnother, LogStarted, LogOrdered,
   RowsStarted, RowsNotLater, Stamped

(* Rows carry the batch of their change however batches overlap.           *)
LEMMA NextStamped == SourceTypeOK /\ Stamped /\ [SourceNext]_sourceVars => Stamped'
<1> SUFFICES ASSUME SourceTypeOK, Stamped, [SourceNext]_sourceVars PROVE Stamped'
  OBVIOUS
<1>1. ASSUME log' = log PROVE Stamped'
  BY <1>1 DEF Stamped
<1>2. ASSUME NEW k \in Keys, NEW op \in {"c", "u", "d"}, NEW b \in Batches,
             NEW rowBatch \in Batches, Capture(k, op, b, rowBatch),
             op # "d" \/ TouchFirst => rowBatch = b
      PROVE  Stamped'
  <2>1. Appended([key |-> k, op |-> op, batch |-> b, rowBatch |-> rowBatch])
    BY <1>2, CaptureAppends
  <2>2. QED
    BY <1>2, <2>1 DEF Appended, Stamped
<1>3. ASSUME NEW b \in Batches, NEW k \in Keys, Write(k, b) PROVE Stamped'
  BY <1>2, <1>3 DEF Write
<1>4. ASSUME NEW b \in Batches, NEW k \in Keys, Delete(k, b) PROVE Stamped'
  <2>1. table[k] \in Batches /\ Capture(k, "d", b, table[k]) /\ (TouchFirst => table[k] = b)
    BY <1>4 DEF Delete, SourceTypeOK
  <2>2. QED
    BY <1>2, <2>1
<1>5. QED
  BY <1>1, <1>3, <1>4 DEF SourceNext, StartBatch, CompleteBatch, sourceVars

(* The batch of a capture is not below any batch that has started.         *)
LEMMA CaptureAbove ==
    ASSUME SrcInv, NEW b \in Batches, state[b] = "loading"
    PROVE  /\ \A c \in Batches : state[c] # "absent" => c <= b
           /\ \A i \in DOMAIN log : log[i].batch <= b
<1>1. ASSUME NEW c \in Batches, state[c] # "absent" PROVE c <= b
  <2>1. b \in Int /\ c \in Int /\ b >= 1
    BY DEF Batches
  <2>2. SUFFICES ASSUME b < c PROVE FALSE
    BY <2>1
  <2>3. b \in 1..(c - 1)
    BY <2>1, <2>2
  <2>4. state[b] = "completed"
    BY <1>1, <2>3 DEF SrcInv, Ordered, OneAfterAnother
  <2>5. QED
    BY <2>4
<1>2. \A i \in DOMAIN log : log[i].batch \in Batches
  <2>1. \A i \in DOMAIN log : log[i] \in Change
    BY DEF SrcInv, SourceTypeOK
  <2>2. QED
    BY <2>1 DEF Change
<1>3. QED
  BY <1>1, <1>2 DEF SrcInv, Ordered, LogStarted

LEMMA CaptureOrdered ==
    ASSUME SrcInv, NEW k \in Keys, NEW op \in {"c", "u", "d"}, NEW b \in Batches,
           NEW rowBatch \in Batches, Capture(k, op, b, rowBatch), state' = state,
           state[rowBatch] # "absent",
           \E row \in {b, Absent} : table' = [table EXCEPT ![k] = row]
    PROVE  Ordered'
<1> DEFINE new == Len(log) + 1
<1>1. /\ state[b] = "loading"
      /\ DOMAIN log' = DOMAIN log \cup {new} /\ new \notin DOMAIN log
      /\ DOMAIN log = 1..Len(log) /\ Len(log) \in Nat
      /\ \A i \in DOMAIN log : log'[i] = log[i]
      /\ log'[new] = [key |-> k, op |-> op, batch |-> b, rowBatch |-> rowBatch]
  <2>1. Appended([key |-> k, op |-> op, batch |-> b, rowBatch |-> rowBatch])
    <3>1. SourceTypeOK
      BY DEF SrcInv
    <3>2. QED
      BY <3>1, CaptureAppends
  <2>2. [key |-> k, op |-> op, batch |-> b, rowBatch |-> rowBatch].batch = b
    OBVIOUS
  <2>3. QED
    BY <2>1, <2>2 DEF Appended
<1>2. \A i \in DOMAIN log : log[i].batch <= b /\ i < new
  <2>1. \A i \in DOMAIN log : log[i].batch <= b
    BY <1>1, CaptureAbove
  <2>2. \A i \in DOMAIN log : i < new
    BY <1>1
  <2>3. QED
    BY <2>1, <2>2
<1>3. rowBatch <= b
  BY <1>1, CaptureAbove
<1> HIDE DEF new
<1>4. LogOrdered'
  <2>1. ASSUME NEW i \in DOMAIN log', NEW j \in DOMAIN log', i < j
        PROVE  log'[i].batch <= log'[j].batch
    <3>1. new \in Nat /\ \A l \in DOMAIN log : l \in Nat
      BY <1>1 DEF new
    <3>2. i \in DOMAIN log
      BY <1>1, <1>2, <2>1, <3>1
    <3>3. CASE j = new
      BY <1>1, <1>2, <3>2, <3>3
    <3>4. CASE j \in DOMAIN log
      BY <1>1, <2>1, <3>2, <3>4 DEF SrcInv, Ordered, LogOrdered
    <3>5. QED
      BY <1>1, <3>3, <3>4
  <2>2. QED
    BY <2>1 DEF LogOrdered
<1>5. OneAfterAnother' /\ LogStarted' /\ RowsNotLater'
  BY <1>1, <1>3 DEF SrcInv, Ordered, OneAfterAnother, LogStarted, RowsNotLater
<1>6. RowsStarted'
  BY <1>1 DEF SrcInv, SourceTypeOK, Ordered, RowsStarted
<1>7. QED
  BY <1>4, <1>5, <1>6 DEF Ordered

LEMMA NextSrcInv ==
    ASSUME ~Overlap PROVE SrcInv /\ [SourceNext]_sourceVars => SrcInv'
<1> SUFFICES ASSUME SrcInv, [SourceNext]_sourceVars PROVE SrcInv'
  OBVIOUS
<1>0. SourceTypeOK' /\ Stamped'
  BY NextSourceType, NextStamped DEF SrcInv
<1>1. ASSUME NEW b \in Batches, StartBatch(b) PROVE Ordered'
  <2>1. /\ \A lower \in 1..(b - 1) : state[lower] = "completed"
        /\ state' = [state EXCEPT ![b] = "loading"] /\ UNCHANGED <<table, log>>
        /\ state[b] = "absent" /\ state \in [Batches -> States]
    BY <1>1 DEF StartBatch, SrcInv, SourceTypeOK
  <2>2. LogOrdered' /\ RowsNotLater' /\ LogStarted' /\ RowsStarted'
    BY <2>1 DEF SrcInv, SourceTypeOK, Ordered, LogOrdered, RowsNotLater, LogStarted,
                RowsStarted, Change
  <2>3. OneAfterAnother'
    BY <2>1 DEF SrcInv, Ordered, OneAfterAnother, Batches
  <2>4. QED
    BY <2>2, <2>3 DEF Ordered
<1>2. ASSUME NEW b \in Batches, CompleteBatch(b) PROVE Ordered'
  <2>1. /\ state' = [state EXCEPT ![b] = "completed"] /\ UNCHANGED <<table, log>>
        /\ state[b] = "loading" /\ state \in [Batches -> States]
    BY <1>2 DEF CompleteBatch, SrcInv, SourceTypeOK
  <2>2. LogOrdered' /\ RowsNotLater' /\ LogStarted' /\ RowsStarted'
    BY <2>1 DEF SrcInv, SourceTypeOK, Ordered, LogOrdered, RowsNotLater, LogStarted, RowsStarted
  <2>3. OneAfterAnother'
    BY <2>1 DEF SrcInv, Ordered, OneAfterAnother, Batches
  <2>4. QED
    BY <2>2, <2>3 DEF Ordered
<1>3. ASSUME NEW b \in Batches, NEW k \in Keys, Write(k, b) PROVE Ordered'
  <2>1. Capture(k, "c", b, b) \/ Capture(k, "u", b, b)
    BY <1>3 DEF Write
  <2>2. state' = state /\ table' = [table EXCEPT ![k] = b] /\ state[b] = "loading"
    BY <1>3 DEF Write, Capture
  <2>3. QED
    BY <2>1, <2>2, CaptureOrdered
<1>4. ASSUME NEW b \in Batches, NEW k \in Keys, Delete(k, b) PROVE Ordered'
  <2>1. /\ Capture(k, "d", b, table[k]) /\ table[k] \in Batches
        /\ state' = state /\ table' = [table EXCEPT ![k] = Absent]
        /\ state[table[k]] # "absent"
    BY <1>4 DEF Delete, SrcInv, SourceTypeOK, Ordered, RowsStarted
  <2>2. QED
    BY <2>1, CaptureOrdered
<1>5. ASSUME UNCHANGED sourceVars PROVE Ordered'
  BY <1>5 DEF sourceVars, SrcInv, Ordered, OneAfterAnother, LogStarted, LogOrdered,
              RowsStarted, RowsNotLater
<1>6. QED
  BY <1>0, <1>1, <1>2, <1>3, <1>4, <1>5 DEF SourceNext, SrcInv

-----------------------------------------------------------------------------
(* What the source promises *)

(* The row of k at a cutoff is that of the last change of k up to it.      *)
HistoryRow(k, b) ==
    IF HistoryOf(k, b) = {} THEN Absent ELSE RowAt(Max(HistoryOf(k, b)))

LEMMA HistoryByMax ==
    SrcInv => \A b \in Batches : HistoryAt(b) = [k \in Keys |-> HistoryRow(k, b)]
<1> SUFFICES ASSUME SrcInv, NEW b \in Batches, NEW k \in Keys, HistoryOf(k, b) # {}
             PROVE  LatestHistory(k, b) = Max(HistoryOf(k, b))
  BY DEF HistoryAt, HistoryRow
<1> DEFINE own == HistoryOf(k, b)
           m == Max(own)
           First(i) ==
             \A j \in own :
                \/ log[j].batch < log[i].batch
                \/ log[j].batch = log[i].batch /\ j <= i
<1>1. DOMAIN log = 1..Len(log) /\ Len(log) \in Nat
  BY DEF SrcInv, SourceTypeOK
<1>2. own \subseteq 1..Len(log)
  BY <1>1 DEF HistoryOf
<1>3. \A i \in 1..Len(log) : log[i].batch \in Int
  <2>1. \A i \in DOMAIN log : log[i] \in Change
    BY DEF SrcInv, SourceTypeOK
  <2>2. QED
    BY <1>1, <2>1 DEF Change, Batches
<1>4. \A i, j \in 1..Len(log) : i < j => log[i].batch <= log[j].batch
  BY <1>1 DEF SrcInv, Ordered, LogOrdered
<1>5. LatestHistory(k, b) = CHOOSE i \in own : First(i)
  BY DEF LatestHistory
<1> HIDE DEF own
<1>6. m \in own /\ \A y \in own : y <= m
  BY <1>1, <1>2, MaxExists DEF own
<1> HIDE DEF m
<1>7. First(m)
  <2>1. ASSUME NEW j \in own PROVE log[j].batch < log[m].batch \/ (log[j].batch = log[m].batch /\ j <= m)
    <3>1. j \in 1..Len(log) /\ m \in 1..Len(log) /\ j <= m
      BY <1>2, <1>6
    <3>2. j = m \/ log[j].batch <= log[m].batch
      BY <1>4, <3>1
    <3>3. log[j].batch \in Int /\ log[m].batch \in Int
      BY <1>3, <3>1
    <3>4. QED
      BY <3>1, <3>2, <3>3
  <2>2. QED
    BY <2>1
<1>8. ASSUME NEW i \in own, First(i) PROVE i = m
  <2>1. i \in 1..Len(log) /\ m \in 1..Len(log) /\ i <= m
    BY <1>2, <1>6
  <2>2. log[m].batch < log[i].batch \/ m <= i
    BY <1>6, <1>8
  <2>3. i < m => log[i].batch <= log[m].batch
    BY <1>4, <2>1
  <2>4. log[i].batch \in Int /\ log[m].batch \in Int
    BY <1>3, <2>1
  <2>5. QED
    BY <2>1, <2>2, <2>3, <2>4
<1> HIDE DEF First
<1>9. QED
  BY <1>5, <1>6, <1>7, <1>8 DEF m, own

(* The pipeline only reads the source: its behaviours are the source's.    *)
LEMMA NextReadsSource == [Next]_vars => [SourceNext]_sourceVars
BY DEF Next, vars, sourceVars, Start, Spark, Build, Validate, Test, Promote, Abandon, RemoveCandidate

LEMMA PipelineReadsSource == Spec => SourceSpec
<1>1. Init => SourceInit
  BY DEF Init
<1>2. QED
  BY <1>1, NextReadsSource, PTL DEF Spec, SourceSpec

(* Without any assumption on how batches overlap, a closed cutoff stays    *)
(* closed, and a change can only belong to a batch that is loading, so     *)
(* every new entry of the log belongs to a later batch.                    *)
LEMMA ClosedStep ==
    ASSUME SourceTypeOK, [SourceNext]_sourceVars, NEW b \in Batches, Closed(b)
    PROVE  /\ Closed(b)'
           /\ \A i \in DOMAIN log : i \in DOMAIN log' /\ log'[i] = log[i]
           /\ \A i \in DOMAIN log' : i \in DOMAIN log \/ ~(log'[i].batch <= b)
<1>1. \A c \in Batches : state[c] # "completed" => ~(c <= b)
  BY DEF Closed, Batches
<1>2. ASSUME NEW c, Appended(c), c.batch \in Batches
      PROVE  /\ \A i \in DOMAIN log : i \in DOMAIN log' /\ log'[i] = log[i]
             /\ \A i \in DOMAIN log' : i \in DOMAIN log \/ ~(log'[i].batch <= b)
  <2>1. ~(c.batch <= b)
    BY <1>1, <1>2 DEF Appended
  <2>2. QED
    BY <1>2, <2>1 DEF Appended
<1>3. ASSUME NEW l \in Keys, NEW c \in Batches, Write(l, c) \/ Delete(l, c)
      PROVE  state' = state /\ \E d : Appended(d) /\ d.batch \in Batches
  <2>1. PICK op \in {"c", "u", "d"}, rowBatch \in Batches : Capture(l, op, c, rowBatch)
    BY <1>3 DEF Write, Delete, SourceTypeOK
  <2>2. Appended([key |-> l, op |-> op, batch |-> c, rowBatch |-> rowBatch])
    BY <2>1, CaptureAppends
  <2>3. [key |-> l, op |-> op, batch |-> c, rowBatch |-> rowBatch].batch \in Batches
    OBVIOUS
  <2>4. QED
    BY <1>3, <2>2, <2>3 DEF Write, Delete
<1>4. ASSUME NEW c \in Batches, StartBatch(c) \/ CompleteBatch(c)
      PROVE  log' = log /\ \A d \in Batches : state[d] = "completed" => state'[d] = "completed"
  BY <1>4 DEF StartBatch, CompleteBatch, SourceTypeOK
<1>5. CASE UNCHANGED sourceVars
  BY <1>5 DEF sourceVars, Closed
<1>6. 1..b \subseteq Batches
  BY SourceAssumption DEF Batches
<1>7. QED
  BY <1>2, <1>3, <1>4, <1>5, <1>6 DEF SourceNext, Closed

LEMMA ClosedEntriesKept ==
    ASSUME SourceTypeOK, [SourceNext]_sourceVars, NEW b \in Batches, Closed(b), NEW k
    PROVE  /\ HistoryOf(k, b)' = HistoryOf(k, b) /\ HistoryOf(k, b) \subseteq DOMAIN log
           /\ \A i \in DOMAIN log : i \in DOMAIN log' /\ log'[i] = log[i]
BY ClosedStep DEF HistoryOf

(* The rank of source history has one first entry, in any order of batches. *)
Ranked(k, b) ==
    /\ LatestHistory(k, b) \in HistoryOf(k, b)
    /\ \A i \in HistoryOf(k, b) :
         (\A j \in HistoryOf(k, b) :
             \/ log[j].batch < log[i].batch
             \/ log[j].batch = log[i].batch /\ j <= i)
         <=> i = LatestHistory(k, b)

LEMMA HistoryIsRanked ==
    SourceTypeOK => \A k \in Keys, b \in Batches : HistoryOf(k, b) # {} => Ranked(k, b)
<1> SUFFICES ASSUME SourceTypeOK, NEW k \in Keys, NEW b \in Batches, HistoryOf(k, b) # {}
             PROVE  Ranked(k, b)
  OBVIOUS
<1> DEFINE own == HistoryOf(k, b)
           Before(j, i) == \/ log[j].batch < log[i].batch
                           \/ log[j].batch = log[i].batch /\ j <= i
           batches == {log[i].batch : i \in own}
           top == {i \in own : log[i].batch = Max(batches)}
<1>1. DOMAIN log = 1..Len(log) /\ Len(log) \in Nat /\ own \subseteq 1..Len(log)
  BY DEF SourceTypeOK, HistoryOf
<1>2. \A i \in own : log[i].batch \in 1..NBatches
  <2>1. \A i \in DOMAIN log : log[i] \in Change
    BY DEF SourceTypeOK
  <2>2. QED
    BY <1>1, <2>1 DEF Change, Batches
<1>3. LatestHistory(k, b) = CHOOSE i \in own : \A j \in own : Before(j, i)
  BY DEF LatestHistory
<1> HIDE DEF own
<1>4. own # {} /\ batches \subseteq 1..NBatches /\ batches # {} /\ NBatches \in Nat
  BY <1>2, SourceAssumption DEF own
<1>5. Max(batches) \in batches /\ \A c \in batches : c <= Max(batches)
  BY <1>4, MaxExists
<1>6. top \subseteq 1..Len(log) /\ top # {}
  BY <1>1, <1>5
<1>7. Max(top) \in top /\ \A j \in top : j <= Max(top)
  BY <1>1, <1>6, MaxExists
<1>8. ASSUME NEW j \in own PROVE Before(j, Max(top))
  <2>1. /\ log[j].batch \in 1..NBatches /\ log[j].batch <= Max(batches)
        /\ log[Max(top)].batch = Max(batches) /\ Max(batches) \in 1..NBatches
    BY <1>2, <1>4, <1>5, <1>7
  <2>2. log[j].batch = Max(batches) => j <= Max(top)
    BY <1>7
  <2>3. QED
    BY <2>1, <2>2
<1>9. \E i \in own : \A j \in own : Before(j, i)
  BY <1>7, <1>8
<1>10. ASSUME NEW i \in own, NEW l \in own, Before(i, l), Before(l, i) PROVE i = l
  <2>1. i \in 1..Len(log) /\ l \in 1..Len(log) /\ Len(log) \in Nat
        /\ log[i].batch \in 1..NBatches /\ log[l].batch \in 1..NBatches
    BY <1>1, <1>2
  <2>2. QED
    BY <1>4, <1>10, <2>1
<1> HIDE DEF Before
<1>11. /\ LatestHistory(k, b) \in own
       /\ \A j \in own : Before(j, LatestHistory(k, b))
  BY <1>3, <1>9
<1>12. \A i \in own : (\A j \in own : Before(j, i)) <=> i = LatestHistory(k, b)
  BY <1>10, <1>11
<1>13. QED
  BY <1>11, <1>12 DEF own, Before, Ranked

LEMMA HistoryIsRankedPrimed ==
    SourceTypeOK' => \A k \in Keys, b \in Batches : HistoryOf(k, b)' # {} => Ranked(k, b)'
<1>1. (SourceTypeOK => \A k \in Keys, b \in Batches : HistoryOf(k, b) # {} => Ranked(k, b))'
  BY HistoryIsRanked, PTL
<1>2. QED
  BY <1>1

LEMMA ClosedHistoryKept ==
    ASSUME SourceTypeOK, [SourceNext]_sourceVars, NEW b \in Batches, Closed(b)
    PROVE  HistoryAt(b)' = HistoryAt(b)
<1>1. ASSUME NEW k \in Keys, HistoryOf(k, b) # {}
      PROVE  RowAt(LatestHistory(k, b))' = RowAt(LatestHistory(k, b))
  <2> DEFINE own == HistoryOf(k, b)
             m == LatestHistory(k, b)
  <2>1. /\ own' = own /\ own \subseteq DOMAIN log
        /\ \A i \in DOMAIN log : i \in DOMAIN log' /\ log'[i] = log[i]
    BY ClosedEntriesKept
  <2>2. /\ m \in own
        /\ \A j \in own : \/ log[j].batch < log[m].batch
                          \/ log[j].batch = log[m].batch /\ j <= m
    BY <1>1, HistoryIsRanked DEF Ranked
  <2>3. SourceTypeOK'
    BY NextSourceType
  <2>4. \A j \in own : log'[j] = log[j]
    BY <2>1
  <2>5. m = m'
    BY <1>1, <2>1, <2>2, <2>3, <2>4, HistoryIsRankedPrimed DEF Ranked
  <2>6. log'[m] = log[m]
    BY <2>2, <2>4
  <2>7. QED
    BY <2>5, <2>6 DEF RowAt
<1>2. \A k \in Keys : HistoryOf(k, b)' = HistoryOf(k, b)
  BY ClosedEntriesKept
<1>3. QED
  BY <1>1, <1>2 DEF HistoryAt

(* However batches overlap, what validation expects at a cutoff is fixed   *)
(* as soon as every batch up to it is complete.  The code takes a          *)
(* completed batch for such a cutoff; ~Overlap is what makes it one.       *)
THEOREM SourceClosedCutoffIsFrozen == Spec => ClosedCutoffIsFrozen
<1>1. SourceTypeOK /\ [SourceNext]_sourceVars =>
        [\A b \in Batches : Closed(b) => HistoryAt(b)' = HistoryAt(b)]_sourceVars
  BY ClosedHistoryKept
<1>2. QED
  BY PipelineReadsSource, InitSourceType, NextSourceType, <1>1, PTL
     DEF SourceSpec, ClosedCutoffIsFrozen

(* With batches one after another, the silver snapshot of all events at a  *)
(* completed cutoff lacks of the source history at that cutoff exactly the *)
(* rows that a later batch deleted without stamping them first.            *)
THEOREM SourceSilverMatchesHistory ==
    ASSUME ~Overlap PROVE Spec => []SilverMatchesHistory
<1>1. ASSUME SrcInv, NEW b \in Batches, NEW k \in Keys
      PROVE  SilverAt(b, DOMAIN log)[k] =
                IF LateDelete(k, b) THEN Absent ELSE HistoryAt(b)[k]
  <2> DEFINE own == HistoryOf(k, b)
             events == EventsOf(k, b, DOMAIN log)
             m == Max(events)
  <2>1. /\ \A i \in DOMAIN log : /\ log[i].batch \in Int /\ log[i].rowBatch \in Int
                                 /\ log[i].rowBatch <= log[i].batch
                                 /\ log[i].op # "d" => log[i].rowBatch = log[i].batch
        /\ DOMAIN log = 1..Len(log) /\ Len(log) \in Nat /\ b \in Int
    <3>1. \A i \in DOMAIN log : log[i] \in Change
      BY <1>1 DEF SrcInv, SourceTypeOK
    <3>2. \A i \in DOMAIN log : log[i].batch \in Int /\ log[i].rowBatch \in Int
      BY <3>1 DEF Change, Batches
    <3>3. QED
      BY <1>1, <3>2 DEF SrcInv, SourceTypeOK, Ordered, RowsNotLater, Stamped, Batches
  <2>2. SilverAt(b, DOMAIN log)[k] = IF events = {} THEN Absent ELSE RowAt(m)
    BY DEF SilverAt, LatestEvent
  <2>3. CASE ~LateDelete(k, b)
    <3>1. events = own
      BY <2>1, <2>3 DEF EventsOf, HistoryOf, LateDelete
    <3>2. HistoryAt(b)[k] = IF own = {} THEN Absent ELSE RowAt(Max(own))
      BY <1>1, HistoryByMax DEF HistoryRow
    <3>3. QED
      BY <2>2, <2>3, <3>1, <3>2
  <2>4. CASE LateDelete(k, b)
    <3>1. PICK i \in DOMAIN log :
            log[i].key = k /\ log[i].op = "d" /\ log[i].rowBatch <= b /\ b < log[i].batch
      BY <2>4 DEF LateDelete
    <3>2. i \in events /\ events \subseteq 1..Len(log)
      BY <2>1, <3>1 DEF EventsOf
    <3>3. m \in events /\ i <= m
      BY <2>1, <3>2, MaxExists
    <3>4. m \in DOMAIN log /\ log[m].rowBatch <= b
      BY <3>3 DEF EventsOf
    <3> HIDE DEF m
    <3>5. log[i].batch <= log[m].batch
      <4>1. i = m \/ i < m
        BY <2>1, <3>1, <3>3, <3>4
      <4>2. QED
        BY <1>1, <2>1, <3>1, <3>4, <4>1 DEF SrcInv, Ordered, LogOrdered
    <3>6. log[m].op = "d"
      BY <2>1, <3>1, <3>4, <3>5
    <3>7. QED
      BY <2>2, <2>4, <3>2, <3>6 DEF RowAt
  <2>5. QED
    BY <2>3, <2>4
<1>2. SrcInv => SilverMatchesHistory
  BY <1>1 DEF SilverMatchesHistory
<1>3. QED
  BY PipelineReadsSource, InitSrcInv, NextSrcInv, <1>2, PTL DEF SourceSpec

-----------------------------------------------------------------------------
(* Types of the pipeline *)

RunOK == \A e \in Execs : ~On(e, "idle") => exec[e].run \in Batches
TypeInv == TypeOK /\ RunOK

LEMMA RowAtType ==
    ASSUME SourceTypeOK, NEW i \in DOMAIN log
    PROVE  RowAt(i) \in [batch : Batches, ver : 1..MaxChanges] \cup {Absent}
<1>1. log[i] \in Change /\ i \in 1..MaxChanges
  BY SourceAssumption DEF SourceTypeOK
<1>2. QED
  BY <1>1 DEF RowAt, Change

LEMMA SilverType ==
    ASSUME SourceTypeOK, NEW b, NEW read, read \subseteq DOMAIN log
    PROVE  SilverAt(b, read) \in Rows
<1>1. DOMAIN log = 1..Len(log) /\ Len(log) \in Nat
  BY DEF SourceTypeOK
<1>2. ASSUME NEW k \in Keys, EventsOf(k, b, read) # {}
      PROVE  LatestEvent(k, b, read) \in DOMAIN log
  <2>1. EventsOf(k, b, read) \subseteq 1..Len(log)
    BY <1>1 DEF EventsOf
  <2>2. QED
    BY <1>1, <1>2, <2>1, MaxExists DEF LatestEvent
<1>3. ASSUME NEW k \in Keys, EventsOf(k, b, read) # {}
      PROVE  RowAt(LatestEvent(k, b, read)) \in [batch : Batches, ver : 1..MaxChanges] \cup {Absent}
  BY <1>2, <1>3, RowAtType
<1>4. QED
  BY <1>3 DEF SilverAt, Rows

LEMMA MergeType == \A old, new \in Rows : Merge(old, new) \in Rows
BY DEF Merge, Rows

LEMMA InitTypeInv == Init => TypeInv
BY InitSourceType DEF Init, TypeInv, TypeOK, RunOK, Idle, ExecSteps, On

(* Actions that only move one execution keep the execution well typed.     *)
LEMMA MoveType ==
    ASSUME TypeInv, NEW e \in Execs
    PROVE  /\ \A step \in ExecSteps : ~On(e, "idle") /\ GoTo(e, step) =>
                exec' \in [Execs -> [step : ExecSteps, run : Batches \cup {0}]] /\ RunOK'
           /\ Finish(e) =>
                exec' \in [Execs -> [step : ExecSteps, run : Batches \cup {0}]] /\ RunOK'
BY DEF TypeInv, TypeOK, RunOK, On, GoTo, Finish, Idle, ExecSteps

LEMMA NextTypeInv == TypeInv /\ [Next]_vars => TypeInv'
<1> SUFFICES ASSUME TypeInv, [Next]_vars PROVE TypeInv'
  OBVIOUS
<1> USE DEF TypeInv
<1>1. CASE SourceNext /\ UNCHANGED pipelineVars
  <2>1. SourceTypeOK'
    BY <1>1, NextSourceType DEF TypeOK
  <2>2. DOMAIN log \subseteq DOMAIN log'
    <3>1. ASSUME NEW k \in Keys, NEW op \in {"c", "u", "d"}, NEW b \in Batches,
                 NEW rowBatch \in Batches, Capture(k, op, b, rowBatch)
          PROVE  DOMAIN log \subseteq DOMAIN log'
      <4>1. Appended([key |-> k, op |-> op, batch |-> b, rowBatch |-> rowBatch])
        BY <3>1, CaptureAppends DEF TypeOK
      <4>2. QED
        BY <4>1 DEF Appended
    <3>2. ASSUME NEW k \in Keys, NEW b \in Batches, Write(k, b) PROVE DOMAIN log \subseteq DOMAIN log'
      BY <3>1, <3>2 DEF Write
    <3>3. ASSUME NEW k \in Keys, NEW b \in Batches, Delete(k, b) PROVE DOMAIN log \subseteq DOMAIN log'
      <4>1. table[k] \in Batches /\ Capture(k, "d", b, table[k])
        BY <3>3 DEF Delete, TypeOK, SourceTypeOK
      <4>2. QED
        BY <3>1, <4>1
    <3>4. ASSUME NEW b \in Batches, StartBatch(b) \/ CompleteBatch(b) PROVE log' = log
      BY <3>4 DEF StartBatch, CompleteBatch
    <3>5. QED
      BY <1>1, <3>2, <3>3, <3>4 DEF SourceNext
  <2>3. QED
    BY <1>1, <2>1, <2>2 DEF pipelineVars, TypeOK, RunOK, On
<1>2. ASSUME NEW e \in Execs, NEW b \in Batches, Start(e, b) PROVE TypeInv'
  BY <1>2 DEF Start, TypeOK, RunOK, On, ExecSteps, sourceVars, SourceTypeOK
<1>3. ASSUME NEW e \in Execs, Spark(e) PROVE TypeInv'
  <2>1. PICK read \in SUBSET DOMAIN log :
          bronze' = read /\ silver' = [silver EXCEPT ![exec[e].run] = SilverAt(exec[e].run, read)]
    BY <1>3 DEF Spark
  <2>2. SilverAt(exec[e].run, read) \in Rows
    BY SilverType DEF TypeOK
  <2>3. silver' \in [Batches -> Rows \cup {NotBuilt}]
    BY <2>1, <2>2 DEF TypeOK
  <2>4. exec' \in [Execs -> [step : ExecSteps, run : Batches \cup {0}]] /\ RunOK'
    <3>1. ~On(e, "idle") /\ GoTo(e, "build") /\ "build" \in ExecSteps
      BY <1>3 DEF Spark, On, ExecSteps
    <3>2. QED
      BY <3>1, MoveType
  <2>5. QED
    BY <1>3, <2>1, <2>3, <2>4 DEF Spark, TypeOK, sourceVars, SourceTypeOK
<1>4. ASSUME NEW e \in Execs, Build(e) PROVE TypeInv'
  <2> DEFINE b == exec[e].run
  <2>1. ~On(e, "idle") /\ GoTo(e, "validate") /\ "validate" \in ExecSteps
    BY <1>4 DEF Build, On, ExecSteps
  <2>2. exec' \in [Execs -> [step : ExecSteps, run : Batches \cup {0}]] /\ RunOK'
    BY <2>1, MoveType
  <2>3. b \in Batches
    BY <2>1 DEF RunOK
  <2>4. silver[b] \in Rows /\ mart[b] \in Rows \cup {NotBuilt}
    BY <1>4, <2>3 DEF Build, TypeOK
  <2>5. mart' \in [Batches -> Rows \cup {NotBuilt}]
    BY <1>4, <2>3, <2>4, MergeType DEF Build, TypeOK
  <2>6. QED
    BY <1>4, <2>2, <2>5 DEF Build, TypeOK, sourceVars, SourceTypeOK
<1>5. ASSUME NEW e \in Execs, Validate(e) PROVE TypeInv'
  <2>1. ~On(e, "idle") /\ "test" \in ExecSteps /\ (GoTo(e, "test") \/ UNCHANGED exec)
    BY <1>5 DEF Validate, On, ExecSteps
  <2>2. exec' \in [Execs -> [step : ExecSteps, run : Batches \cup {0}]] /\ RunOK'
    <3>1. CASE GoTo(e, "test")
      BY <2>1, <3>1, MoveType
    <3>2. CASE UNCHANGED exec
      BY <3>2 DEF TypeOK, RunOK, On
    <3>3. QED
      BY <2>1, <3>1, <3>2
  <2>3. audit' \in [Batches -> {"none", "passed", "failed"}]
    BY <1>5 DEF Validate, TypeOK
  <2>4. QED
    BY <1>5, <2>2, <2>3 DEF Validate, TypeOK, sourceVars, SourceTypeOK
<1>6. ASSUME NEW e \in Execs, Test(e) PROVE TypeInv'
  <2>1. ~On(e, "idle") /\ GoTo(e, "promote") /\ "promote" \in ExecSteps
    BY <1>6 DEF Test, On, ExecSteps
  <2>2. exec' \in [Execs -> [step : ExecSteps, run : Batches \cup {0}]] /\ RunOK'
    BY <2>1, MoveType
  <2>3. QED
    BY <1>6, <2>2 DEF Test, TypeOK, sourceVars, SourceTypeOK
<1>7. ASSUME NEW e \in Execs, Promote(e) PROVE TypeInv'
  <2>1. exec' \in [Execs -> [step : ExecSteps, run : Batches \cup {0}]] /\ RunOK'
    BY <1>7, MoveType DEF Promote
  <2>2. exec[e].run \in Batches
    BY <1>7 DEF Promote, RunOK, On
  <2>3. recorded' \subseteq Batches /\ shown' \in Batches \cup {0}
    BY <1>7, <2>2 DEF Promote, TypeOK
  <2>4. QED
    BY <1>7, <2>1, <2>3 DEF Promote, TypeOK, sourceVars, SourceTypeOK
<1>8. ASSUME NEW e \in Execs, Abandon(e) PROVE TypeInv'
  <2>1. exec' \in [Execs -> [step : ExecSteps, run : Batches \cup {0}]] /\ RunOK'
    BY <1>8, MoveType DEF Abandon
  <2>2. QED
    BY <1>8, <2>1 DEF Abandon, TypeOK, sourceVars, SourceTypeOK
<1>9. ASSUME NEW b \in Batches, RemoveCandidate(b) PROVE TypeInv'
  BY <1>9 DEF RemoveCandidate, TypeOK, RunOK, On, sourceVars, SourceTypeOK
<1>10. CASE UNCHANGED vars
  BY <1>10 DEF vars, pipelineVars, sourceVars, TypeOK, RunOK, On, SourceTypeOK
<1>11. QED
  BY <1>1, <1>2, <1>3, <1>4, <1>5, <1>6, <1>7, <1>8, <1>9, <1>10 DEF Next

(* Source and pipeline variables keep their types.                         *)
THEOREM CandidateTypeCorrect == Spec => []TypeOK
<1>1. TypeInv => TypeOK
  BY DEF TypeInv
<1>2. QED
  BY InitTypeInv, NextTypeInv, <1>1, PTL DEF Spec

-----------------------------------------------------------------------------
(* Data that is right stays right *)

(* A published run has its mart, a mart its silver rows: only an           *)
(* unpublished run is removed, and nothing else takes a table away.        *)
MartHasSilver == \A b \in Batches : mart[b] # NotBuilt => silver[b] # NotBuilt
RecordedBuilt == \A b \in recorded : mart[b] # NotBuilt
ShownRecorded == shown # 0 => shown \in recorded
PipeInv == TypeInv /\ Stamped /\ MartHasSilver /\ RecordedBuilt /\ ShownRecorded

LEMMA InitPipeInv == Init => PipeInv
BY InitTypeInv DEF Init, PipeInv, SourceInit, Stamped, MartHasSilver, RecordedBuilt, ShownRecorded

LEMMA NextPipeInv == PipeInv /\ [Next]_vars => PipeInv'
<1> SUFFICES ASSUME PipeInv, [Next]_vars PROVE PipeInv'
  OBVIOUS
<1>0. /\ TypeInv /\ TypeInv' /\ Stamped' /\ MartHasSilver /\ RecordedBuilt /\ ShownRecorded
      /\ silver \in [Batches -> Rows \cup {NotBuilt}] /\ mart \in [Batches -> Rows \cup {NotBuilt}]
      /\ recorded \subseteq Batches
  BY NextTypeInv, NextReadsSource, NextStamped DEF PipeInv, TypeInv, TypeOK
<1>1. ASSUME UNCHANGED <<silver, mart, recorded, shown>> PROVE PipeInv'
  BY <1>0, <1>1 DEF PipeInv, MartHasSilver, RecordedBuilt, ShownRecorded
<1>2. ASSUME NEW e \in Execs, Spark(e) PROVE PipeInv'
  <2>1. PICK read \in SUBSET DOMAIN log :
          silver' = [silver EXCEPT ![exec[e].run] = SilverAt(exec[e].run, read)]
    BY <1>2 DEF Spark
  <2>2. SilverAt(exec[e].run, read) # NotBuilt
    BY <1>0, SilverType, NotBuiltAssumption DEF TypeInv, TypeOK
  <2>3. UNCHANGED <<mart, recorded, shown>>
    BY <1>2 DEF Spark
  <2>4. QED
    BY <1>0, <2>1, <2>2, <2>3 DEF PipeInv, MartHasSilver, RecordedBuilt, ShownRecorded
<1>3. ASSUME NEW e \in Execs, Build(e) PROVE PipeInv'
  <2> DEFINE b == exec[e].run
  <2>1. b \in Batches
    BY <1>0, <1>3 DEF Build, TypeInv, RunOK, On
  <2>2. /\ silver[b] # NotBuilt
        /\ mart' = [mart EXCEPT ![b] = IF @ = NotBuilt THEN silver[b] ELSE Merge(@, silver[b])]
        /\ UNCHANGED <<silver, recorded, shown>>
    BY <1>3 DEF Build
  <2>3. mart'[b] # NotBuilt
    BY <1>0, <2>1, <2>2, MergeType, NotBuiltAssumption
  <2>4. QED
    BY <1>0, <2>1, <2>2, <2>3 DEF PipeInv, MartHasSilver, RecordedBuilt, ShownRecorded
<1>4. ASSUME NEW e \in Execs, Promote(e) PROVE PipeInv'
  <2>1. /\ UNCHANGED <<silver, mart>>
        /\ \/ UNCHANGED <<recorded, shown>>
           \/ /\ mart[exec[e].run] # NotBuilt
              /\ shown' = exec[e].run /\ recorded' = recorded \cup {exec[e].run}
    BY <1>4 DEF Promote
  <2>2. QED
    BY <1>0, <2>1 DEF PipeInv, MartHasSilver, RecordedBuilt, ShownRecorded
<1>5. ASSUME NEW b \in Batches, RemoveCandidate(b) PROVE PipeInv'
  <2>1. /\ b \notin recorded /\ UNCHANGED <<recorded, shown>>
        /\ mart' = [mart EXCEPT ![b] = NotBuilt] /\ silver' = [silver EXCEPT ![b] = NotBuilt]
    BY <1>5 DEF RemoveCandidate
  <2>2. QED
    BY <1>0, <2>1 DEF PipeInv, MartHasSilver, RecordedBuilt, ShownRecorded
<1>6. QED
  BY <1>1, <1>2, <1>3, <1>4, <1>5
     DEF Next, vars, pipelineVars, Start, Validate, Test, Abandon

(* A step that leaves the source leaves what is expected and what Spark    *)
(* would find as they were.                                                *)
LEMMA HistoryKept ==
    UNCHANGED sourceVars =>
        \A b \in Batches : /\ HistoryAt(b)' = HistoryAt(b)
                           /\ SilverAt(b, DOMAIN log)' = SilverAt(b, DOMAIN log)
                           /\ Closed(b)' = Closed(b)
<1>1. UNCHANGED sourceVars => \A b \in Batches : HistoryAt(b)' = HistoryAt(b)
  BY DEF sourceVars, HistoryAt, HistoryOf, LatestHistory, RowAt
<1>2. UNCHANGED sourceVars =>
        \A b \in Batches : SilverAt(b, DOMAIN log)' = SilverAt(b, DOMAIN log)
  BY DEF sourceVars, SilverAt, EventsOf, LatestEvent, RowAt
<1>3. UNCHANGED sourceVars => \A b \in Batches : Closed(b)' = Closed(b)
  BY DEF sourceVars, Closed
<1>4. QED
  BY <1>1, <1>2, <1>3

(* Where a delete is stamped with its batch first, a closed cutoff gets no *)
(* new event either.                                                       *)
LEMMA ClosedEventsKept ==
    ASSUME TouchFirst, SourceTypeOK, Stamped, [SourceNext]_sourceVars,
           NEW b \in Batches, Closed(b)
    PROVE  /\ \A i \in DOMAIN log' : log'[i].rowBatch <= b => i \in DOMAIN log /\ log'[i] = log[i]
           /\ SilverAt(b, DOMAIN log)' = SilverAt(b, DOMAIN log)
<1>1. /\ \A i \in DOMAIN log : i \in DOMAIN log' /\ log'[i] = log[i]
      /\ \A i \in DOMAIN log' : i \in DOMAIN log \/ ~(log'[i].batch <= b)
  BY ClosedStep
<1>2. \A i \in DOMAIN log' : log'[i].rowBatch <= b => i \in DOMAIN log /\ log'[i] = log[i]
  BY <1>1, NextStamped DEF Stamped
<1>3. \A k \in Keys : EventsOf(k, b, DOMAIN log)' = EventsOf(k, b, DOMAIN log)
  BY <1>1, <1>2 DEF EventsOf
<1>4. ASSUME NEW k \in Keys, EventsOf(k, b, DOMAIN log) # {}
      PROVE  Max(EventsOf(k, b, DOMAIN log)) \in DOMAIN log
  <2>1. EventsOf(k, b, DOMAIN log) \subseteq 1..Len(log) /\ Len(log) \in Nat
        /\ DOMAIN log = 1..Len(log)
    BY DEF EventsOf, SourceTypeOK
  <2>2. QED
    BY <1>4, <2>1, MaxExists
<1>5. \A i \in DOMAIN log : RowAt(i)' = RowAt(i)
  BY <1>1 DEF RowAt
<1>6. ASSUME NEW k \in Keys
      PROVE  (IF EventsOf(k, b, DOMAIN log) = {} THEN Absent
                 ELSE RowAt(Max(EventsOf(k, b, DOMAIN log))))'
             = IF EventsOf(k, b, DOMAIN log) = {} THEN Absent
                 ELSE RowAt(Max(EventsOf(k, b, DOMAIN log)))
  BY <1>3, <1>4, <1>5
<1>7. QED
  BY <1>2, <1>6 DEF SilverAt, LatestEvent

(* Merging rows into themselves changes nothing.                           *)
LEMMA MergeOfSame == \A b \in Batches : Merge(HistoryAt(b), HistoryAt(b)) = HistoryAt(b)
BY DEF Merge, HistoryAt

LEMMA UpToDateKept ==
    ASSUME TouchFirst, PipeInv, [Next]_vars, NEW b \in Batches, UpToDate(b)
    PROVE  UpToDate(b)' /\ HistoryAt(b)' = HistoryAt(b)
<1>0. /\ TypeInv /\ SourceTypeOK /\ Stamped /\ Closed(b) /\ Arrived(b)
      /\ SilverAt(b, DOMAIN log) = HistoryAt(b)
      /\ silver[b] \in {NotBuilt, HistoryAt(b)} /\ mart[b] \in {NotBuilt, HistoryAt(b)}
      /\ silver \in [Batches -> Rows \cup {NotBuilt}] /\ mart \in [Batches -> Rows \cup {NotBuilt}]
  BY DEF PipeInv, TypeInv, TypeOK, UpToDate
<1>1. CASE SourceNext /\ UNCHANGED pipelineVars
  <2>1. Closed(b)' /\ HistoryAt(b)' = HistoryAt(b)
    BY <1>0, <1>1, ClosedStep, ClosedHistoryKept
  <2>2. /\ \A i \in DOMAIN log' : log'[i].rowBatch <= b => i \in DOMAIN log /\ log'[i] = log[i]
        /\ SilverAt(b, DOMAIN log)' = SilverAt(b, DOMAIN log)
    BY <1>0, <1>1, ClosedEventsKept
  <2>3. UNCHANGED <<bronze, silver, mart>>
    BY <1>1 DEF pipelineVars
  <2>4. Arrived(b)'
    BY <1>0, <2>2, <2>3 DEF Arrived
  <2>5. QED
    BY <1>0, <2>1, <2>2, <2>3, <2>4 DEF UpToDate
<1>2. ASSUME UNCHANGED sourceVars, bronze \subseteq bronze',
             silver'[b] \in {NotBuilt, HistoryAt(b)}, mart'[b] \in {NotBuilt, HistoryAt(b)}
      PROVE  UpToDate(b)' /\ HistoryAt(b)' = HistoryAt(b)
  <2>1. /\ HistoryAt(b)' = HistoryAt(b) /\ Closed(b)'
        /\ SilverAt(b, DOMAIN log)' = SilverAt(b, DOMAIN log)
    BY <1>0, <1>2, HistoryKept
  <2>2. Arrived(b)'
    BY <1>0, <1>2 DEF Arrived, sourceVars
  <2>3. QED
    BY <1>0, <1>2, <2>1, <2>2 DEF UpToDate
<1>3. ASSUME UNCHANGED sourceVars, UNCHANGED <<bronze, silver, mart>>
      PROVE  UpToDate(b)' /\ HistoryAt(b)' = HistoryAt(b)
  BY <1>0, <1>2, <1>3
<1>4. ASSUME NEW e \in Execs, Spark(e) PROVE UpToDate(b)' /\ HistoryAt(b)' = HistoryAt(b)
  <2>1. PICK read \in SUBSET DOMAIN log :
          /\ bronze \subseteq read /\ bronze' = read
          /\ silver' = [silver EXCEPT ![exec[e].run] = SilverAt(exec[e].run, read)]
    BY <1>4 DEF Spark
  <2>2. UNCHANGED sourceVars /\ UNCHANGED mart
    BY <1>4 DEF Spark
  <2>3. \A k \in Keys : EventsOf(k, b, read) = EventsOf(k, b, DOMAIN log)
    BY <1>0, <2>1 DEF EventsOf, Arrived
  <2>4. SilverAt(b, read) = SilverAt(b, DOMAIN log)
    BY <2>3 DEF SilverAt, LatestEvent
  <2>5. silver'[b] \in {NotBuilt, HistoryAt(b)}
    BY <1>0, <2>1, <2>4
  <2>6. QED
    BY <1>0, <1>2, <2>1, <2>2, <2>5
<1>5. ASSUME NEW e \in Execs, Build(e) PROVE UpToDate(b)' /\ HistoryAt(b)' = HistoryAt(b)
  <2>1. /\ silver[exec[e].run] # NotBuilt
        /\ mart' = [mart EXCEPT ![exec[e].run] =
                      IF @ = NotBuilt THEN silver[exec[e].run] ELSE Merge(@, silver[exec[e].run])]
        /\ UNCHANGED sourceVars /\ UNCHANGED <<bronze, silver>>
    BY <1>5 DEF Build
  <2>2. CASE exec[e].run = b
    <3>1. silver[b] = HistoryAt(b)
      BY <1>0, <2>1, <2>2
    <3>2. mart'[b] = IF mart[b] = NotBuilt THEN silver[b] ELSE Merge(mart[b], silver[b])
      BY <1>0, <2>1, <2>2
    <3>3. mart'[b] = HistoryAt(b)
      BY <1>0, <3>1, <3>2, MergeOfSame
    <3>4. QED
      BY <1>0, <1>2, <2>1, <3>3
  <2>3. CASE exec[e].run # b
    BY <1>0, <1>2, <2>1, <2>3
  <2>4. QED
    BY <2>2, <2>3
<1>6. ASSUME NEW c \in Batches, RemoveCandidate(c) PROVE UpToDate(b)' /\ HistoryAt(b)' = HistoryAt(b)
  <2>1. /\ mart' = [mart EXCEPT ![c] = NotBuilt] /\ silver' = [silver EXCEPT ![c] = NotBuilt]
        /\ UNCHANGED sourceVars /\ UNCHANGED bronze
    BY <1>6 DEF RemoveCandidate
  <2>2. QED
    BY <1>0, <1>2, <2>1
<1>7. ASSUME NEW e \in Execs,
             \/ \E c \in Batches : Start(e, c)
             \/ Validate(e) \/ Test(e) \/ Promote(e) \/ Abandon(e)
      PROVE  UpToDate(b)' /\ HistoryAt(b)' = HistoryAt(b)
  BY <1>3, <1>7 DEF Start, Validate, Test, Promote, Abandon
<1>8. CASE UNCHANGED vars
  BY <1>3, <1>8 DEF vars, pipelineVars
<1>9. QED
  BY <1>1, <1>4, <1>5, <1>6, <1>7, <1>8 DEF Next

(* A candidate that is true to its source stays so, however batches        *)
(* overlap and partitions lag, whatever cutoffs are run, and however often *)
(* and by how many executions at once.                                     *)
THEOREM CandidateKeepsTruth == ASSUME TouchFirst PROVE Spec => CandidateStaysTrue
<1>1. PipeInv /\ [Next]_vars => [\A b \in Batches : UpToDate(b) => UpToDate(b)']_vars
  BY UpToDateKept
<1>2. QED
  BY InitPipeInv, NextPipeInv, <1>1, PTL DEF Spec, CandidateStaysTrue

(* A published run that is true to its source keeps its verdict and its    *)
(* table through every later execution and validation, its own included.   *)
THEOREM CandidateVerdictStands == ASSUME TouchFirst PROVE Spec => PublishedStands
<1>1. ASSUME PipeInv, [Next]_vars, NEW b \in recorded, Stands(b)
      PROVE  Stands(b)' /\ mart'[b] = mart[b]
  <2>1. /\ b \in Batches /\ UpToDate(b) /\ Present(HistoryAt(b)) # {} /\ audit[b] = "passed"
        /\ audit \in [Batches -> {"none", "passed", "failed"}]
        /\ mart[b] # NotBuilt /\ silver[b] # NotBuilt
    BY <1>1 DEF Stands, PipeInv, TypeInv, TypeOK, RecordedBuilt, MartHasSilver
  <2>2. UpToDate(b)' /\ HistoryAt(b)' = HistoryAt(b)
    BY <1>1, <2>1, UpToDateKept
  <2>3. Reconciles(b)
    BY <2>1 DEF Reconciles, UpToDate
  <2>4. audit'[b] = "passed"
    <3>1. ASSUME NEW e \in Execs, Validate(e) PROVE audit'[b] = "passed"
      <4>1. audit' = [audit EXCEPT ![exec[e].run] =
                        IF Reconciles(exec[e].run) THEN "passed" ELSE "failed"]
        BY <3>1 DEF Validate
      <4>2. QED
        BY <2>1, <2>3, <4>1
    <3>2. ASSUME UNCHANGED audit PROVE audit'[b] = "passed"
      BY <2>1, <3>2
    <3>3. QED
      BY <1>1, <3>1, <3>2 DEF Next, vars, pipelineVars, Start, Spark, Build, Test, Promote,
                              Abandon, RemoveCandidate
  <2>5. b \in recorded'
    BY <1>1 DEF Next, vars, pipelineVars, Start, Spark, Build, Validate, Test, Promote,
                Abandon, RemoveCandidate
  <2>6. mart'[b] = mart[b]
    <3>1. mart'[b] # NotBuilt
      BY <1>1, <2>5, NextPipeInv DEF PipeInv, RecordedBuilt
    <3>2. mart'[b] = HistoryAt(b)
      BY <2>2, <3>1 DEF UpToDate
    <3>3. QED
      BY <2>1, <3>2 DEF UpToDate
  <2>7. Present(HistoryAt(b))' # {}
    BY <2>1, <2>2 DEF Present
  <2>8. QED
    BY <2>2, <2>4, <2>6, <2>7 DEF Stands
<1>2. PipeInv /\ [Next]_vars =>
        [\A b \in recorded : Stands(b) => Stands(b)' /\ mart'[b] = mart[b]]_vars
  BY <1>1
<1>3. QED
  BY InitPipeInv, NextPipeInv, <1>2, PTL DEF Spec, PublishedStands

(* Once the data of a run is right, readers who are shown that run see the *)
(* source as of its batch, from then on.                                   *)
THEOREM CandidatePublishesSource ==
    ASSUME TouchFirst, NEW b \in Batches
    PROVE  Spec => [](UpToDate(b) => [](shown = b => PublishedMatchesSource))
<1>1. PipeInv /\ [Next]_vars => (UpToDate(b) => UpToDate(b)')
  BY UpToDateKept
<1>2. PipeInv /\ UpToDate(b) => (shown = b => PublishedMatchesSource)
  BY DEF PipeInv, ShownRecorded, RecordedBuilt, UpToDate, PublishedMatchesSource, Batches
<1>3. QED
  BY InitPipeInv, NextPipeInv, <1>1, <1>2, PTL DEF Spec

-----------------------------------------------------------------------------
(* What readers of the pipeline's views are promised *)

(* A context is the run's batch, as the interval is fixed.                 *)
Readers == INSTANCE Publication WITH
    Contexts <- [batch : Batches],
    Nothing <- NotBuilt,
    shown <- IF shown = 0 THEN NotBuilt ELSE [batch |-> shown],
    recorded <- [batch : recorded],
    passed <- [batch : {b \in Batches : audit[b] = "passed"}],
    granted <- {}
ImplementsPublication == Readers!Spec

LEMMA PromoteShows ==
    ASSUME TypeInv, NEW e \in Execs, Promote(e) PROVE [Readers!Next]_Readers!vars
<1> DEFINE b == exec[e].run
           c == [batch |-> b]
<1>1. /\ b \in Batches /\ audit' = audit /\ 0 \notin Batches
      /\ \/ /\ audit[b] = "passed" /\ \A r \in recorded : r <= b
            /\ shown' = b /\ recorded' = recorded \cup {b}
         \/ shown' = shown /\ recorded' = recorded
  BY DEF Promote, TypeInv, RunOK, On, Batches
<1>2. CASE shown' = shown /\ recorded' = recorded
  BY <1>1, <1>2 DEF Readers!vars
<1>3. ASSUME audit[b] = "passed", \A r \in recorded : r <= b,
             shown' = b, recorded' = recorded \cup {b}
      PROVE  Readers!Publish(c) /\ c \in [batch : Batches]
  <2>1. c \in [batch : {d \in Batches : audit[d] = "passed"}] /\ c \in [batch : Batches]
    BY <1>1, <1>3
  <2>2. Readers!NothingNewer(c)
    BY <1>3 DEF Readers!NothingNewer
  <2>3. [batch : recorded]' = [batch : recorded] \cup {c}
    <3>1. ASSUME NEW d, d \in [batch : recorded \cup {b}]
          PROVE  d \in [batch : recorded] \cup {c}
      <4>1. d = [batch |-> d.batch] /\ d.batch \in recorded \cup {b}
        BY <3>1
      <4>2. QED
        BY <4>1
    <3>2. ASSUME NEW d, d \in [batch : recorded] \cup {c}
          PROVE  d \in [batch : recorded \cup {b}]
      BY <3>2
    <3>3. [batch : recorded \cup {b}] = [batch : recorded] \cup {c}
      BY <3>1, <3>2, Zenon
    <3>4. QED
      BY <1>3, <3>3
  <2>4. (IF shown = 0 THEN NotBuilt ELSE [batch |-> shown])' = c
    BY <1>1, <1>3
  <2>5. QED
    BY <1>1, <2>1, <2>2, <2>3, <2>4 DEF Readers!Publish
<1>4. QED
  BY <1>1, <1>2, <1>3 DEF Readers!Next

(* The pipeline publishes as the abstract promise says, whether runs       *)
(* overlap, are repeated, or their events are late: the views move only to *)
(* a run whose verdict is passed and that no recorded batch exceeds, and   *)
(* record and views move together.                                         *)
THEOREM CandidateImplementsPublication == Spec => ImplementsPublication
<1>1. Init => Readers!Init
  BY DEF Init, Readers!Init
<1>2. TypeInv /\ TypeInv' /\ [Next]_vars => [Readers!Next]_Readers!vars
  <2> SUFFICES ASSUME TypeInv, TypeInv', [Next]_vars PROVE [Readers!Next]_Readers!vars
    OBVIOUS
  <2>1. ASSUME NEW e \in Execs, Validate(e) PROVE Readers!Audit
    <3>1. UNCHANGED <<shown, recorded>>
      BY <2>1 DEF Validate
    <3>2. QED
      BY <3>1 DEF Readers!Audit
  <2>2. ASSUME NEW e \in Execs, Promote(e) PROVE [Readers!Next]_Readers!vars
    BY <2>2, PromoteShows
  <2>3. ASSUME UNCHANGED <<audit, recorded, shown>> PROVE UNCHANGED Readers!vars
    BY <2>3 DEF Readers!vars
  <2>4. CASE SourceNext /\ UNCHANGED pipelineVars
    BY <2>3, <2>4 DEF pipelineVars
  <2>5. ASSUME NEW e \in Execs,
               \/ \E b \in Batches : Start(e, b)
               \/ Spark(e) \/ Build(e) \/ Test(e) \/ Abandon(e)
        PROVE  UNCHANGED Readers!vars
    BY <2>3, <2>5 DEF Start, Spark, Build, Test, Abandon
  <2>6. ASSUME NEW b \in Batches, RemoveCandidate(b) PROVE UNCHANGED Readers!vars
    BY <2>3, <2>6 DEF RemoveCandidate
  <2>7. CASE UNCHANGED vars
    BY <2>3, <2>7 DEF vars, pipelineVars
  <2>8. QED
    BY <2>1, <2>2, <2>4, <2>5, <2>6, <2>7 DEF Next, Readers!Next
<1>3. QED
  BY InitTypeInv, NextTypeInv, <1>1, <1>2, PTL DEF Spec, ImplementsPublication, Readers!Spec

-----------------------------------------------------------------------------
(* What the pipeline reads of the archive *)

(* The change events of the table, as messages of the archive.             *)
Archived == INSTANCE Archive WITH
    Cutoffs <- Batches,
    Days <- {0},
    Nothing <- NotBuilt,
    log <- [i \in DOMAIN log |->
              [partition |-> Partition[log[i].key], day |-> 0,
               carries |-> [kind |-> "event", key |-> log[i].key, op |-> log[i].op,
                            batch |-> log[i].rowBatch]]],
    drained <- bronze,
    silver <- NotBuilt

Shows(rows) == {rows[k].ver : k \in Present(rows)}

(* The rows of a snapshot are the last changes of the archive that count.  *)
LEMMA SilverShowsLastChanges ==
    ASSUME SourceTypeOK, NEW b \in Batches, NEW read \in SUBSET DOMAIN log
    PROVE  Shows(SilverAt(b, read)) = Archived!LastChanges(b, read)
<1> DEFINE rows == SilverAt(b, read)
           Own(k) == EventsOf(k, b, read)
<1>1. DOMAIN log = 1..Len(log) /\ Len(log) \in Nat
  BY DEF SourceTypeOK
<1>2. \A i \in DOMAIN log : log[i] \in Change /\ log[i].key \in Keys
  <2>1. \A i \in DOMAIN log : log[i] \in Change
    BY DEF SourceTypeOK
  <2>2. QED
    BY <2>1 DEF Change
<1>3. \A k \in Keys : Own(k) = {i \in read : log[i].key = k /\ log[i].rowBatch <= b}
  BY DEF EventsOf
<1>4. \A k \in Keys : Own(k) # {} => Max(Own(k)) \in Own(k) /\ \A j \in Own(k) : j <= Max(Own(k))
  BY <1>1, <1>3, MaxExists
<1>5. \A k \in Keys : rows[k] = IF Own(k) = {} THEN Absent ELSE RowAt(Max(Own(k)))
  BY DEF SilverAt, LatestEvent
<1>6. Archived!LastChanges(b, read) =
        {i \in read : /\ log[i].rowBatch <= b /\ log[i].op # "d"
                      /\ \A j \in read : log[j].rowBatch <= b /\ log[j].key = log[i].key => j <= i}
  BY DEF Archived!LastChanges, Archived!Counts
<1>7. \A i \in DOMAIN log :
        log[i].op # "d" => RowAt(i).ver = i /\ RowAt(i) # Absent
  <2>1. SUFFICES ASSUME NEW i \in DOMAIN log, log[i].op # "d"
                 PROVE  RowAt(i).ver = i /\ RowAt(i) # Absent
    OBVIOUS
  <2>2. RowAt(i) = [batch |-> log[i].rowBatch, ver |-> i]
    BY <2>1 DEF RowAt
  <2>3. RowAt(i) \in [batch : Batches, ver : Nat]
    BY <1>1, <1>2, <2>2 DEF Change
  <2>4. QED
    BY <2>2, <2>3, AbsentAssumption
<1> HIDE DEF rows, Own
<1>8. ASSUME NEW k \in Keys, rows[k] # Absent
      PROVE  rows[k].ver \in Archived!LastChanges(b, read)
  <2> DEFINE m == Max(Own(k))
  <2>1. Own(k) # {} /\ rows[k] = RowAt(m) /\ m \in Own(k) /\ \A j \in Own(k) : j <= m
    BY <1>4, <1>5, <1>8
  <2> HIDE DEF m
  <2>2. m \in read /\ log[m].key = k /\ log[m].rowBatch <= b
    BY <1>3, <2>1
  <2>3. log[m].op # "d" /\ rows[k].ver = m
    BY <1>7, <1>8, <2>1, <2>2 DEF RowAt
  <2>4. QED
    BY <1>3, <1>6, <2>1, <2>2, <2>3
<1>9. ASSUME NEW i \in Archived!LastChanges(b, read)
      PROVE  \E k \in Keys : rows[k] # Absent /\ rows[k].ver = i
  <2> DEFINE k == log[i].key
  <2>1. /\ i \in read /\ k \in Keys /\ log[i].op # "d" /\ i \in Own(k)
        /\ \A j \in Own(k) : j <= i
    BY <1>2, <1>3, <1>6, <1>9
  <2>2. Max(Own(k)) \in Own(k) /\ i <= Max(Own(k))
    BY <1>4, <2>1
  <2>3. Max(Own(k)) <= i /\ Max(Own(k)) \in DOMAIN log
    BY <1>3, <2>1, <2>2
  <2>4. Max(Own(k)) = i
    BY <1>1, <2>1, <2>2, <2>3
  <2>5. rows[k] = RowAt(i)
    BY <1>5, <2>1, <2>4
  <2>6. QED
    BY <1>7, <2>1, <2>5
<1>10. QED
  BY <1>8, <1>9 DEF Shows, Present, rows

(* Spark in the pipeline is an archive's drain and a snapshot of its run:  *)
(* the rows are the last change of each key archived so far that belongs   *)
(* to the cutoff, which is what the ingestion modules promise.             *)
SparkReadsArchive ==
    [][\A e \in Execs : Spark(e) =>
          /\ Archived!Drain
          /\ Shows(silver'[exec[e].run]) = Archived!LastChanges(exec[e].run, bronze')]_vars

THEOREM CandidateSparkReadsArchive == Spec => SparkReadsArchive
<1>1. ASSUME TypeInv, NEW e \in Execs, Spark(e)
      PROVE  /\ Archived!Drain
             /\ Shows(silver'[exec[e].run]) = Archived!LastChanges(exec[e].run, bronze')
  <2> DEFINE b == exec[e].run
  <2>1. b \in Batches /\ SourceTypeOK /\ silver \in [Batches -> Rows \cup {NotBuilt}]
    BY <1>1 DEF Spark, TypeInv, TypeOK, RunOK, On
  <2>2. PICK read \in SUBSET DOMAIN log :
          /\ bronze \subseteq read /\ Delivered(read) /\ bronze' = read
          /\ silver' = [silver EXCEPT ![b] = SilverAt(b, read)]
    BY <1>1 DEF Spark
  <2>3. UNCHANGED <<log>>
    BY <1>1 DEF Spark, sourceVars
  <2>4. Archived!Gapless(read)
    <3>1. DOMAIN log = 1..Len(log) /\ Len(log) \in Nat
      BY <2>1 DEF SourceTypeOK
    <3>2. \A i \in read : \A j \in 1..i : j \in DOMAIN log /\ i \in DOMAIN log
      BY <3>1
    <3>3. QED
      BY <2>2, <3>2 DEF Delivered, Archived!Gapless
  <2>5. Archived!Drain
    BY <2>2, <2>3, <2>4 DEF Archived!Drain
  <2>6. silver'[b] = SilverAt(b, read)
    BY <2>1, <2>2
  <2>7. Shows(silver'[b]) = Archived!LastChanges(b, bronze')
    BY <2>1, <2>2, <2>6, SilverShowsLastChanges
  <2>8. QED
    BY <2>5, <2>7
<1>2. TypeInv /\ [Next]_vars =>
        [\A e \in Execs : Spark(e) =>
            /\ Archived!Drain
            /\ Shows(silver'[exec[e].run]) = Archived!LastChanges(exec[e].run, bronze')]_vars
  BY <1>1
<1>3. QED
  BY InitTypeInv, NextTypeInv, <1>2, PTL DEF Spec, SparkReadsArchive

=============================================================================
