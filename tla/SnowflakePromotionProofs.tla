----------------------- MODULE SnowflakePromotionProofs -----------------------
(***************************************************************************)
(* Invariants of SnowflakePromotion for every set of contexts, number of   *)
(* views and bound: first those that hold however promote commands         *)
(* interleave, then those that need one command at a time.                 *)
(***************************************************************************)
EXTENDS SnowflakePromotion, TLAPS

USE ContextsAssumption, ViewsAssumption, BoundsAssumption, NothingAssumption

-----------------------------------------------------------------------------
(* Any interleaving *)

(* Some row of `table` stands for context c.                               *)
Accounted(table, c) == \E x \in table : x.run = c.run /\ x.batch = c.batch

(* What a session is about to commit never unpublishes a row and keeps     *)
(* every row's run and batch.                                              *)
TxnKeeps(p) == \A x \in txn[p].del : Published(x) \in txn[p].add

(* Once the session is past its INSERT the context has a row: committed,   *)
(* or about to be committed with the staging schema; and once past its     *)
(* UPDATE it is about to commit a published one.                           *)
CtxAccounted(p) ==
    /\ pc[p] = "stage" => txn[p].del = {} /\ Accounted(rows \cup txn[p].add, ctx[p])
    /\ pc[p] \in {"view", "swap", "update", "drop"} => Accounted(rows, ctx[p])
    /\ pc[p] = "drop" => Accounted({x \in txn[p].add : x.status = "published"}, ctx[p])

SchemaAccounted(schema) ==
    \A v \in Views : schema[v] # Nothing => Accounted(rows, schema[v])

SessionOK(p) ==
    /\ pc[p] \notin {"stage", "drop"} => txn[p] = NoTxn
    /\ TxnKeeps(p) /\ CtxAccounted(p)
    /\ pc[p] # "idle" => ctx[p] \in Contexts
    /\ pc[p] = "view" => built[p] < NViews

CInv ==
    /\ TypeOK
    /\ \A p \in Promoters : SessionOK(p)
    /\ SchemaAccounted(analytics)
    /\ staging # Nothing => SchemaAccounted(staging)

LEMMA CInit == Init => CInv
BY DEF Init, CInv, SessionOK, TypeOK, NoTxn, TxnKeeps, CtxAccounted, SchemaAccounted, EmptySchema,
       Schema, Steps, Runs, Views

(* Committing a session's rows loses no published row and no context.      *)
LEMMA CommitKeeps ==
    ASSUME TypeOK, NEW p \in Promoters, TxnKeeps(p), rows' = AfterCommit(p)
    PROVE  /\ rows' \subseteq Row
           /\ PublishedRows \subseteq PublishedRows'
           /\ \A c : Accounted(rows, c) => Accounted(rows', c)
<1>1. /\ rows \subseteq Row /\ txn[p].add \subseteq Row /\ txn[p].del \subseteq Row
      /\ rows' = (rows \ txn[p].del) \cup txn[p].add
  BY DEF TypeOK, AfterCommit
<1>2. ASSUME NEW x \in Row
      PROVE  /\ Published(x).run = x.run /\ Published(x).batch = x.batch
             /\ x.status = "published" => Published(x) = x
  BY DEF Published, Row
<1>3. PublishedRows \subseteq PublishedRows'
  BY <1>1, <1>2 DEF PublishedRows, TxnKeeps
<1>4. \A c : Accounted(rows, c) => Accounted(rows', c)
  BY <1>1, <1>2 DEF Accounted, TxnKeeps
<1>5. QED
  BY <1>1, <1>3, <1>4

SameSession(q) ==
    /\ pc'[q] = pc[q] /\ ctx'[q] = ctx[q] /\ built'[q] = built[q] /\ txn'[q] = txn[q]

LEMMA EndKeepsTypes ==
    ASSUME TypeOK, NEW p \in Promoters, End(p)
    PROVE  /\ pc' \in [Promoters -> Steps]
           /\ ctx' \in [Promoters -> Contexts \cup {Nothing}]
           /\ built' \in [Promoters -> 0..NViews]
           /\ txn' \in [Promoters -> [add : SUBSET Row, del : SUBSET Row]]
           /\ pc'[p] = "idle" /\ txn'[p] = NoTxn
           /\ \A q \in Promoters \ {p} : SameSession(q)
BY DEF TypeOK, End, Steps, NoTxn, SameSession

(* A session stays in order while another one moves.                       *)
LEMMA SessionKept ==
    ASSUME NEW q \in Promoters, SessionOK(q), SameSession(q),
           \A c : Accounted(rows, c) => Accounted(rows', c)
    PROVE  SessionOK(q)'
<1>1. ASSUME Accounted(rows \cup txn[q].add, ctx[q])
      PROVE  Accounted(rows' \cup txn[q].add, ctx[q])
  BY <1>1 DEF Accounted
<1>2. QED
  BY <1>1 DEF SessionOK, SameSession, TxnKeeps, CtxAccounted

(* A session that ends is in order.                                        *)
LEMMA EndedOK ==
    ASSUME TypeOK, NEW p \in Promoters, End(p)
    PROVE  SessionOK(p)'
<1>1. pc'[p] = "idle" /\ txn'[p] = NoTxn
  BY EndKeepsTypes
<1>2. QED
  BY <1>1 DEF SessionOK, TxnKeeps, CtxAccounted, NoTxn

LEMMA CNext == CInv /\ [Next]_vars => CInv'
<1> SUFFICES ASSUME CInv, [Next]_vars PROVE CInv'
  OBVIOUS
<1> USE DEF CInv, verdictVars, controlVars, schemaVars, sessionVars
<1>0. ASSUME UNCHANGED <<rows, schemaVars>>, TypeOK',
             NEW p \in Promoters, SessionOK(p)',
             \A q \in Promoters \ {p} : SameSession(q)
      PROVE  CInv'
  <2>1. \A c : Accounted(rows, c) => Accounted(rows', c)
    BY <1>0
  <2>2. \A q \in Promoters : SessionOK(q)'
    BY <1>0, <2>1, SessionKept
  <2>3. QED
    BY <1>0, <2>2 DEF SchemaAccounted
<1>1. ASSUME UNCHANGED <<rows, schemaVars, sessionVars>>, TypeOK'
      PROVE  CInv'
  BY <1>1 DEF SessionOK, TxnKeeps, CtxAccounted, SchemaAccounted
<1>2. ASSUME NEW c \in Contexts, NEW passed \in BOOLEAN, WriteReport(c, passed)
      PROVE  CInv'
  <2>1. TypeOK'
    BY <1>2 DEF WriteReport, TypeOK, Verdict, Runs
  <2>2. QED
    BY <1>1, <1>2, <2>1 DEF WriteReport
<1>3. CASE RecordValidation \/ AbandonValidation
  <2>1. CASE RecordValidation
    <3> DEFINE verdict == [batch |-> writing.ctx.batch, passed |-> writing.passed]
    <3>1. writing.ctx \in Contexts /\ writing.passed \in BOOLEAN
      BY <2>1 DEF RecordValidation, TypeOK
    <3>2. verdict \in Verdict
      BY <3>1 DEF Verdict
    <3>3. audit' \in [Runs -> Verdict \cup {Nothing}]
      BY <2>1, <3>2 DEF RecordValidation, TypeOK
    <3>4. TypeOK'
      BY <2>1, <3>3 DEF RecordValidation, TypeOK
    <3>5. QED
      BY <1>1, <2>1, <3>4 DEF RecordValidation
  <2>2. CASE AbandonValidation
    <3>1. TypeOK'
      BY <2>2 DEF AbandonValidation, TypeOK
    <3>2. QED
      BY <1>1, <2>2, <3>1 DEF AbandonValidation
  <2>3. QED
    BY <1>3, <2>1, <2>2
<1>4. ASSUME NEW p \in Promoters, NEW c \in Contexts, ValidateReport(p, c)
      PROVE  CInv'
  <2>1. TypeOK'
    BY <1>4 DEF ValidateReport, TypeOK, Steps
  <2>2. pc[p] = "idle" /\ pc'[p] = "audit" /\ ctx'[p] = c /\ txn'[p] = txn[p]
    BY <1>4 DEF ValidateReport, TypeOK
  <2>3. SessionOK(p)'
    BY <2>2 DEF SessionOK, TxnKeeps, CtxAccounted
  <2>4. \A q \in Promoters \ {p} : SameSession(q)
    BY <1>4 DEF ValidateReport, TypeOK, SameSession
  <2>5. QED
    BY <1>0, <1>4, <2>1, <2>3, <2>4 DEF ValidateReport
(* A gate either ends the command or moves it on; nothing else changes.    *)
<1>5. ASSUME NEW p \in Promoters,
             CheckAudit(p) \/ CheckLatestBatch(p) \/ CheckExisting(p) \/ Crash(p)
      PROVE  CInv'
  <2>1. UNCHANGED <<report, audit, writing, rows, clock, analytics, staging>>
    BY <1>5 DEF CheckAudit, CheckLatestBatch, CheckExisting, Crash
  <2>2. crashes' \in 0..MaxCrashes
    BY <1>5 DEF CheckAudit, CheckLatestBatch, CheckExisting, Crash, TypeOK
  <2>3. CASE End(p)
    <3>1. TypeOK'
      BY <2>1, <2>2, <2>3, EndKeepsTypes DEF TypeOK
    <3>2. QED
      BY <1>0, <2>1, <2>3, <3>1, EndKeepsTypes, EndedOK
  <2>4. CASE /\ UNCHANGED <<ctx, built, txn>>
             /\ \/ pc' = [pc EXCEPT ![p] = "latest"]
                \/ pc' = [pc EXCEPT ![p] = "existing"]
                \/ pc' = [pc EXCEPT ![p] = "insert"]
             /\ pc[p] \notin {"idle", "stage", "drop"}
    <3>1. TypeOK'
      BY <2>1, <2>2, <2>4 DEF TypeOK, Steps
    <3>2. SessionOK(p)'
      BY <2>4 DEF TypeOK, SessionOK, TxnKeeps, CtxAccounted
    <3>3. \A q \in Promoters \ {p} : SameSession(q)
      BY <2>4 DEF TypeOK, SameSession
    <3>4. QED
      BY <1>0, <2>1, <3>1, <3>2, <3>3
  <2>5. CASE /\ UNCHANGED <<ctx, built, txn>>
             /\ pc[p] = "existing" /\ pc' = [pc EXCEPT ![p] = "stage"]
             /\ \E x \in RowsOf(ctx[p].run) : Resumable(x, ctx[p])
    <3>1. TypeOK'
      BY <2>1, <2>2, <2>5 DEF TypeOK, Steps
    <3>2. Accounted(rows, ctx[p]) /\ txn[p] = NoTxn
      BY <2>5 DEF RowsOf, Resumable, Accounted, SessionOK
    <3>3. CtxAccounted(p)'
      BY <2>1, <2>5, <3>2 DEF CtxAccounted, TypeOK, NoTxn, Accounted
    <3>4. SessionOK(p)'
      BY <2>5, <3>3 DEF TypeOK, SessionOK, TxnKeeps
    <3>5. \A q \in Promoters \ {p} : SameSession(q)
      BY <2>5 DEF TypeOK, SameSession
    <3>6. QED
      BY <1>0, <2>1, <3>1, <3>4, <3>5
  <2>6. QED
    BY <1>5, <2>3, <2>4, <2>5 DEF CheckAudit, CheckLatestBatch, CheckExisting, Crash
<1>6. ASSUME NEW p \in Promoters, InsertPending(p)
      PROVE  CInv'
  <2> DEFINE new == [run |-> ctx[p].run, batch |-> ctx[p].batch,
                     status |-> "pending", at |-> clock]
  <2>1. ctx[p] \in Contexts /\ new \in Row /\ clock + 1 \in 0..MaxClock
    BY <1>6 DEF InsertPending, Goto, TypeOK, Row, Runs, SessionOK
  <2>2. TypeOK'
    BY <1>6, <2>1 DEF InsertPending, Goto, TypeOK, Steps
  <2>3. txn'[p] = [add |-> {new}, del |-> {}] /\ ctx'[p] = ctx[p] /\ pc'[p] = "stage"
    BY <1>6 DEF InsertPending, Goto, TypeOK
  <2>4. Accounted(rows' \cup txn'[p].add, ctx[p])
    <3>1. new \in rows' \cup txn'[p].add /\ new.run = ctx[p].run /\ new.batch = ctx[p].batch
      BY <2>3
    <3>2. QED
      BY <3>1 DEF Accounted
  <2>5. SessionOK(p)'
    BY <2>1, <2>3, <2>4 DEF SessionOK, TxnKeeps, CtxAccounted
  <2>6. \A q \in Promoters \ {p} : SameSession(q)
    BY <1>6 DEF InsertPending, Goto, TypeOK, SameSession
  <2>7. QED
    BY <1>0, <1>6, <2>2, <2>5, <2>6 DEF InsertPending
<1>7. ASSUME NEW p \in Promoters, CreateStaging(p)
      PROVE  CInv'
  <2>1. /\ rows' \subseteq Row
        /\ \A c : Accounted(rows, c) => Accounted(rows', c)
    BY <1>7, CommitKeeps DEF CreateStaging, SessionOK
  <2>2. TypeOK'
    BY <1>7, <2>1 DEF CreateStaging, Goto, TypeOK, Steps, EmptySchema, Schema, NoTxn
  <2>3. /\ ctx'[p] = ctx[p] /\ ctx[p] \in Contexts /\ built'[p] = 0
        /\ pc[p] = "stage" /\ pc'[p] = "view" /\ txn'[p] = NoTxn
    BY <1>7 DEF CreateStaging, Goto, TypeOK, SessionOK
  <2>4. Accounted(rows', ctx[p])
    BY <1>7, <2>3 DEF CreateStaging, SessionOK, CtxAccounted, AfterCommit, Accounted
  <2>5. SessionOK(p)'
    BY <2>3, <2>4 DEF SessionOK, TxnKeeps, CtxAccounted, NoTxn
  <2>6. \A q \in Promoters \ {p} : SameSession(q)
    BY <1>7 DEF CreateStaging, Goto, TypeOK, SameSession
  <2>7. \A q \in Promoters : SessionOK(q)'
    BY <2>1, <2>5, <2>6, SessionKept
  <2>8. SchemaAccounted(analytics)' /\ SchemaAccounted(staging)'
    BY <1>7, <2>1 DEF CreateStaging, SchemaAccounted, EmptySchema
  <2>9. QED
    BY <2>2, <2>7, <2>8
<1>8. ASSUME NEW p \in Promoters, CreateView(p)
      PROVE  CInv'
  <2>1. UNCHANGED <<report, audit, writing, rows, clock, analytics, crashes>>
    BY <1>8 DEF CreateView
  <2>2. CASE staging = Nothing
    <3>1. End(p) /\ UNCHANGED staging
      BY <1>8, <2>2 DEF CreateView
    <3>2. TypeOK'
      BY <2>1, <3>1, EndKeepsTypes DEF TypeOK
    <3>3. QED
      BY <1>0, <2>1, <3>1, <3>2, EndKeepsTypes, EndedOK
  <2>3. CASE staging # Nothing
    <3> DEFINE n == built[p] + 1
    <3>1. /\ pc[p] = "view" /\ staging \in Schema /\ ctx[p] \in Contexts
          /\ n \in Views /\ n \in 1..NViews /\ NViews \in Nat
          /\ built' = [built EXCEPT ![p] = n]
          /\ staging' = [staging EXCEPT ![n] = ctx[p]]
          /\ pc' = [pc EXCEPT ![p] = IF n = NViews THEN "swap" ELSE "view"]
          /\ UNCHANGED <<ctx, txn>>
      BY <1>8, <2>3 DEF CreateView, TypeOK, LastView, Views, SessionOK
    <3>2. TypeOK'
      BY <2>1, <3>1 DEF TypeOK, Steps, Schema
    <3>3. Accounted(rows, ctx[p])
      BY <3>1 DEF SessionOK, CtxAccounted
    <3>4. ASSUME NEW v \in Views, staging'[v] # Nothing
          PROVE  Accounted(rows, staging'[v])
      <4>1. staging'[v] = IF v = n THEN ctx[p] ELSE staging[v]
        BY <3>1 DEF Schema
      <4>2. QED
        BY <2>3, <3>3, <3>4, <4>1 DEF SchemaAccounted
    <3>5. SchemaAccounted(analytics)' /\ SchemaAccounted(staging)'
      BY <2>1, <3>4 DEF SchemaAccounted
    <3>6. /\ pc'[p] \in {"swap", "view"} /\ built'[p] = n
          /\ pc'[p] = "view" => n # NViews
      BY <3>1 DEF TypeOK
    <3>7. SessionOK(p)'
      <4>1. pc'[p] = "view" => built'[p] < NViews
        BY <3>1, <3>6
      <4>2. QED
        BY <2>1, <3>1, <3>3, <3>6, <4>1 DEF SessionOK, TxnKeeps, CtxAccounted
    <3>8. \A q \in Promoters \ {p} : SameSession(q)
      BY <3>1 DEF TypeOK, SameSession
    <3>9. \A q \in Promoters : SessionOK(q)'
      BY <2>1, <3>7, <3>8, SessionKept
    <3>10. QED
      BY <3>2, <3>5, <3>9
  <2>4. QED
    BY <2>2, <2>3
<1>9. ASSUME NEW p \in Promoters, SwapSchemas(p)
      PROVE  CInv'
  <2>1. UNCHANGED <<report, audit, writing, rows, clock, crashes>>
    BY <1>9 DEF SwapSchemas
  <2>2. CASE staging = Nothing
    <3>1. End(p) /\ UNCHANGED schemaVars
      BY <1>9, <2>2 DEF SwapSchemas
    <3>2. TypeOK'
      BY <2>1, <3>1, EndKeepsTypes DEF TypeOK
    <3>3. QED
      BY <1>0, <2>1, <3>1, <3>2, EndKeepsTypes, EndedOK
  <2>3. CASE staging # Nothing
    <3>1. /\ pc[p] = "swap" /\ staging \in Schema
          /\ analytics' = staging /\ staging' = analytics
          /\ pc' = [pc EXCEPT ![p] = "update"]
          /\ UNCHANGED <<ctx, built, txn>>
      BY <1>9, <2>3 DEF SwapSchemas, TypeOK
    <3>2. TypeOK'
      BY <2>1, <3>1 DEF TypeOK, Steps
    <3>3. SessionOK(p)'
      BY <2>1, <3>1 DEF TypeOK, SessionOK, TxnKeeps, CtxAccounted
    <3>4. \A q \in Promoters : SessionOK(q)'
      BY <2>1, <3>1, <3>3, SessionKept DEF TypeOK, SameSession
    <3>5. QED
      BY <2>1, <2>3, <3>1, <3>2, <3>4 DEF SchemaAccounted
  <2>4. QED
    BY <2>2, <2>3
<1>10. ASSUME NEW p \in Promoters, MarkPublished(p)
       PROVE  CInv'
  <2> DEFINE own == RowsOf(ctx[p].run)
  <2>1. own \subseteq Row /\ {Published(x) : x \in own} \subseteq Row
    BY DEF RowsOf, Published, Row, TypeOK
  <2>2. TypeOK'
    BY <1>10, <2>1 DEF MarkPublished, Goto, TypeOK, Steps
  <2>3. /\ txn'[p] = [add |-> {Published(x) : x \in own}, del |-> own]
        /\ ctx'[p] = ctx[p] /\ pc[p] = "update" /\ pc'[p] = "drop" /\ UNCHANGED rows
    BY <1>10 DEF MarkPublished, Goto, TypeOK
  <2>4. SessionOK(p)'
    <3>1. TxnKeeps(p)'
      <4>1. SUFFICES ASSUME NEW x \in txn'[p].del PROVE Published(x) \in txn'[p].add
        BY DEF TxnKeeps, Published
      <4>2. QED
        BY <2>3
    <3>2. Accounted({x \in txn'[p].add : x.status = "published"}, ctx[p])
      <4>1. PICK x \in own : x.batch = ctx[p].batch
        BY <2>3 DEF SessionOK, CtxAccounted, Accounted, RowsOf
      <4>2. x.run = ctx[p].run /\ x \in Row
        BY <2>1, <4>1 DEF RowsOf
      <4>3. /\ Published(x).status = "published" /\ Published(x).run = ctx[p].run
            /\ Published(x).batch = ctx[p].batch
        BY <4>1, <4>2 DEF Published, Row
      <4>4. Published(x) \in {y \in txn'[p].add : y.status = "published"}
        BY <2>3, <4>1, <4>3
      <4>5. QED
        BY <4>3, <4>4 DEF Accounted
    <3>3. CtxAccounted(p)'
      BY <2>3, <3>2 DEF SessionOK, CtxAccounted
    <3>4. QED
      BY <2>3, <3>1, <3>3 DEF SessionOK
  <2>5. \A q \in Promoters \ {p} : SameSession(q)
    BY <1>10 DEF MarkPublished, Goto, TypeOK, SameSession
  <2>6. QED
    BY <1>0, <1>10, <2>2, <2>4, <2>5 DEF MarkPublished
<1>11. ASSUME NEW p \in Promoters, DropStaging(p)
       PROVE  CInv'
  <2>1. /\ rows' \subseteq Row
        /\ \A c : Accounted(rows, c) => Accounted(rows', c)
    BY <1>11, CommitKeeps DEF DropStaging, SessionOK
  <2>2. TypeOK'
    BY <1>11, <2>1, EndKeepsTypes DEF DropStaging, TypeOK
  <2>3. \A q \in Promoters : SessionOK(q)'
    BY <1>11, <2>1, EndKeepsTypes, EndedOK, SessionKept DEF DropStaging
  <2>4. SchemaAccounted(analytics)' /\ (staging' # Nothing => SchemaAccounted(staging)')
    BY <1>11, <2>1 DEF DropStaging, SchemaAccounted
  <2>5. QED
    BY <2>2, <2>3, <2>4
<1>12. CASE UNCHANGED vars
  BY <1>1, <1>12 DEF vars, TypeOK
<1>13. QED
  BY <1>2, <1>3, <1>4, <1>5, <1>6, <1>7, <1>8, <1>9, <1>10, <1>11, <1>12
     DEF Next, Statement

LEMMA AlwaysCInv == Spec => []CInv
BY CInit, CNext, PTL DEF Spec

(* The variables keep their types, however commands interleave.            *)
THEOREM SnowflakeTypeCorrect == Spec => []TypeOK
<1>1. CInv => TypeOK
  BY DEF CInv
<1>2. QED
  BY <1>1, AlwaysCInv, PTL

(* However many commands interleave and crash, publication_runs accounts   *)
(* for every view on show.                                                 *)
THEOREM SnowflakeShownAccounted == Spec => []ShownIsAccountedFor
<1>1. CInv => ShownIsAccountedFor
  BY DEF CInv, ShownIsAccountedFor, SchemaAccounted, Accounted
<1>2. QED
  BY <1>1, AlwaysCInv, PTL

(* However many commands interleave and crash, a published row stays.      *)
THEOREM SnowflakePublishedFinal == Spec => PublishedIsFinal
<1>1. CInv /\ [Next]_vars => [PublishedRows \subseteq PublishedRows']_rows
  <2>1. SUFFICES ASSUME CInv, [Next]_vars, rows' # rows
                 PROVE  PublishedRows \subseteq PublishedRows'
    OBVIOUS
  <2>2. PICK p \in Promoters : CreateStaging(p) \/ DropStaging(p)
    BY <2>1 DEF Next, Statement, vars, controlVars, WriteReport, RecordValidation,
                AbandonValidation, ValidateReport, CheckAudit, CheckLatestBatch,
                CheckExisting, InsertPending, CreateView, SwapSchemas, MarkPublished, Crash
  <2>3. rows' = AfterCommit(p) /\ TypeOK /\ TxnKeeps(p)
    BY <2>1, <2>2 DEF CreateStaging, DropStaging, CInv, SessionOK
  <2>4. QED
    BY <2>3, CommitKeeps
<1>2. QED
  BY <1>1, AlwaysCInv, PTL DEF Spec, PublishedIsFinal

(* However many commands interleave and crash, a command that returns       *)
(* success leaves its context recorded as published.                       *)
THEOREM SnowflakeReturnedIsRecorded == Spec => ReturnedIsRecorded
<1>1. CInv /\ [Next]_vars =>
        [\A p \in Promoters : DropStaging(p) => ctx[p] \in Recorded']_vars
  <2>1. SUFFICES ASSUME CInv, NEW p \in Promoters, DropStaging(p)
                 PROVE  ctx[p] \in Recorded'
    OBVIOUS
  <2>2. /\ pc[p] = "drop" /\ ctx[p] \in Contexts /\ rows' = AfterCommit(p)
        /\ Accounted({x \in txn[p].add : x.status = "published"}, ctx[p])
    BY <2>1 DEF DropStaging, CInv, SessionOK, CtxAccounted
  <2>3. PICK x \in txn[p].add : /\ x.status = "published"
                                /\ x.run = ctx[p].run /\ x.batch = ctx[p].batch
    BY <2>2 DEF Accounted
  <2>4. QED
    BY <2>2, <2>3 DEF AfterCommit, Recorded, PublishedRows
<1>2. QED
  BY <1>1, AlwaysCInv, PTL DEF Spec, ReturnedIsRecorded

-----------------------------------------------------------------------------
(* One promotion at a time, validations whenever they like *)

(* Only one promotion runs.                                                *)
Exclusive == \A p, q \in Promoters : pc[p] # "idle" /\ pc[q] # "idle" => q = p

(* What the running command relies on at each of its statements.           *)
GatesHold(p) ==
    /\ pc[p] \in {"existing", "insert", "stage", "view", "swap"} => NothingNewer(ctx[p])

OwnRows(table, c) == \A x \in table : x.run = c.run => x.batch = c.batch

Update(own) == [add |-> {Published(x) : x \in own}, del |-> own]

RowsHold(p) ==
    /\ pc[p] = "insert" => RowsOf(ctx[p].run) = {}
    /\ pc[p] = "stage" =>
         /\ OwnRows(rows \cup txn[p].add, ctx[p])
         /\ \A x, y \in rows \cup txn[p].add : x.run = y.run => x = y
         /\ \A x \in txn[p].add : x.status = "pending"
    /\ pc[p] \in {"view", "swap", "update", "drop"} => OwnRows(rows, ctx[p])
    /\ pc[p] = "drop" => txn[p] = Update(RowsOf(ctx[p].run))

SchemasHold(p) ==
    /\ pc[p] = "view" => \A v \in 1..built[p] : staging[v] = ctx[p]
    /\ pc[p] = "swap" => \A v \in Views : staging[v] = ctx[p]
    /\ pc[p] \in {"update", "drop"} => \A v \in Views : analytics[v] = ctx[p]

SInv ==
    /\ CInv
    /\ Exclusive
    /\ \A p \in Promoters : GatesHold(p) /\ RowsHold(p) /\ SchemasHold(p)
    /\ AllOrNothing /\ OneRowPerRun /\ RecordNeverAhead

LEMMA SInit == Init => SInv
<1> SUFFICES ASSUME Init PROVE SInv
  OBVIOUS
<1>1. \A p \in Promoters : GatesHold(p) /\ RowsHold(p) /\ SchemasHold(p)
  BY DEF Init, GatesHold, RowsHold, SchemasHold
<1>2. Exclusive /\ AllOrNothing /\ OneRowPerRun /\ RecordNeverAhead
  BY DEF Init, Exclusive, AllOrNothing, OneRowPerRun, RecordNeverAhead, PublishedRows
<1>3. QED
  BY <1>1, <1>2, CInit DEF SInv

(* A schema all of whose views select c shows c.                           *)
LEMMA CompleteSchema ==
    ASSUME NEW schema, NEW c \in Contexts, \A v \in Views : schema[v] = c
    PROVE  Complete(schema) /\ schema[1] = c
BY DEF Complete, Views

(* Nothing is assumed of a session that is idle.                           *)
LEMMA IdleHolds ==
    ASSUME NEW p \in Promoters, pc'[p] = "idle"
    PROVE  GatesHold(p)' /\ RowsHold(p)' /\ SchemasHold(p)'
BY DEF GatesHold, RowsHold, SchemasHold

(* The step of the one running command needs a look at that command only.  *)
LEMMA OneMoves ==
    ASSUME SInv, NEW p \in Promoters, pc[p] # "idle",
           \A q \in Promoters \ {p} : pc'[q] = pc[q],
           GatesHold(p)', RowsHold(p)', SchemasHold(p)'
    PROVE  /\ Exclusive'
           /\ \A q \in Promoters : GatesHold(q)' /\ RowsHold(q)' /\ SchemasHold(q)'
<1>1. \A q \in Promoters \ {p} : pc'[q] = "idle"
  BY DEF SInv, Exclusive
<1>2. \A q \in Promoters \ {p} : GatesHold(q)' /\ RowsHold(q)' /\ SchemasHold(q)'
  BY <1>1, IdleHolds
<1>3. Exclusive'
  BY <1>1 DEF Exclusive
<1>4. QED
  BY <1>2, <1>3

LEMMA SNext == ASSUME Serialized PROVE SInv /\ [Next]_vars => SInv'
<1> SUFFICES ASSUME SInv, [Next]_vars PROVE SInv'
  OBVIOUS
<1>0. CInv'
  BY CNext DEF SInv
<1> USE DEF SInv, verdictVars, controlVars, schemaVars, sessionVars
(* Steps that leave what is committed alone. *)
<1>1. ASSUME UNCHANGED <<rows, analytics>>
      PROVE  AllOrNothing' /\ OneRowPerRun' /\ RecordNeverAhead'
  BY <1>1 DEF AllOrNothing, OneRowPerRun, RecordNeverAhead, PublishedRows, Shown
(* A validation may overwrite any verdict: the running promotion has read  *)
(* what it needs of them. *)
<1>2. ASSUME UNCHANGED <<controlVars, schemaVars, sessionVars>>
      PROVE  SInv'
  <2>1. Exclusive'
    BY <1>2 DEF Exclusive
  <2>2. \A p \in Promoters : GatesHold(p)' /\ RowsHold(p)' /\ SchemasHold(p)'
    BY <1>2 DEF GatesHold, RowsHold, SchemasHold, NothingNewer, OwnRows, RowsOf, PublishedRows
  <2>3. QED
    BY <1>0, <1>1, <1>2, <2>1, <2>2
<1>3. ASSUME NEW c \in Contexts, NEW passed \in BOOLEAN, WriteReport(c, passed)
      PROVE  SInv'
  BY <1>2, <1>3 DEF WriteReport
<1>4. CASE RecordValidation \/ AbandonValidation
  BY <1>2, <1>4 DEF RecordValidation, AbandonValidation
<1>5. ASSUME NEW p \in Promoters, NEW c \in Contexts, ValidateReport(p, c)
      PROVE  SInv'
  <2>1. /\ NoPromotion /\ UNCHANGED <<rows, analytics>>
        /\ pc'[p] = "audit" /\ \A q \in Promoters \ {p} : pc'[q] = "idle"
    BY <1>5 DEF ValidateReport, NoPromotion, CInv, TypeOK
  <2>2. Exclusive'
    BY <2>1 DEF Exclusive
  <2>3. GatesHold(p)' /\ RowsHold(p)' /\ SchemasHold(p)'
    BY <2>1 DEF GatesHold, RowsHold, SchemasHold
  <2>4. \A q \in Promoters : GatesHold(q)' /\ RowsHold(q)' /\ SchemasHold(q)'
    BY <2>1, <2>3, IdleHolds
  <2>5. QED
    BY <1>0, <1>1, <2>1, <2>2, <2>4
(* Any step that ends its command without a commit. *)
<1>6. ASSUME NEW p \in Promoters, pc[p] # "idle", End(p),
             UNCHANGED <<rows, analytics>>
      PROVE  SInv'
  <2>1. pc'[p] = "idle" /\ \A q \in Promoters \ {p} : pc'[q] = pc[q]
    BY <1>6, EndKeepsTypes DEF CInv, SameSession
  <2>2. QED
    BY <1>0, <1>1, <1>6, <2>1, IdleHolds, OneMoves
<1>7. ASSUME NEW p \in Promoters,
             CheckAudit(p) \/ CheckLatestBatch(p) \/ CheckExisting(p) \/ Crash(p)
      PROVE  SInv'
  <2>1. pc[p] # "idle" /\ UNCHANGED <<audit, rows, analytics>>
    BY <1>7 DEF CheckAudit, CheckLatestBatch, CheckExisting, Crash
  <2>2. CASE End(p)
    BY <1>6, <2>1, <2>2
  <2>3. CASE ~End(p)
    <3>1. /\ pc'[p] \in {"latest", "existing", "insert", "stage"}
          /\ ctx'[p] = ctx[p] /\ txn'[p] = txn[p]
          /\ \A q \in Promoters \ {p} : pc'[q] = pc[q]
      BY <1>7, <2>3 DEF CheckAudit, CheckLatestBatch, CheckExisting, Crash, CInv, TypeOK
    <3>2. GatesHold(p)'
      BY <1>7, <2>1, <2>3, <3>1
         DEF CheckAudit, CheckLatestBatch, CheckExisting, Crash, GatesHold,
             NothingNewer, PublishedRows, CInv, TypeOK
    <3>3. CASE pc'[p] # "stage"
      <4>1. pc'[p] = "insert" => RowsOf(ctx[p].run) = {}
        BY <1>7, <2>3 DEF CheckAudit, CheckLatestBatch, CheckExisting, Crash, CInv, TypeOK
      <4>2. RowsHold(p)' /\ SchemasHold(p)'
        BY <2>1, <3>1, <3>3, <4>1 DEF RowsHold, SchemasHold, RowsOf
      <4>3. QED
        BY <1>0, <1>1, <2>1, <3>1, <3>2, <4>2, OneMoves
    <3>4. CASE pc'[p] = "stage"
      <4>1. pc[p] = "existing" /\ \E x \in RowsOf(ctx[p].run) : Resumable(x, ctx[p])
        BY <1>7, <2>3, <3>4 DEF CheckAudit, CheckLatestBatch, CheckExisting, Crash, CInv, TypeOK
      <4>2. txn[p].add = {}
        BY <4>1 DEF CInv, SessionOK, NoTxn
      <4>3. OwnRows(rows, ctx[p])
        BY <4>1 DEF OwnRows, RowsOf, Resumable, OneRowPerRun
      <4>4. RowsHold(p)' /\ SchemasHold(p)'
        BY <2>1, <3>1, <3>4, <4>2, <4>3 DEF RowsHold, SchemasHold, OneRowPerRun, OwnRows
      <4>5. QED
        BY <1>0, <1>1, <2>1, <3>1, <3>2, <4>4, OneMoves
    <3>5. QED
      BY <3>3, <3>4
  <2>4. QED
    BY <2>2, <2>3
<1>8. ASSUME NEW p \in Promoters, InsertPending(p)
      PROVE  SInv'
  <2> DEFINE new == [run |-> ctx[p].run, batch |-> ctx[p].batch,
                     status |-> "pending", at |-> clock]
  <2>1. /\ pc[p] = "insert" /\ pc'[p] = "stage" /\ ctx'[p] = ctx[p]
        /\ txn'[p].add = {new}
        /\ \A q \in Promoters \ {p} : pc'[q] = pc[q]
        /\ UNCHANGED <<audit, rows, analytics>>
    BY <1>8 DEF InsertPending, Goto, CInv, TypeOK
  <2>2. \A x \in rows : x.run # new.run
    BY <2>1 DEF RowsHold, RowsOf
  <2>3. RowsHold(p)'
    BY <2>1, <2>2 DEF RowsHold, OwnRows, OneRowPerRun
  <2>4. GatesHold(p)'
    BY <2>1 DEF GatesHold, NothingNewer, PublishedRows
  <2>5. SchemasHold(p)'
    BY <2>1 DEF SchemasHold
  <2>6. QED
    BY <1>0, <1>1, <2>1, <2>3, <2>4, <2>5, OneMoves
<1>9. ASSUME NEW p \in Promoters, CreateStaging(p)
      PROVE  SInv'
  <2>1. /\ pc[p] = "stage" /\ pc'[p] = "view" /\ ctx'[p] = ctx[p] /\ built'[p] = 0
        /\ \A q \in Promoters \ {p} : pc'[q] = pc[q]
        /\ UNCHANGED <<audit, analytics>>
    BY <1>9 DEF CreateStaging, Goto, CInv, TypeOK
  <2>2. rows' \subseteq rows \cup txn[p].add
    BY <1>9 DEF CreateStaging, AfterCommit
  <2>3. PublishedRows' \subseteq PublishedRows
    BY <2>1, <2>2 DEF PublishedRows, RowsHold
  <2>4. RowsHold(p)' /\ OneRowPerRun'
    <3>1. /\ OwnRows(rows \cup txn[p].add, ctx[p])
          /\ \A x, y \in rows \cup txn[p].add : x.run = y.run => x = y
      BY <2>1 DEF RowsHold
    <3>2. OwnRows(rows', ctx[p])
      BY <2>2, <3>1 DEF OwnRows
    <3>3. OneRowPerRun'
      BY <2>2, <3>1 DEF OneRowPerRun
    <3>4. QED
      BY <2>1, <3>2, <3>3 DEF RowsHold
  <2>5. GatesHold(p)'
    BY <2>1, <2>3 DEF GatesHold, NothingNewer
  <2>6. SchemasHold(p)'
    BY <2>1 DEF SchemasHold
  <2>7. AllOrNothing' /\ RecordNeverAhead'
    BY <2>1, <2>3 DEF AllOrNothing, RecordNeverAhead, Shown
  <2>8. QED
    BY <1>0, <2>1, <2>4, <2>5, <2>6, <2>7, OneMoves
<1>10. ASSUME NEW p \in Promoters, CreateView(p)
       PROVE  SInv'
  <2>1. pc[p] = "view" /\ UNCHANGED <<audit, rows, analytics>>
    BY <1>10 DEF CreateView
  <2>2. CASE staging = Nothing
    BY <1>6, <1>10, <2>1, <2>2 DEF CreateView
  <2>3. CASE staging # Nothing
    <3> DEFINE n == built[p] + 1
    <3>1. /\ staging \in Schema /\ n \in 1..NViews /\ built[p] \in Nat
          /\ built'[p] = n /\ ctx'[p] = ctx[p]
          /\ staging' = [staging EXCEPT ![n] = ctx[p]]
          /\ pc'[p] = IF n = NViews THEN "swap" ELSE "view"
          /\ \A q \in Promoters \ {p} : pc'[q] = pc[q]
      BY <1>10, <2>3 DEF CreateView, CInv, TypeOK, SessionOK, LastView
    <3>2. \A v \in 1..n : staging'[v] = ctx[p]
      <4>1. ASSUME NEW v \in 1..n
            PROVE  staging'[v] = ctx[p]
        <5>1. v \in Views /\ staging'[v] = IF v = n THEN ctx[p] ELSE staging[v]
          BY <3>1 DEF Views, Schema
        <5>2. v # n => v \in 1..built[p]
          BY <3>1
        <5>3. QED
          BY <2>1, <5>1, <5>2 DEF SchemasHold
      <4>2. QED
        BY <4>1
    <3>3. SchemasHold(p)'
      BY <3>1, <3>2 DEF SchemasHold, Views
    <3>4. RowsHold(p)'
      <4>1. OwnRows(rows, ctx[p])
        BY <2>1 DEF RowsHold
      <4>2. pc'[p] \in {"view", "swap"} /\ OwnRows(rows', ctx'[p])
        BY <2>1, <3>1, <4>1
      <4>3. QED
        BY <4>2 DEF RowsHold
    <3>5. GatesHold(p)'
      BY <2>1, <3>1 DEF GatesHold, NothingNewer, PublishedRows
    <3>6. QED
      BY <1>0, <1>1, <2>1, <3>1, <3>3, <3>4, <3>5, OneMoves
  <2>4. QED
    BY <2>2, <2>3
<1>11. ASSUME NEW p \in Promoters, SwapSchemas(p)
       PROVE  SInv'
  <2>1. pc[p] = "swap" /\ UNCHANGED <<audit, rows>>
    BY <1>11 DEF SwapSchemas
  <2>2. CASE staging = Nothing
    BY <1>6, <1>11, <2>1, <2>2 DEF SwapSchemas
  <2>3. CASE staging # Nothing
    <3>1. /\ analytics' = staging /\ pc'[p] = "update" /\ ctx'[p] = ctx[p]
          /\ ctx[p] \in Contexts
          /\ \A q \in Promoters \ {p} : pc'[q] = pc[q]
          /\ \A v \in Views : analytics'[v] = ctx[p]
      BY <1>11, <2>1, <2>3 DEF SwapSchemas, CInv, TypeOK, SessionOK, SchemasHold
    <3>2. Shown' = ctx[p] /\ AllOrNothing'
      BY <3>1, CompleteSchema DEF Shown, AllOrNothing
    <3>3. RecordNeverAhead'
      BY <2>1, <3>1, <3>2 DEF RecordNeverAhead, GatesHold, NothingNewer, PublishedRows
    <3>4. OneRowPerRun'
      BY <2>1 DEF OneRowPerRun
    <3>5. GatesHold(p)' /\ SchemasHold(p)'
      BY <2>1, <3>1 DEF GatesHold, SchemasHold
    <3>6. RowsHold(p)'
      <4>1. OwnRows(rows, ctx[p])
        BY <2>1 DEF RowsHold
      <4>2. OwnRows(rows', ctx'[p])
        BY <2>1, <3>1, <4>1
      <4>3. QED
        BY <3>1, <4>2 DEF RowsHold
    <3>7. QED
      BY <1>0, <2>1, <3>1, <3>2, <3>3, <3>4, <3>5, <3>6, OneMoves
  <2>4. QED
    BY <2>2, <2>3
<1>12. ASSUME NEW p \in Promoters, MarkPublished(p)
       PROVE  SInv'
  <2>1. /\ pc[p] = "update" /\ pc'[p] = "drop" /\ ctx'[p] = ctx[p]
        /\ txn'[p] = Update(RowsOf(ctx[p].run))
        /\ \A q \in Promoters \ {p} : pc'[q] = pc[q]
        /\ UNCHANGED <<audit, rows, analytics>>
    BY <1>12 DEF MarkPublished, Goto, CInv, TypeOK, Update
  <2>2. RowsHold(p)'
    <3>1. OwnRows(rows, ctx[p])
      BY <2>1 DEF RowsHold
    <3>2. OwnRows(rows', ctx'[p])
      BY <2>1, <3>1
    <3>3. txn'[p] = Update(RowsOf(ctx[p].run)')
      BY <2>1 DEF RowsOf
    <3>4. QED
      BY <2>1, <3>2, <3>3 DEF RowsHold
  <2>3. GatesHold(p)' /\ SchemasHold(p)'
    BY <2>1 DEF GatesHold, SchemasHold
  <2>4. QED
    BY <1>0, <1>1, <2>1, <2>2, <2>3, OneMoves
<1>13. ASSUME NEW p \in Promoters, DropStaging(p)
       PROVE  SInv'
  <2> DEFINE own == RowsOf(ctx[p].run)
  <2>1. /\ pc[p] = "drop" /\ ctx[p] \in Contexts
        /\ UNCHANGED <<analytics>>
        /\ rows \subseteq Row
        /\ rows' = (rows \ own) \cup {Published(x) : x \in own}
        /\ pc'[p] = "idle"
        /\ \A q \in Promoters \ {p} : pc'[q] = pc[q]
    <3>1. txn[p] = Update(own)
      BY <1>13 DEF DropStaging, RowsHold
    <3>2. rows' = (rows \ own) \cup {Published(x) : x \in own}
      BY <1>13, <3>1 DEF DropStaging, AfterCommit, Update
    <3>3. QED
      BY <1>13, <3>2, EndKeepsTypes
         DEF DropStaging, CInv, TypeOK, SessionOK, SameSession
  <2>2. ASSUME NEW x \in own
        PROVE  /\ x \in rows /\ x.run = ctx[p].run /\ x.batch = ctx[p].batch
               /\ Published(x).run = x.run /\ Published(x).batch = x.batch
    <3>1. x \in rows /\ x \in Row /\ x.run = ctx[p].run
      BY <2>1 DEF RowsOf
    <3>2. x.batch = ctx[p].batch
      BY <2>1, <3>1 DEF RowsHold, OwnRows
    <3>3. Published(x).run = x.run /\ Published(x).batch = x.batch
      BY <3>1 DEF Published, Row
    <3>4. QED
      BY <3>1, <3>2, <3>3
  <2>3. \A y \in rows' : \/ y \in rows /\ y.run # ctx[p].run
                         \/ \E x \in own : y = Published(x)
    BY <2>1 DEF RowsOf
  <2>4. OneRowPerRun'
    BY <2>2, <2>3 DEF OneRowPerRun
  <2>5. Shown' = ctx[p] /\ Shown = ctx[p]
    BY <2>1, CompleteSchema DEF Shown, SchemasHold
  <2>6. RecordNeverAhead'
    BY <2>1, <2>2, <2>3, <2>5 DEF RecordNeverAhead, PublishedRows
  <2>7. AllOrNothing'
    BY <2>1 DEF AllOrNothing
  <2>8. QED
    BY <1>0, <2>1, <2>4, <2>6, <2>7, IdleHolds, OneMoves
<1>14. CASE UNCHANGED vars
  BY <1>0, <1>14 DEF vars, Exclusive, GatesHold, RowsHold, SchemasHold, NothingNewer,
                     OwnRows, RowsOf, PublishedRows, AllOrNothing, OneRowPerRun, RecordNeverAhead, Shown
<1>15. QED
  BY <1>3, <1>4, <1>5, <1>7, <1>8, <1>9, <1>10, <1>11, <1>12, <1>13, <1>14
     DEF Next, Statement

LEMMA AlwaysSInv == ASSUME Serialized PROVE Spec => []SInv
BY SInit, SNext, PTL DEF Spec

(* While operators run one command at a time, and wherever one of them     *)
(* crashes, readers see a whole publication or none.                       *)
THEOREM SnowflakeAllOrNothing == ASSUME Serialized PROVE Spec => []AllOrNothing
<1>1. SInv => AllOrNothing
  BY DEF SInv
<1>2. QED
  BY <1>1, AlwaysSInv, PTL

(* Resumed promotions reuse the row of the crashed one: a run has one row. *)
THEOREM SnowflakeOneRowPerRun == ASSUME Serialized PROVE Spec => []OneRowPerRun
<1>1. SInv => OneRowPerRun
  BY DEF SInv
<1>2. QED
  BY <1>1, AlwaysSInv, PTL

(* A row says published only when its batch is at most the one on show.    *)
THEOREM SnowflakeRecordNeverAhead == ASSUME Serialized PROVE Spec => []RecordNeverAhead
<1>1. SInv => RecordNeverAhead
  BY DEF SInv
<1>2. QED
  BY <1>1, AlwaysSInv, PTL

-----------------------------------------------------------------------------
(* Refinement: a recorded verdict is Audit, passing the gate is Grant, the *)
(* swap is Show, the commit of the UPDATE is Record, and a command that    *)
(* ends without it is Lapse; every other step stutters.                    *)

PassedContexts == {c \in Contexts : audit[c.run] = [batch |-> c.batch, passed |-> TRUE]}

(* Past the audit gate.                                                    *)
Allowed(p) == pc[p] \notin {"idle", "audit"}

Granted == {c \in Contexts : \E p \in Promoters : Allowed(p) /\ ctx[p] = c}

GatePassed(p) == CheckAudit(p) /\ AuditPassed(ctx[p])

(* The gate is the only way past it, and a command keeps its context.      *)
LEMMA GateFirst ==
    ASSUME CInv, [Next]_vars, \A p \in Promoters : ~GatePassed(p),
           NEW q \in Promoters, Allowed(q)'
    PROVE  Allowed(q) /\ ctx'[q] = ctx[q]
<1>1. CASE UNCHANGED <<pc, ctx>>
  BY <1>1 DEF Allowed
<1>2. ASSUME NEW p \in Promoters, End(p)
      PROVE  Allowed(q) /\ ctx'[q] = ctx[q]
  BY <1>2, EndKeepsTypes DEF CInv, SameSession, Allowed
<1>3. ASSUME NEW p \in Promoters, UNCHANGED ctx, Allowed(p),
             \A r \in Promoters \ {p} : pc'[r] = pc[r]
      PROVE  Allowed(q) /\ ctx'[q] = ctx[q]
  BY <1>3 DEF Allowed
<1>4. ASSUME NEW p \in Promoters, NEW c \in Contexts, ValidateReport(p, c)
      PROVE  Allowed(q) /\ ctx'[q] = ctx[q]
  BY <1>4 DEF ValidateReport, Allowed, CInv, TypeOK
<1>5. ASSUME NEW p \in Promoters, Statement(p) \/ Crash(p), ~End(p)
      PROVE  UNCHANGED ctx /\ Allowed(p) /\ \A r \in Promoters \ {p} : pc'[r] = pc[r]
  BY <1>5 DEF Statement, CheckAudit, GatePassed, CheckLatestBatch, CheckExisting, InsertPending,
              CreateStaging, CreateView, SwapSchemas, MarkPublished, DropStaging, Crash, Goto,
              Allowed, CInv, TypeOK
<1>6. CASE \/ \E c \in Contexts, passed \in BOOLEAN : WriteReport(c, passed)
           \/ RecordValidation \/ AbandonValidation \/ UNCHANGED vars
  BY <1>1, <1>6 DEF WriteReport, RecordValidation, AbandonValidation, vars, sessionVars
<1>7. QED
  BY <1>2, <1>3, <1>4, <1>5, <1>6 DEF Next

LEMMA GrantsLapse ==
    ASSUME CInv, [Next]_vars, \A p \in Promoters : ~GatePassed(p)
    PROVE  Granted' \in SUBSET Granted
BY GateFirst DEF Granted

LEMMA SwapShows ==
    ASSUME SInv, NEW p \in Promoters, SwapSchemas(p), staging # Nothing
    PROVE  /\ ctx[p] \in Granted /\ NothingNewer(ctx[p])
           /\ Shown' = ctx[p]
           /\ UNCHANGED <<rows, audit>>
           /\ Granted' = Granted
<1>1. /\ pc[p] = "swap" /\ analytics' = staging /\ UNCHANGED <<rows, audit>>
      /\ pc' = [pc EXCEPT ![p] = "update"] /\ UNCHANGED ctx
  BY DEF SwapSchemas, verdictVars, controlVars
<1>2. /\ ctx[p] \in Contexts /\ NothingNewer(ctx[p])
      /\ \A v \in Views : analytics'[v] = ctx[p]
  BY <1>1 DEF SInv, CInv, SessionOK, GatesHold, SchemasHold
<1>3. ctx[p] \in Granted
  BY <1>1, <1>2 DEF Granted, Allowed
<1>4. \A q \in Promoters : Allowed(q)' = Allowed(q)
  BY <1>1 DEF Allowed, SInv, CInv, TypeOK
<1>5. Granted' = Granted
  BY <1>1, <1>4 DEF Granted
<1>6. QED
  BY <1>1, <1>2, <1>3, <1>5, CompleteSchema DEF Shown

LEMMA DropRecords ==
    ASSUME SInv, NEW p \in Promoters, DropStaging(p)
    PROVE  /\ ctx[p] \in Contexts /\ Shown = ctx[p]
           /\ Recorded' = Recorded \cup {ctx[p]}
           /\ UNCHANGED <<analytics, audit>>
<1> DEFINE own == RowsOf(ctx[p].run)
<1>1. /\ pc[p] = "drop" /\ ctx[p] \in Contexts /\ rows \subseteq Row
      /\ rows' = AfterCommit(p) /\ txn[p] = Update(own)
      /\ UNCHANGED <<analytics, audit>>
  BY DEF DropStaging, verdictVars, SInv, CInv, TypeOK, SessionOK, RowsHold
<1>2. rows' = (rows \ own) \cup {Published(x) : x \in own}
  BY <1>1 DEF AfterCommit, Update
<1>3. ASSUME NEW x \in own
      PROVE  /\ Published(x) \in rows' /\ Published(x).status = "published"
             /\ Published(x).run = ctx[p].run /\ Published(x).batch = ctx[p].batch
  <2>1. OwnRows(rows, ctx[p])
    BY <1>1 DEF SInv, RowsHold
  <2>2. x \in Row /\ x.run = ctx[p].run /\ x.batch = ctx[p].batch
    BY <1>1, <2>1 DEF RowsOf, OwnRows
  <2>3. /\ Published(x).run = x.run /\ Published(x).batch = x.batch
        /\ Published(x).status = "published"
    BY <2>2 DEF Published, Row
  <2>4. QED
    BY <1>2, <2>2, <2>3
<1>4. own # {}
  BY <1>1 DEF SInv, CInv, SessionOK, CtxAccounted, Accounted, RowsOf
<1>5. ctx[p] \in Recorded'
  BY <1>1, <1>3, <1>4 DEF Recorded, PublishedRows
<1>6. Recorded \subseteq Recorded'
  <2>1. PublishedRows \subseteq PublishedRows'
    BY <1>1, CommitKeeps DEF SInv, CInv, SessionOK
  <2>2. QED
    BY <2>1 DEF Recorded
<1>7. ASSUME NEW d \in Recorded'
      PROVE  d \in Recorded \cup {ctx[p]}
  <2>1. PICK y \in rows' : y.status = "published" /\ y.run = d.run /\ y.batch = d.batch
    BY DEF Recorded, PublishedRows
  <2>2. CASE y \in rows
    BY <2>1, <2>2 DEF Recorded, PublishedRows
  <2>3. CASE y \notin rows
    <3>1. PICK x \in own : y = Published(x)
      BY <1>2, <2>1, <2>3
    <3>2. d.run = ctx[p].run /\ d.batch = ctx[p].batch /\ d \in Contexts
      BY <1>3, <2>1, <3>1 DEF Recorded
    <3>3. QED
      BY <1>1, <3>2
  <2>4. QED
    BY <2>2, <2>3
<1>8. Shown = ctx[p]
  BY <1>1, CompleteSchema DEF Shown, SInv, SchemasHold
<1>9. QED
  BY <1>1, <1>5, <1>6, <1>7, <1>8

LEMMA StagingRecordsNothing ==
    ASSUME SInv, NEW p \in Promoters, CreateStaging(p)
    PROVE  Recorded' = Recorded /\ UNCHANGED <<analytics, audit>>
<1>1. pc[p] = "stage" /\ rows' = AfterCommit(p) /\ UNCHANGED <<analytics, audit>>
  BY DEF CreateStaging, Goto, verdictVars
<1>2. PublishedRows \subseteq PublishedRows'
  BY <1>1, CommitKeeps DEF SInv, CInv, SessionOK
<1>3. PublishedRows' \subseteq PublishedRows
  BY <1>1 DEF PublishedRows, AfterCommit, SInv, RowsHold
<1>4. QED
  BY <1>1, <1>2, <1>3 DEF Recorded

(* Every other step leaves the abstract state alone, but that it may end a *)
(* validation or a promotion, or take one past its gate.                   *)
LEMMA OtherSteps ==
    ASSUME CInv, [Next]_vars
    PROVE  \/ UNCHANGED <<analytics, rows, audit>> /\ Granted' \in SUBSET Granted
           \/ RecordValidation /\ UNCHANGED <<analytics, rows, pc, ctx>>
           \/ \E p \in Promoters : GatePassed(p) /\ UNCHANGED <<analytics, rows, audit>>
           \/ \E p \in Promoters :
                \/ CreateStaging(p) \/ DropStaging(p)
                \/ SwapSchemas(p) /\ staging # Nothing
<1>1. \/ UNCHANGED <<analytics, rows, audit>>
      \/ RecordValidation /\ UNCHANGED <<analytics, rows, pc, ctx>>
      \/ \E p \in Promoters :
           \/ CreateStaging(p) \/ DropStaging(p)
           \/ SwapSchemas(p) /\ staging # Nothing
  BY DEF Next, Statement, vars, verdictVars, controlVars, schemaVars, sessionVars, WriteReport,
         RecordValidation, AbandonValidation, ValidateReport, CheckAudit, CheckLatestBatch,
         CheckExisting, InsertPending, CreateView, SwapSchemas, MarkPublished, Crash
<1>2. CASE UNCHANGED <<analytics, rows, audit>>
  BY <1>2, GrantsLapse
<1>3. QED
  BY <1>1, <1>2

LEMMA SInitRefines == Init => Promise!Init
<1> SUFFICES ASSUME Init PROVE Promise!Init
  OBVIOUS
<1>1. Shown = Nothing /\ Recorded = {}
  BY DEF Init, Shown, Complete, EmptySchema, Recorded, PublishedRows, Views
<1>2. ASSUME NEW c \in Contexts
      PROVE  audit[c.run] # [batch |-> c.batch, passed |-> TRUE]
  <2>1. c.run \in Runs /\ [batch |-> c.batch, passed |-> TRUE] \in Verdict
    BY DEF Runs, Verdict
  <2>2. audit[c.run] = Nothing
    BY <2>1 DEF Init
  <2>3. QED
    BY <2>1, <2>2
<1>3. Granted = {}
  BY DEF Init, Granted, Allowed
<1>4. QED
  BY <1>1, <1>2, <1>3 DEF Promise!Init, Granted, Allowed

LEMMA SStepRefines == SInv /\ [Next]_vars => [Promise!Next]_(Promise!vars)
<1> SUFFICES ASSUME SInv, [Next]_vars PROVE [Promise!Next]_(Promise!vars)
  OBVIOUS
<1>0. CInv
  BY DEF SInv
<1> USE DEF Promise!Next, Granted, Allowed
<1>1. CASE UNCHANGED <<analytics, rows, audit>> /\ Granted' \in SUBSET Granted
  <2>1. Shown' = Shown /\ Recorded' = Recorded
    BY <1>1 DEF Shown, Recorded, PublishedRows
  <2>2. Promise!Lapse
    BY <1>1, <2>1 DEF Promise!Lapse
  <2>3. QED
    BY <2>2
<1>2. CASE RecordValidation /\ UNCHANGED <<analytics, rows, pc, ctx>>
  <2>1. Shown' = Shown /\ Recorded' = Recorded /\ Granted' = Granted
    BY <1>2 DEF Shown, Recorded, PublishedRows
  <2>2. QED
    BY <2>1 DEF Promise!Audit
<1>3. ASSUME NEW p \in Promoters, CreateStaging(p)
      PROVE  [Promise!Next]_(Promise!vars)
  <2>1. Shown' = Shown /\ Recorded' = Recorded /\ UNCHANGED audit
    BY <1>3, StagingRecordsNothing DEF Shown
  <2>2. \A q \in Promoters : ~GatePassed(q)
    BY <1>3, <1>0 DEF CreateStaging, Goto, GatePassed, CheckAudit, SInv, Exclusive
  <2>3. Granted' \in SUBSET Granted
    BY <1>0, <2>2, GrantsLapse
  <2>4. Promise!Lapse
    BY <2>1, <2>3 DEF Promise!Lapse
  <2>5. QED
    BY <2>4
<1>4. ASSUME NEW p \in Promoters, DropStaging(p)
      PROVE  [Promise!Next]_(Promise!vars)
  <2>1. /\ ctx[p] \in Contexts /\ Shown = ctx[p] /\ Shown' = Shown
        /\ Recorded' = Recorded \cup {ctx[p]} /\ UNCHANGED audit
    BY <1>4, DropRecords DEF Shown
  <2>2. \A q \in Promoters : ~GatePassed(q)
    BY <1>4, <1>0 DEF DropStaging, GatePassed, CheckAudit, SInv, Exclusive
  <2>3. Granted' \in SUBSET Granted
    BY <1>0, <2>2, GrantsLapse
  <2>4. PICK c \in Contexts : c = ctx[p]
    BY <2>1
  <2>5. Promise!Record(c)
    BY <2>1, <2>3, <2>4 DEF Promise!Record
  <2>6. QED
    BY <2>5
<1>5. ASSUME NEW p \in Promoters, SwapSchemas(p), staging # Nothing
      PROVE  [Promise!Next]_(Promise!vars)
  <2>1. /\ ctx[p] \in Granted /\ NothingNewer(ctx[p]) /\ Granted' = Granted
        /\ Shown' = ctx[p] /\ UNCHANGED <<rows, audit>>
    BY <1>5, SwapShows
  <2>2. Recorded' = Recorded /\ ctx[p] \in Contexts
    BY <2>1 DEF Recorded, PublishedRows
  <2>3. \A d \in Recorded : d.batch <= ctx[p].batch
    BY <2>1 DEF NothingNewer, Recorded
  <2>4. Promise!Show(ctx[p])
    BY <2>1, <2>2, <2>3 DEF Promise!Show, Promise!NothingNewer
  <2>5. QED
    BY <2>2, <2>4
<1>6. ASSUME NEW p \in Promoters, GatePassed(p), UNCHANGED <<analytics, rows, audit>>
      PROVE  [Promise!Next]_(Promise!vars)
  <2>1. Shown' = Shown /\ Recorded' = Recorded
    BY <1>6 DEF Shown, Recorded, PublishedRows
  <2>2. /\ pc[p] = "audit" /\ pc' = [pc EXCEPT ![p] = "latest"] /\ UNCHANGED ctx
        /\ ctx[p] \in PassedContexts
    BY <1>6, <1>0 DEF GatePassed, CheckAudit, AuditPassed, CInv, SessionOK, PassedContexts
  <2>3. \A q \in Promoters : Allowed(q)' <=> Allowed(q) \/ q = p
    BY <1>0, <2>2 DEF CInv, TypeOK
  <2>4. Granted' = Granted \cup {ctx[p]}
    BY <2>2, <2>3 DEF PassedContexts
  <2>5. PICK c \in Contexts : c = ctx[p]
    BY <2>2 DEF PassedContexts
  <2>6. Promise!Grant(c)
    BY <1>6, <2>1, <2>2, <2>4, <2>5 DEF Promise!Grant, PassedContexts
  <2>7. QED
    BY <2>6
<1>7. QED
  BY <1>0, <1>1, <1>2, <1>3, <1>4, <1>5, <1>6, OtherSteps

(* Snowflake publication, one command at a time, implements the promise    *)
(* that DuckDB publication implements.                                     *)
THEOREM SnowflakeRefinesPublication == ASSUME Serialized PROVE Spec => Refines
BY SInitRefines, SStepRefines, AlwaysSInv, PTL DEF Spec, Refines, Promise!Spec
=============================================================================
