------------------------ MODULE DuckDbPromotionProofs ------------------------
(***************************************************************************)
(* The invariants of DuckDbPromotion, its refinement of Publication, and   *)
(* what the dashboard's panels stand for beside it, for every set of       *)
(* contexts, every number of views and any number of queries per panel.    *)
(***************************************************************************)
EXTENDS Dashboard, FiniteSetTheorems, TLAPS

USE ContextsAssumption, ViewsAssumption, NothingAssumption

(* What the open transaction knows between the gates and the commit: its   *)
(* gates still hold, because nobody else can write the database, and its   *)
(* draft selects the context in every view built so far.                   *)
Authorized(c) == AuditPassed(c) /\ NothingNewer(c)

SessionInv ==
    /\ session = Nothing => draft = views
    /\ At("validate") \/ At("record") \/ At("gates") => draft = views
    /\ At("gates") => session.built = 0
    /\ At("view") \/ At("commit") => Authorized(session.ctx)
    /\ At("view") => /\ session.built < NViews
                     /\ \A v \in 1..session.built : draft[v] = session.ctx
    /\ At("commit") => \A v \in Views : draft[v] = session.ctx

IInv == TypeOK /\ SessionInv /\ RecordMatchesViews /\ PublishedInOrder

LEMMA InitIInv == Init => IInv
BY DEF Init, IInv, TypeOK, SessionInv, At, Session, Verdict, Runs, Views,
       RecordMatchesViews, PublishedInOrder

(* Appending the context of an authorised session keeps the record         *)
(* ordered.                                                                *)
LEMMA AppendKeepsOrder ==
    ASSUME NEW c \in Contexts, published \in Seq(Contexts),
           NothingNewer(c), PublishedInOrder,
           published' = Append(published, c)
    PROVE  PublishedInOrder'
<1>1. /\ DOMAIN published' = 1..(Len(published) + 1)
      /\ Len(published) \in Nat
      /\ DOMAIN published = 1..Len(published)
      /\ published'[Len(published) + 1] = c
      /\ \A i \in 1..Len(published) : published'[i] = published[i]
      /\ \A i \in 1..Len(published) : published[i] \in Contexts
  OBVIOUS
<1>2. QED
  BY <1>1 DEF PublishedInOrder, NothingNewer

LEMMA NextIInv == IInv /\ [Next]_vars => IInv'
<1> SUFFICES ASSUME IInv, [Next]_vars PROVE IInv'
  OBVIOUS
<1> USE DEF IInv
<1>1. ASSUME NEW c \in Contexts, NEW passed \in BOOLEAN, Validate(c, passed)
      PROVE  IInv'
  <2>1. session' \in Session /\ session'.step = "validate"
    BY <1>1 DEF Validate, rest, Open, Session
  <2>2. TypeOK'
    BY <1>1, <2>1 DEF Validate, rest, TypeOK, data
  <2>3. SessionInv'
    BY <1>1, <2>1 DEF Validate, rest, SessionInv, At, data
  <2>4. QED
    BY <1>1, <2>2, <2>3 DEF Validate, rest, data, RecordMatchesViews, PublishedInOrder
<1>2. ASSUME NEW c \in Contexts, NEW passed \in BOOLEAN, OtherTargetReports(c, passed)
      PROVE  IInv'
  <2>1. TypeOK'
    BY <1>2 DEF OtherTargetReports, rest, TypeOK, VerdictOf, Verdict, Runs
  <2>2. SessionInv'
    BY <1>2 DEF OtherTargetReports, rest, SessionInv, At, Authorized, AuditPassed,
                NothingNewer, AlreadyPublished
  <2>3. QED
    BY <1>2, <2>1, <2>2
       DEF OtherTargetReports, rest, RecordMatchesViews, PublishedInOrder
<1>3. CASE WriteReport
  <2>1. session \in Session /\ session' \in Session /\ session'.step = "record"
    BY <1>3 DEF WriteReport, rest, At, TypeOK, Session
  <2>2. TypeOK'
    BY <1>3, <2>1 DEF WriteReport, rest, TypeOK, VerdictOf, Verdict, Runs, Session
  <2>3. SessionInv'
    BY <1>3, <2>1 DEF WriteReport, rest, SessionInv, At
  <2>4. QED
    BY <1>3, <2>2, <2>3 DEF WriteReport, rest, RecordMatchesViews, PublishedInOrder
<1>4. CASE RecordValidation
  <2>1. session \in Session
    BY <1>4 DEF RecordValidation, rest, At, TypeOK
  <2>2. TypeOK'
    BY <1>4, <2>1 DEF RecordValidation, rest, Close, TypeOK, VerdictOf, Verdict, Runs, Session
  <2>3. SessionInv'
    BY <1>4 DEF RecordValidation, rest, Close, SessionInv, At
  <2>4. QED
    BY <1>4, <2>2, <2>3 DEF RecordValidation, rest, RecordMatchesViews, PublishedInOrder
<1>5. ASSUME NEW c \in Contexts, Promote(c)
      PROVE  IInv'
  <2>1. UNCHANGED <<data, draft>> /\ ready' \subseteq Contexts
    BY <1>5 DEF Promote, TypeOK
  <2>2. RecordMatchesViews' /\ PublishedInOrder'
    BY <2>1 DEF data, RecordMatchesViews, PublishedInOrder
  <2>3. CASE session = Nothing /\ Open("gates", c, TRUE)
    <3>1. session' \in Session /\ session'.step = "gates" /\ session'.built = 0
      BY <2>3 DEF Open, Session
    <3>2. TypeOK'
      BY <2>1, <3>1 DEF TypeOK, data
    <3>3. SessionInv'
      BY <2>1, <2>3, <3>1 DEF SessionInv, At, data
    <3>4. QED
      BY <2>2, <3>2, <3>3
  <2>4. CASE UNCHANGED session
    <3>1. TypeOK'
      BY <2>1, <2>4 DEF TypeOK, data
    <3>2. SessionInv'
      BY <2>1, <2>4 DEF SessionInv, At, Authorized, AuditPassed, NothingNewer,
                        AlreadyPublished, data
    <3>3. QED
      BY <2>2, <3>1, <3>2
  <2>5. QED
    BY <1>5, <2>3, <2>4 DEF Promote
<1>6. CASE Gates
  <2>1. RecordMatchesViews' /\ PublishedInOrder'
    BY <1>6 DEF Gates, data, RecordMatchesViews, PublishedInOrder
  <2>2. CASE Close
    <3>1. TypeOK'
      BY <1>6, <2>2 DEF Gates, Close, data, TypeOK
    <3>2. SessionInv'
      BY <1>6, <2>2 DEF Gates, Close, data, SessionInv, At
    <3>3. QED
      BY <2>1, <3>1, <3>2
  <2>3. CASE /\ Authorized(session.ctx)
             /\ session' = [session EXCEPT !.step = "view"]
             /\ UNCHANGED draft
    <3>1. /\ session \in Session /\ session' \in Session
          /\ session'.step = "view" /\ session'.ctx = session.ctx
          /\ session'.built = session.built
      BY <1>6, <2>3 DEF Gates, At, TypeOK, Session
    <3>2. TypeOK'
      BY <1>6, <2>3, <3>1 DEF Gates, data, TypeOK
    <3>3. Authorized(session.ctx)'
      BY <1>6, <2>3, <3>1 DEF Gates, data, Authorized, AuditPassed, NothingNewer, AlreadyPublished
    <3>4. session.built = 0
      BY <1>6 DEF Gates, SessionInv
    <3>5. QED
      BY <2>1, <3>1, <3>2, <3>3, <3>4 DEF SessionInv, At
  <2>4. QED
    BY <1>6, <2>2, <2>3 DEF Gates, Authorized
<1>7. CASE CreateView
  <2> DEFINE n == session.built + 1
  <2>1. /\ session \in Session /\ session.step = "view"
        /\ session.built \in Nat /\ n \in 1..NViews
        /\ NViews \in Nat /\ session.ctx \in Contexts
    BY <1>7 DEF CreateView, At, TypeOK, Session, SessionInv
  <2>2. /\ session' \in Session /\ session'.ctx = session.ctx /\ session'.built = n
        /\ session'.step = IF n = NViews THEN "commit" ELSE "view"
    <3>1. CASE n = NViews
      <4>1. session' = [session EXCEPT !.built = n, !.step = "commit"]
        BY <1>7, <3>1 DEF CreateView, LastView
      <4>2. session = [step |-> session.step, ctx |-> session.ctx,
                       passed |-> session.passed, built |-> session.built]
        BY <2>1 DEF Session
      <4>3. session' = [step |-> "commit", ctx |-> session.ctx,
                        passed |-> session.passed, built |-> n]
        BY <4>1, <4>2
      <4>4. session.passed \in BOOLEAN /\ n \in 0..NViews
        BY <2>1 DEF Session
      <4>5. QED
        BY <2>1, <3>1, <4>3, <4>4 DEF Session
    <3>2. CASE n # NViews
      <4>1. session' = [session EXCEPT !.built = n, !.step = "view"]
        BY <1>7, <3>2 DEF CreateView, LastView
      <4>2. session = [step |-> session.step, ctx |-> session.ctx,
                       passed |-> session.passed, built |-> session.built]
        BY <2>1 DEF Session
      <4>3. session' = [step |-> "view", ctx |-> session.ctx,
                        passed |-> session.passed, built |-> n]
        BY <4>1, <4>2
      <4>4. session.passed \in BOOLEAN /\ n \in 0..NViews
        BY <2>1 DEF Session
      <4>5. QED
        BY <2>1, <3>2, <4>3, <4>4 DEF Session
    <3>3. QED
      BY <3>1, <3>2
  <2>3. /\ draft' = [draft EXCEPT ![n] = session.ctx]
        /\ draft \in [Views -> Contexts \cup {Nothing}]
        /\ UNCHANGED <<data, ready>>
    BY <1>7 DEF CreateView, TypeOK
  <2>4. TypeOK'
    BY <2>1, <2>2, <2>3 DEF data, TypeOK
  <2>5. Authorized(session.ctx)'
    BY <1>7, <2>2, <2>3 DEF CreateView, SessionInv, data, Authorized, AuditPassed,
                            NothingNewer, AlreadyPublished
  <2>6. \A v \in 1..n : draft'[v] = session.ctx
    <3>1. \A v \in 1..session.built : draft[v] = session.ctx
      BY <1>7 DEF CreateView, SessionInv
    <3>2. QED
      BY <2>1, <2>3, <3>1 DEF Views
  <2>7. SessionInv'
    BY <2>1, <2>2, <2>5, <2>6 DEF SessionInv, At, Views
  <2>8. QED
    BY <2>3, <2>4, <2>7 DEF data, RecordMatchesViews, PublishedInOrder
<1>8. CASE CommitPublication
  <2>1. /\ session \in Session /\ session.ctx \in Contexts
        /\ Authorized(session.ctx)
        /\ \A v \in Views : draft[v] = session.ctx
    BY <1>8 DEF CommitPublication, At, TypeOK, Session, SessionInv
  <2>2. /\ published \in Seq(Contexts)
        /\ published' = Append(published, session.ctx)
        /\ views' = draft
    BY <1>8 DEF CommitPublication, TypeOK
  <2>3. TypeOK'
    BY <1>8, <2>1, <2>2 DEF CommitPublication, TypeOK
  <2>4. SessionInv'
    BY <1>8 DEF CommitPublication, SessionInv, At
  <2>5. PublishedInOrder'
    BY <2>1, <2>2, AppendKeepsOrder DEF Authorized
  <2>6. RecordMatchesViews'
    <3>1. published' # <<>> /\ published'[Len(published')] = session.ctx
      BY <2>1, <2>2
    <3>2. QED
      BY <2>1, <2>2, <3>1 DEF RecordMatchesViews
  <2>7. QED
    BY <2>3, <2>4, <2>5, <2>6
<1>9. CASE Fail
  <2>1. TypeOK'
    BY <1>9 DEF Fail, Close, data, TypeOK
  <2>2. SessionInv'
    BY <1>9 DEF Fail, Close, data, SessionInv, At
  <2>3. QED
    BY <1>9, <2>1, <2>2 DEF Fail, data, RecordMatchesViews, PublishedInOrder
<1>10. ASSUME NEW c \in Contexts, ReadReport(c)
      PROVE  IInv'
  <2>1. TypeOK'
    BY <1>10 DEF ReadReport, data, TypeOK
  <2>2. SessionInv'
    BY <1>10 DEF ReadReport, data, SessionInv, At, Authorized, AuditPassed,
                 NothingNewer, AlreadyPublished
  <2>3. QED
    BY <1>10, <2>1, <2>2
       DEF ReadReport, data, RecordMatchesViews, PublishedInOrder
<1>11. CASE UNCHANGED vars
  BY <1>11 DEF vars, TypeOK, SessionInv, At, Authorized, AuditPassed, NothingNewer,
               AlreadyPublished, RecordMatchesViews, PublishedInOrder
<1>12. QED
  BY <1>1, <1>2, <1>3, <1>4, <1>5, <1>6, <1>7, <1>8, <1>9,
     <1>10, <1>11 DEF Next

LEMMA AlwaysIInv == Spec => []IInv
BY InitIInv, NextIInv, PTL DEF Spec

(* The variables keep their types.                                         *)
THEOREM DuckDbTypeCorrect == Spec => []TypeOK
<1>1. IInv => TypeOK
  BY DEF IInv
<1>2. QED
  BY <1>1, AlwaysIInv, PTL

(* Record and views change together, whatever fails: readers always see    *)
(* the context of the last publication row.                                *)
THEOREM DuckDbRecordMatchesViews == Spec => []RecordMatchesViews
<1>1. IInv => RecordMatchesViews
  BY DEF IInv
<1>2. QED
  BY <1>1, AlwaysIInv, PTL

(* Batches are published in order.                                         *)
THEOREM DuckDbPublishedInOrder == Spec => []PublishedInOrder
<1>1. IInv => PublishedInOrder
  BY DEF IInv
<1>2. QED
  BY <1>1, AlwaysIInv, PTL

-----------------------------------------------------------------------------
(* Refinement: recording a verdict is Audit, the commit is Publish, every  *)
(* other step stutters.                                                    *)
PassedContexts == {c \in Contexts : audit[c.run] = VerdictOf(c, TRUE)}

LEMMA InitRefines == Init => Promise!Init
<1> SUFFICES ASSUME Init PROVE Promise!Init
  OBVIOUS
<1>1. Shown = Nothing
  BY DEF Init, Shown, Views
<1>2. Recorded = {}
  <2>1. DOMAIN published = {}
    BY DEF Init
  <2>2. QED
    BY <2>1 DEF Recorded
<1>3. ASSUME NEW c \in Contexts
      PROVE  audit[c.run] # VerdictOf(c, TRUE)
  <2>1. c.run \in Runs /\ VerdictOf(c, TRUE) \in Verdict
    BY DEF Runs, VerdictOf, Verdict
  <2>2. audit[c.run] = Nothing
    BY <2>1 DEF Init
  <2>3. QED
    BY <2>1, <2>2
<1>4. QED
  BY <1>1, <1>2, <1>3 DEF Promise!Init

LEMMA StepRefines == IInv /\ [Next]_vars => [Promise!Next]_(Promise!vars)
<1> SUFFICES ASSUME IInv, [Next]_vars PROVE [Promise!Next]_(Promise!vars)
  OBVIOUS
<1> USE DEF IInv
<1>1. CASE RecordValidation
  BY <1>1 DEF RecordValidation, rest, Promise!Next, Promise!Audit, Shown, Recorded
<1>2. CASE CommitPublication
  <2>1. /\ session.ctx \in Contexts /\ Authorized(session.ctx)
        /\ \A v \in Views : draft[v] = session.ctx
    BY <1>2 DEF CommitPublication, At, TypeOK, Session, SessionInv
  <2>2. Shown' = session.ctx
    BY <1>2, <2>1 DEF CommitPublication, Shown, Views
  <2>3. Recorded' = Recorded \cup {session.ctx}
    <3>1. /\ DOMAIN published = 1..Len(published) /\ Len(published) \in Nat
          /\ DOMAIN published' = 1..(Len(published) + 1)
          /\ published'[Len(published) + 1] = session.ctx
          /\ \A i \in 1..Len(published) : published'[i] = published[i]
      BY <1>2, <2>1 DEF CommitPublication, TypeOK
    <3>2. QED
      BY <3>1 DEF Recorded
  <2>4. \A d \in Recorded : d.batch <= session.ctx.batch
    BY <2>1 DEF Authorized, NothingNewer, Recorded
  <2>5. session.ctx \in PassedContexts /\ UNCHANGED PassedContexts
    BY <1>2, <2>1 DEF CommitPublication, Authorized, AuditPassed, PassedContexts, VerdictOf
  <2>6. Promise!Publish(session.ctx)
    BY <2>1, <2>2, <2>3, <2>4, <2>5 DEF Promise!Publish, Promise!NothingNewer, PassedContexts
  <2>7. QED
    BY <2>1, <2>6 DEF Promise!Next
<1>3. CASE UNCHANGED <<audit, published, views>>
  BY <1>3 DEF Promise!vars, Shown, Recorded, VerdictOf
<1>4. QED
  BY <1>1, <1>2, <1>3 DEF Next, vars, data, rest, Validate, ReadReport, OtherTargetReports, WriteReport,
                          Promote, Gates, CreateView, Fail

(* DuckDB publication implements the abstract promise.                     *)
THEOREM DuckDbRefinesPublication == Spec => Refines
BY InitRefines, StepRefines, AlwaysIInv, PTL DEF Spec, Refines, Promise!Spec

-----------------------------------------------------------------------------
(* The dashboard *)

(* While a panel loads nobody has a session, so all it has seen is what    *)
(* the views still select; a cached panel is one recorded publication.     *)
ReadingInv ==
    reading # Nothing =>
        /\ session = Nothing
        /\ \A c \in reading.seen : c = Shown /\ c \in Recorded
CachedInv ==
    \A p \in Panels : cached[p] # Nothing => \E c \in Recorded : cached[p] = {c}
DInv == IInv /\ DashboardTypeOK /\ ReadingInv /\ CachedInv

LEMMA InitDInv == DashboardInit => DInv
BY InitIInv DEF DashboardInit, DInv, DashboardTypeOK, ReadingInv, CachedInv

(* The last publication row is what every view selects.                    *)
LEMMA ShownIsRecorded ==
    ASSUME IInv, NEW v \in Views, views[v] # Nothing
    PROVE  views[v] = Shown /\ Shown \in Recorded
<1>1. published \in Seq(Contexts) /\ published # <<>>
  BY DEF IInv, TypeOK, RecordMatchesViews
<1>2. Len(published) \in DOMAIN published
  BY <1>1
<1>3. 1 \in Views
  BY DEF Views
<1>4. QED
  BY <1>1, <1>2, <1>3 DEF IInv, RecordMatchesViews, Shown, Recorded

(* A step of the pipeline that opens or holds no session publishes         *)
(* nothing, and none removes a publication row.                            *)
LEMMA PipelineKeepsRecord ==
    ASSUME IInv, Next
    PROVE  /\ Recorded \subseteq Recorded'
           /\ session = Nothing => UNCHANGED <<views, published>>
<1>1. CASE CommitPublication
  <2>1. /\ session # Nothing /\ session.ctx \in Contexts
        /\ published \in Seq(Contexts)
        /\ published' = Append(published, session.ctx)
    BY <1>1 DEF CommitPublication, At, IInv, TypeOK, Session
  <2>2. /\ DOMAIN published \subseteq DOMAIN published'
        /\ \A i \in DOMAIN published : published'[i] = published[i]
    BY <2>1
  <2>3. QED
    BY <2>1, <2>2 DEF Recorded
<1>2. CASE UNCHANGED <<views, published>>
  BY <1>2 DEF Recorded
<1>3. QED
  BY <1>1, <1>2 DEF Next, data, rest, Validate, ReadReport, OtherTargetReports, WriteReport,
                    RecordValidation, Promote, Gates, CreateView, Fail

LEMMA NextDInv == DInv /\ [DashboardNext]_pageVars => DInv'
<1> SUFFICES ASSUME DInv, [DashboardNext]_pageVars PROVE DInv'
  OBVIOUS
<1> USE DEF DInv
<1>1. CASE PipelineStep
  <2>1. IInv' /\ Recorded \subseteq Recorded'
    BY <1>1, NextIInv, PipelineKeepsRecord DEF PipelineStep
  <2>2. DashboardTypeOK' /\ CachedInv'
    BY <1>1, <2>1 DEF PipelineStep, dashboardVars, DashboardTypeOK, CachedInv
  <2>3. ReadingInv'
    <3>1. CASE reading = Nothing
      BY <1>1, <3>1 DEF PipelineStep, dashboardVars, ReadingInv
    <3>2. CASE reading # Nothing
      <4>1. session = Nothing /\ session' = Nothing
        BY <1>1, <3>2 DEF PipelineStep, OpensSession, ReadingInv
      <4>2. UNCHANGED <<views, published>>
        BY <1>1, <4>1, PipelineKeepsRecord DEF PipelineStep
      <4>3. QED
        BY <1>1, <4>1, <4>2 DEF PipelineStep, dashboardVars, ReadingInv, Shown, Recorded
    <3>3. QED
      BY <3>1, <3>2
  <2>4. QED
    BY <2>1, <2>2, <2>3
<1>2. ASSUME NEW c \in Contexts, LockedOut(c)
      PROVE  DInv'
  <2>1. UNCHANGED <<data, session, draft, dashboardVars>> /\ ready' \subseteq Contexts
    BY <1>2 DEF LockedOut, IInv, TypeOK
  <2>2. TypeOK'
    BY <2>1 DEF IInv, TypeOK, data
  <2>3. SessionInv'
    BY <2>1 DEF IInv, SessionInv, At, Authorized, AuditPassed, NothingNewer,
                AlreadyPublished, data
  <2>4. RecordMatchesViews' /\ PublishedInOrder'
    BY <2>1 DEF IInv, data, RecordMatchesViews, PublishedInOrder
  <2>5. DashboardTypeOK' /\ ReadingInv' /\ CachedInv'
    BY <2>1 DEF data, dashboardVars, DashboardTypeOK, ReadingInv, CachedInv, Shown, Recorded
  <2>6. QED
    BY <2>2, <2>3, <2>4, <2>5 DEF IInv
<1>3. CASE UNCHANGED vars /\ DashboardTypeOK' /\ ReadingInv' /\ CachedInv'
  BY <1>3, NextIInv
<1>4. ASSUME NEW p \in Panels, OpenPanel(p)
      PROVE  DInv'
  <2>1. UNCHANGED vars
    BY <1>4 DEF OpenPanel
  <2>2. DashboardTypeOK' /\ ReadingInv' /\ CachedInv'
    BY <1>4, <2>1 DEF OpenPanel, vars, DashboardTypeOK, ReadingInv, CachedInv, Recorded
  <2>3. QED
    BY <1>3, <2>1, <2>2
<1>5. ASSUME NEW over \in SUBSET Views, QueryViews(over)
      PROVE  DInv'
  <2>1. UNCHANGED <<vars, cached>> /\ reading # Nothing
    BY <1>5 DEF QueryViews
  <2>2. CachedInv' /\ UNCHANGED <<Shown, Recorded>>
    BY <2>1 DEF vars, CachedInv, Shown, Recorded
  <2>3. CASE reading' = Nothing
    BY <1>3, <2>1, <2>2, <2>3 DEF DashboardTypeOK, ReadingInv
  <2>4. CASE reading' # Nothing
    <3>1. /\ \A v \in over : views[v] # Nothing
          /\ reading' = [reading EXCEPT !.seen = @ \cup {views[v] : v \in over}]
      BY <1>5, <2>4 DEF QueryViews
    <3>2. \A v \in over : views[v] = Shown /\ Shown \in Recorded /\ views[v] \in Contexts
      BY <3>1, ShownIsRecorded DEF IInv, TypeOK
    <3>3. /\ reading'.seen = reading.seen \cup {views[v] : v \in over}
          /\ reading'.panel = reading.panel
          /\ reading' \in [panel : Panels, seen : SUBSET Contexts]
      BY <2>1, <3>1, <3>2 DEF DashboardTypeOK
    <3>4. DashboardTypeOK'
      BY <2>1, <3>3 DEF DashboardTypeOK
    <3>5. ReadingInv'
      BY <2>1, <2>2, <3>2, <3>3 DEF ReadingInv, vars
    <3>6. QED
      BY <1>3, <2>1, <2>2, <3>4, <3>5
  <2>5. QED
    BY <2>3, <2>4
<1>6. CASE ClosePanel
  <2>1. /\ UNCHANGED vars /\ reading' = Nothing
        /\ reading \in [panel : Panels, seen : SUBSET Contexts]
        /\ reading.seen # {}
        /\ cached' = [cached EXCEPT ![reading.panel] = reading.seen]
    BY <1>6 DEF ClosePanel, DashboardTypeOK
  <2>2. \E c \in Recorded' : reading.seen = {c}
    BY <1>6, <2>1 DEF ClosePanel, ReadingInv, Recorded, vars
  <2>3. DashboardTypeOK' /\ ReadingInv'
    BY <2>1 DEF DashboardTypeOK, ReadingInv
  <2>4. CachedInv'
    BY <2>1, <2>2 DEF DashboardTypeOK, CachedInv, Recorded, vars
  <2>5. QED
    BY <1>3, <2>1, <2>3, <2>4
<1>7. ASSUME NEW p \in Panels, Expire(p)
      PROVE  DInv'
  <2>1. UNCHANGED vars
    BY <1>7 DEF Expire
  <2>2. DashboardTypeOK' /\ ReadingInv' /\ CachedInv'
    BY <1>7, <2>1 DEF Expire, vars, DashboardTypeOK, ReadingInv, CachedInv, Shown, Recorded
  <2>3. QED
    BY <1>3, <2>1, <2>2
<1>8. CASE UNCHANGED pageVars
  BY <1>3, <1>8
     DEF pageVars, vars, dashboardVars, DashboardTypeOK, ReadingInv, CachedInv, Shown, Recorded
<1>9. QED
  BY <1>1, <1>2, <1>4, <1>5, <1>6, <1>7, <1>8 DEF DashboardNext

LEMMA AlwaysDInv == DashboardSpec => []DInv
BY InitDInv, NextDInv, PTL DEF DashboardSpec

(* The dashboard keeps its types beside the pipeline.                      *)
THEOREM DashboardTypeCorrect == DashboardSpec => []DashboardTypeOK
<1>1. DInv => DashboardTypeOK
  BY DEF DInv
<1>2. QED
  BY <1>1, AlwaysDInv, PTL

(* A panel never stands for two publications, however its queries and the  *)
(* pipeline's commands are interleaved.                                    *)
THEOREM PanelsOfOnePublication == DashboardSpec => []PanelOfOnePublication
<1>1. DInv => PanelOfOnePublication
  <2> SUFFICES ASSUME DInv PROVE PanelOfOnePublication
    OBVIOUS
  <2>1. reading # Nothing => Cardinality(reading.seen) <= 1
    <3> SUFFICES ASSUME reading # Nothing PROVE Cardinality(reading.seen) <= 1
      OBVIOUS
    <3>1. CASE reading.seen # {}
      <4>1. reading.seen = {Shown}
        BY <3>1 DEF DInv, ReadingInv
      <4>2. Cardinality(reading.seen) = 1
        BY <4>1, FS_Singleton
      <4>3. QED
        BY <4>2
    <3>2. CASE reading.seen = {}
      <4>1. Cardinality(reading.seen) = 0
        BY <3>2, FS_EmptySet
      <4>2. QED
        BY <4>1
    <3>3. QED
      BY <3>1, <3>2
  <2>2. QED
    BY <2>1 DEF DInv, CachedInv, PanelOfOnePublication
<1>2. QED
  BY <1>1, AlwaysDInv, PTL

(* No panel has shown a batch newer than the one the views select now.     *)
THEOREM PanelsNeverAhead == DashboardSpec => []PanelNeverAhead
<1>1. DInv => PanelNeverAhead
  <2> SUFFICES ASSUME DInv, NEW p \in Panels, cached[p] # Nothing, NEW c \in cached[p]
               PROVE  Shown # Nothing /\ c.batch <= Shown.batch
    BY DEF PanelNeverAhead
  <2>1. PICK i \in DOMAIN published : c = published[i]
    BY DEF DInv, CachedInv, Recorded
  <2>2. published \in Seq(Contexts) /\ Len(published) \in DOMAIN published
        /\ i <= Len(published) /\ published # <<>>
    BY <2>1 DEF DInv, IInv, TypeOK
  <2>3. Shown = published[Len(published)] /\ Shown \in Contexts
    BY <2>2 DEF DInv, IInv, RecordMatchesViews, Shown, Views
  <2>4. QED
    BY <2>1, <2>2, <2>3 DEF DInv, IInv, PublishedInOrder
<1>2. QED
  BY <1>1, AlwaysDInv, PTL
=============================================================================
