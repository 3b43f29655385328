-------------------------- MODULE PublicationProofs --------------------------
(* What every implementation of Publication inherits, for any contexts.    *)
EXTENDS Publication, TLAPS

(* The types and the relation of record and views hold in every step.      *)
LEMMA NeverAheadInductive ==
    ASSUME ContextsAreBatches
    PROVE  /\ Init => TypeOK /\ RecordNeverAhead
           /\ TypeOK /\ RecordNeverAhead /\ [Next]_vars => TypeOK' /\ RecordNeverAhead'
<1>1. Init => TypeOK /\ RecordNeverAhead
  BY DEF Init, TypeOK, RecordNeverAhead
<1>2. ASSUME TypeOK, RecordNeverAhead, [Next]_vars
      PROVE  TypeOK' /\ RecordNeverAhead'
  <2>1. CASE Audit \/ Lapse \/ \E c \in Contexts : Grant(c)
    BY <1>2, <2>1 DEF Audit, Lapse, Grant, TypeOK, RecordNeverAhead
  <2>2. ASSUME NEW c \in Contexts, Show(c)
        PROVE  TypeOK' /\ RecordNeverAhead'
    BY <1>2, <2>2 DEF Show, NothingNewer, TypeOK, RecordNeverAhead
  <2>3. ASSUME NEW c \in Contexts, Record(c)
        PROVE  TypeOK' /\ RecordNeverAhead'
    <3>1. c.batch \in Nat
      BY DEF ContextsAreBatches
    <3>2. QED
      BY <1>2, <2>3, <3>1 DEF Record, TypeOK, RecordNeverAhead
  <2>4. ASSUME NEW c \in Contexts, Publish(c)
        PROVE  TypeOK' /\ RecordNeverAhead'
    <3>1. c.batch \in Nat
      BY DEF ContextsAreBatches
    <3>2. QED
      BY <1>2, <2>4, <3>1 DEF Publish, NothingNewer, TypeOK, RecordNeverAhead
  <2>5. CASE UNCHANGED vars
    BY <1>2, <2>5 DEF vars, TypeOK, RecordNeverAhead
  <2>6. QED
    BY <1>2, <2>1, <2>2, <2>3, <2>4, <2>5 DEF Next
<1>3. QED
  BY <1>1, <1>2

(* The record is never ahead of the views: every recorded batch is at most *)
(* the batch on show, between any two steps of any publication.            *)
THEOREM PublicationNeverAhead ==
    ASSUME ContextsAreBatches PROVE Spec => []RecordNeverAhead
<1>1. QED
  BY NeverAheadInductive, PTL DEF Spec

(* A recorded publication is replaced by the same or a newer batch only.   *)
THEOREM PublicationNeverRegresses ==
    ASSUME ContextsAreBatches PROVE Spec => RecordedNeverRegresses
<1>1. TypeOK /\ [Next]_vars => [(shown \in recorded) => shown.batch <= (shown.batch)']_shown
  <2>1. SUFFICES ASSUME TypeOK, [Next]_vars, shown' # shown, shown \in recorded
                 PROVE  shown.batch <= (shown.batch)'
    OBVIOUS
  <2>2. PICK c \in Contexts : Show(c) \/ Publish(c)
    BY <2>1 DEF Next, vars, Audit, Lapse, Grant, Record
  <2>3. NothingNewer(c) /\ shown' = c
    BY <2>2 DEF Show, Publish
  <2>4. QED
    BY <2>1, <2>3 DEF NothingNewer
<1>2. QED
  BY <1>1, NeverAheadInductive, PTL DEF Spec, RecordedNeverRegresses
=============================================================================
