-------------------------- MODULE CurrentStateProofs --------------------------
(***************************************************************************)
(* The fold of build_current_state and the window of Spark's snapshot      *)
(* choose the same event per key, for any set of events and any order of   *)
(* arrival.  It rests on source_order being a strict total order on Kafka  *)
(* positions.                                                              *)
(***************************************************************************)
EXTENDS CurrentState, TLAPS

USE EventsAssumption

LEMMA LaterIsStrictOrder ==
    ASSUME NEW e \in Events, NEW f \in Events, NEW g \in Events
    PROVE  /\ e = f \/ Later(e, f) \/ Later(f, e)
           /\ ~(Later(e, f) /\ Later(f, e))
           /\ Later(e, f) /\ Later(f, g) => Later(e, g)
<1>1. \A d \in {e, f, g} :
        d.lsn \in Nat /\ d.tx \in Nat /\ d.partition \in Nat /\ d.offset \in Nat
  OBVIOUS
<1>2. e.partition = f.partition /\ e.offset = f.offset => e = f
  OBVIOUS
<1>3. e = f \/ Later(e, f) \/ Later(f, e)
  BY <1>1, <1>2 DEF Later
<1>4. ~(Later(e, f) /\ Later(f, e))
  BY <1>1 DEF Later
<1>5. Later(e, f) /\ Later(f, g) => Later(e, g)
  BY <1>1 DEF Later
<1>6. QED
  BY <1>3, <1>4, <1>5

(* The dictionary holds, per key, the candidate that comes after all the   *)
(* other candidates.                                                       *)
HoldsLast(k) ==
    IF latest[k] = None THEN Candidates(k) = {}
    ELSE /\ latest[k] \in Candidates(k)
         /\ \A f \in Candidates(k) : f = latest[k] \/ Later(latest[k], f)

IInv == TypeOK /\ \A k \in Keys : HoldsLast(k)

LEMMA InitIInv == Init => IInv
BY DEF Init, IInv, TypeOK, HoldsLast, Candidates

LEMMA NextIInv == IInv /\ [Next]_vars => IInv'
<1> SUFFICES ASSUME IInv, [Next]_vars PROVE IInv'
  OBVIOUS
<1> USE DEF IInv
<1>1. ASSUME NEW e \in Events, Skip(e)
      PROVE  IInv'
  <2>1. \A k \in Keys : Candidates(k)' = Candidates(k)
    BY <1>1 DEF Skip, Candidates
  <2>2. TypeOK'
    BY <1>1 DEF Skip, TypeOK
  <2>3. QED
    BY <1>1, <2>1, <2>2 DEF Skip, HoldsLast
<1>2. ASSUME NEW e \in Events, Fold(e)
      PROVE  IInv'
  <2>1. e.key \in Keys /\ latest \in [Keys -> Events \cup {None}] /\ seen \subseteq Events
    BY DEF Keys, TypeOK
  <2>2. TypeOK'
    BY <1>2, <2>1 DEF Fold, TypeOK
  <2>3. ASSUME NEW k \in Keys, k # e.key
        PROVE  HoldsLast(k)'
    <3>1. Candidates(k)' = Candidates(k) /\ latest'[k] = latest[k]
      BY <1>2, <2>1, <2>3 DEF Fold, Candidates
    <3>2. QED
      BY <3>1 DEF HoldsLast
  <2>4. Candidates(e.key)' = Candidates(e.key) \cup {e}
    BY <1>2 DEF Fold, Candidates
  <2>5. Candidates(e.key) \subseteq Events
    BY <2>1 DEF Candidates
  <2>6. CASE Replaces(e, latest[e.key])
    <3>1. latest'[e.key] = e
      BY <1>2, <2>1, <2>6 DEF Fold
    <3>2. \A f \in Candidates(e.key) : f = e \/ Later(e, f)
      BY <2>1, <2>5, <2>6, LaterIsStrictOrder DEF HoldsLast, Replaces
    <3>3. HoldsLast(e.key)'
      BY <2>4, <3>1, <3>2 DEF HoldsLast
    <3>4. QED
      BY <2>2, <2>3, <3>3
  <2>7. CASE ~Replaces(e, latest[e.key])
    <3>1. latest'[e.key] = latest[e.key] /\ latest[e.key] \in Events
      BY <1>2, <2>1, <2>7 DEF Fold, Replaces
    <3>2. e = latest[e.key] \/ Later(latest[e.key], e)
      BY <2>7, <3>1, LaterIsStrictOrder DEF Replaces
    <3>3. HoldsLast(e.key)'
      BY <2>1, <2>4, <3>1, <3>2 DEF HoldsLast
    <3>4. QED
      BY <2>2, <2>3, <3>3
  <2>8. QED
    BY <2>6, <2>7
<1>3. CASE UNCHANGED vars
  BY <1>3 DEF vars, TypeOK, HoldsLast, Candidates
<1>4. QED
  BY <1>1, <1>2, <1>3 DEF Next

LEMMA AlwaysIInv == Spec => []IInv
BY InitIInv, NextIInv, PTL DEF Spec

(* The fold keeps its types.                                               *)
THEOREM CurrentStateTypeCorrect == Spec => []TypeOK
<1>1. IInv => TypeOK
  BY DEF IInv
<1>2. QED
  BY <1>1, AlwaysIInv, PTL

LEMMA HeldIsRankOne == IInv => FoldRanksFirst
<1> SUFFICES ASSUME IInv, NEW k \in Keys
             PROVE  RankOne(k) = IF latest[k] = None THEN {} ELSE {latest[k]}
  BY DEF FoldRanksFirst
<1>1. HoldsLast(k) /\ Candidates(k) \subseteq Events
  BY DEF IInv, TypeOK, Candidates
<1>2. CASE latest[k] = None
  BY <1>1, <1>2 DEF HoldsLast, RankOne, Latest
<1>3. CASE latest[k] # None
  <2>1. /\ latest[k] \in Candidates(k)
        /\ \A f \in Candidates(k) : f = latest[k] \/ Later(latest[k], f)
    BY <1>1, <1>3 DEF HoldsLast
  <2>2. \A f \in Candidates(k) : ~Later(f, latest[k])
    BY <1>1, <2>1, LaterIsStrictOrder
  <2>3. QED
    BY <1>3, <2>1, <2>2 DEF RankOne, Latest
<1>4. QED
  BY <1>2, <1>3

(* Whatever the order of arrival, duplicates included, the fold keeps for  *)
(* each key the event that Spark's window ranks first.                     *)
THEOREM CurrentStateRanksFirst == Spec => []FoldRanksFirst
BY AlwaysIInv, HeldIsRankOne, PTL

(* So both implementations of the current state return the same rows.      *)
THEOREM CurrentStatesAgree == Spec => []StatesAgree
<1>1. IInv => StatesAgree
  <2> SUFFICES ASSUME IInv PROVE FoldedState = RankedState
    BY DEF StatesAgree
  <2>1. \A k \in Keys : RankOne(k) = IF latest[k] = None THEN {} ELSE {latest[k]}
    BY HeldIsRankOne DEF FoldRanksFirst
  <2>2. QED
    BY <2>1 DEF FoldedState, RankedState
<1>2. QED
  BY <1>1, AlwaysIInv, PTL
=============================================================================
