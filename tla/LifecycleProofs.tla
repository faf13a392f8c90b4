---------------------------- MODULE LifecycleProofs ---------------------------
(***************************************************************************)
(* Proofs about Lifecycle, for any pieces and any number of SplitsPlacers, *)
(* Splits and runs cut short.                                              *)
(***************************************************************************)
EXTENDS Lifecycle, TLAPS

(* The types hold initially. *)
LEMMA TypeInit == Init => TypeOK
<1> SUFFICES ASSUME Init PROVE TypeOK
  OBVIOUS
<1>1. 0 \in 0..MaxPlacers /\ 0 \in 0..MaxSplits /\ 0 \in 0..MaxUserSplits /\ 0 \in 0..MaxAborts
  BY BoundAssumption
<1>2. /\ placer \in [uid : 0..placers, state : {"New", "Finished", "Error"}]
      /\ split \in [uid : 0..splits, owner : 0..placers]
      /\ coreIP \in 0..splits /\ placerInHand \in 0..placers /\ obj \in 0..splits
  BY DEF Init, Gone, Nobody
<1>3. DOMAIN owner = {}
  BY DEF Init
<1> QED BY <1>1, <1>2, <1>3, PiecesAssumption DEF Init, TypeOK, Gone

(* A Split that is created has a uid of its own and an owner there has been. *)
LEMMA NewSplitTyped ==
  ASSUME TypeOK, NEW byWhom \in 0..placers, NewSplit(byWhom)
  PROVE  /\ split' \in [uid : 0..splits', owner : 0..placers]
         /\ splits' \in 0..MaxSplits /\ splits' = splits + 1 /\ queued' = TRUE
BY BoundAssumption DEF TypeOK, NewSplit

(* Nothing is lost from the types when there are more uids. *)
LEMMA MoreUids ==
  ASSUME TypeOK, splits' \in {splits, splits + 1}, placers' \in {placers, placers + 1}
  PROVE  /\ 0..splits \subseteq 0..splits' /\ 0..placers \subseteq 0..placers'
         /\ splits \in Nat /\ placers \in Nat /\ splits' \in Nat /\ placers' \in Nat
BY DEF TypeOK

(* The steps of the SplitsPlacer's reconciler keep the types. *)
LEMMA PlacerTyped == TypeOK /\ PlacerReconcile => TypeOK'
<1> SUFFICES ASSUME TypeOK, PlacerReconcile PROVE TypeOK'
  OBVIOUS
<1> USE DEF TypeOK, placerVars, splitVars, made, bounds
<1>1. CASE GetPlacer
  BY <1>1 DEF GetPlacer
<1>2. CASE SyncSplits
  <2>1. CASE NewSplit(placerInHand)
    <3>1. /\ split' \in [uid : 0..splits', owner : 0..placers]
          /\ splits' \in 0..MaxSplits /\ splits' = splits + 1 /\ queued' = TRUE
      BY <2>1, NewSplitTyped
    <3>2. UNCHANGED <<placer, placerInHand, made, pc, obj, todo, piece, found,
                      placers, userSplits, aborts>> /\ placing' = "finish"
      BY <1>2 DEF SyncSplits
    <3>3. 0..splits \subseteq 0..splits'
      BY <3>1, <3>2, MoreUids
    <3> QED BY <3>1, <3>2, <3>3
  <2>2. CASE UNCHANGED <<split, queued, splits>>
    BY <1>2, <2>2 DEF SyncSplits
  <2> QED BY <1>2, <2>1, <2>2 DEF SyncSplits
<1>3. CASE Finish
  BY <1>3 DEF Finish, Gone
<1>4. CASE PlacingFails
  BY <1>4, BoundAssumption DEF PlacingFails, Abort, Gone
<1> QED BY <1>1, <1>2, <1>3, <1>4 DEF PlacerReconcile

(* What is created belongs to the Split in hand, which there has been. *)
LEMMA CreatedTyped ==
  ASSUME TypeOK, NEW o \in Objects, Created(o)
  PROVE  DOMAIN owner' \subseteq Objects /\ \A p \in DOMAIN owner' : owner'[p] \in 0..splits
BY DEF TypeOK, Created

(* Reconcile that is called again has let go of its Split. *)
LEMMA ReturnTyped ==
  Return(TRUE) => /\ pc' = "idle" /\ obj' = Gone /\ todo' = {} /\ piece' \in Pieces
                  /\ found' \in BOOLEAN /\ queued' \in BOOLEAN
<1>1. Return(TRUE) => queued' = (queued \/ TRUE)
  BY DEF Return
<1>2. queued \/ TRUE
  OBVIOUS
<1>3. Return(TRUE) => queued' \in BOOLEAN
  BY <1>1, <1>2
<1>4. Return(TRUE) => found' \in BOOLEAN
  BY DEF Return
<1> QED BY <1>3, <1>4, PiecesAssumption DEF Return

(* The steps of the Split's reconciler keep the types. *)
LEMMA SplitTyped == TypeOK /\ SplitReconcile => TypeOK'
<1> SUFFICES ASSUME TypeOK, SplitReconcile PROVE TypeOK'
  OBVIOUS
<1> USE DEF placerVars, made, bounds
<1>1. CASE GetSplit
  BY <1>1 DEF GetSplit, TypeOK
<1>2. CASE GetValues
  BY <1>2 DEF GetValues, TypeOK
<1>3. <<"values", piece>> \in Objects
  BY DEF TypeOK, Objects
<1>4. CoreIPWritten => coreIP' \in 0..splits
  BY DEF TypeOK, CoreIPWritten
<1>5. CASE CreateValues
  BY <1>3, <1>4, <1>5, CreatedTyped DEF CreateValues, ValuesDone, TypeOK
<1>6. CASE UpdateValues
  BY <1>4, <1>6 DEF UpdateValues, ValuesDone, TypeOK
<1>7. CASE LeaveValues
  BY <1>7 DEF LeaveValues, ValuesDone, TypeOK
<1>8. CASE UpdateCollected \/ SyncStatus
  <2>1. /\ Return(TRUE)
        /\ UNCHANGED <<placer, placing, placerInHand, split, owner, coreIP, placers, splits,
                       userSplits, aborts>>
    BY <1>8 DEF UpdateCollected, SyncStatus
  <2> QED BY <2>1, ReturnTyped DEF TypeOK, Gone
<1>9. CASE ValuesSynced
  BY <1>9 DEF ValuesSynced, TypeOK
<1>10. CASE SyncDeployment
  <2>1. PICK c \in todo :
          /\ todo' = todo \ {c}
          /\ owner' = owner \/ Created(<<"deployment", c>>)
    BY <1>10 DEF SyncDeployment
  <2>2. <<"deployment", c>> \in Objects
    BY DEF TypeOK, Objects
  <2>3. DOMAIN owner' \subseteq Objects /\ \A p \in DOMAIN owner' : owner'[p] \in 0..splits
    BY <2>1, <2>2, CreatedTyped DEF TypeOK
  <2> QED BY <1>10, <2>1, <2>3 DEF SyncDeployment, TypeOK
<1>11. CASE SyncFails
  <2>1. /\ Return(TRUE)
        /\ UNCHANGED <<placer, placing, placerInHand, split, owner, coreIP, placers, splits,
                       userSplits>>
    BY <1>11 DEF SyncFails
  <2>2. aborts' \in 0..MaxAborts
    BY <1>11, BoundAssumption DEF SyncFails, Abort, TypeOK
  <2> QED BY <2>1, <2>2, ReturnTyped DEF TypeOK, Gone
<1> QED BY <1>1, <1>2, <1>5, <1>6, <1>7, <1>8, <1>9, <1>10, <1>11 DEF SplitReconcile

(* So do those of the garbage collector and of users. *)
LEMMA OthersTyped ==
  TypeOK /\ (CollectSplit \/ (\E o \in Objects : Collect(o)) \/ Users) => TypeOK'
<1> SUFFICES ASSUME TypeOK, CollectSplit \/ (\E o \in Objects : Collect(o)) \/ Users
             PROVE  TypeOK'
  OBVIOUS
<1> USE DEF placerVars, splitVars, made, bounds
<1>1. CASE CollectSplit
  BY <1>1 DEF CollectSplit, TypeOK, Gone, Nobody
<1>2. ASSUME NEW o \in Objects, Collect(o) PROVE TypeOK'
  BY <1>2 DEF Collect, TypeOK
<1>3. CASE CreatePlacer
  <2>1. /\ placers' = placers + 1 /\ placers' \in 0..MaxPlacers
        /\ placer' \in [uid : 0..placers', state : {"New", "Finished", "Error"}]
        /\ UNCHANGED <<split, made, placing, placerInHand, splitVars, splits, userSplits, aborts>>
    BY <1>3, BoundAssumption DEF CreatePlacer, TypeOK
  <2>2. 0..placers \subseteq 0..placers'
    BY <2>1, MoreUids
  <2> QED BY <2>1, <2>2 DEF TypeOK
<1>4. CASE DeletePlacer
  BY <1>4 DEF DeletePlacer, TypeOK, Gone
<1>5. CASE CreateSplit
  <2>1. 0 \in 0..placers /\ NewSplit(0) /\ userSplits' \in 0..MaxUserSplits
    BY <1>5, BoundAssumption DEF CreateSplit, Nobody, TypeOK
  <2>2. /\ split' \in [uid : 0..splits', owner : 0..placers]
        /\ splits' \in 0..MaxSplits /\ splits' = splits + 1 /\ queued' = TRUE
    BY <2>1, NewSplitTyped
  <2>3. UNCHANGED <<placerVars, made, pc, obj, todo, piece, found, placers, aborts>>
    BY <1>5 DEF CreateSplit
  <2>4. 0..splits \subseteq 0..splits'
    BY <2>2, <2>3, MoreUids
  <2> QED BY <2>1, <2>2, <2>3, <2>4 DEF TypeOK
<1>6. CASE DeleteSplit
  BY <1>6, BoundAssumption DEF DeleteSplit, TypeOK, Gone, Nobody
<1> QED BY <1>1, <1>2, <1>3, <1>4, <1>5, <1>6 DEF Users

(* The types hold whatever is created, deleted and collected while the two
   reconcilers run: a run always has a Split in hand that there has been. *)
THEOREM TypeCorrect == Spec => []TypeOK
<1>1. TypeOK /\ [Next]_vars => TypeOK'
  <2>1. TypeOK /\ UNCHANGED vars => TypeOK'
    BY DEF TypeOK, vars, placerVars, splitVars, made, bounds
  <2> QED BY <2>1, PlacerTyped, SplitTyped, OthersTyped DEF Next
<1> QED BY <1>1, TypeInit, PTL DEF Spec
===============================================================================
