-------------------------------- MODULE Lifecycle -----------------------------
(***************************************************************************)
(* The two reconcilers joined: a SplitsPlacer, the Split it creates, and   *)
(* the Deployments and values config maps made for the Split.  Each names  *)
(* its owner by uid (SetControllerReference) but is found again by name    *)
(* alone; neither reconciler has a finalizer, and the garbage collector    *)
(* removes what has lost its owner while they run.  Objects of one name    *)
(* come one after the other, so uids are numbers.                          *)
(*                                                                         *)
(* Addresses and pods are in SplitController, positions and versions in    *)
(* SplitsPlacer.  A run made from a cache that still shows a deleted       *)
(* object is here one that began before the deletion.  The template config *)
(* maps have no owner and stay.                                            *)
(***************************************************************************)
EXTENDS Naturals, FiniteSets

CONSTANTS
  Pieces,          \* those of a Split: "cu", "du" and "ru", or fewer
  MaxPlacers,      \* bound: SplitsPlacers of the name
  MaxSplits,       \* bound: Splits of the name
  MaxUserSplits,   \* bound: Splits that users create or delete themselves
  MaxAborts        \* bound: runs of either reconciler cut short

ASSUME PiecesAssumption == "cu" \in Pieces
ASSUME BoundAssumption ==
  MaxPlacers \in Nat /\ MaxSplits \in Nat /\ MaxUserSplits \in Nat /\ MaxAborts \in Nat

Objects == {"values", "deployment"} \X Pieces

Nobody == 0        \* no owner
Gone == 0          \* the uid of what does not exist

VARIABLES
  placer,          \* the SplitsPlacer at the server: [uid, state]
  split,           \* the Split at the server: [uid, owner]
  owner,           \* the Split that owns each object there is
  coreIP,          \* the Split whose CoreIP the CU's values hold, or held last
  placing,         \* where the SplitsPlacer's Reconcile is
  placerInHand,    \* and the uid of the object it got
  queued,          \* the Split's key is in the work queue
  pc,              \* where the Split's Reconcile is
  obj,             \* and the uid of the Split it got
  todo,            \* the pieces its loop has still to visit
  piece,           \* the piece it is at
  found,           \* the config map of that piece was found
  placers, splits, \* the SplitsPlacers and Splits so far
  userSplits, aborts

placerVars == <<placer, placing, placerInHand>>
splitVars == <<queued, pc, obj, todo, piece, found>>
made == <<owner, coreIP>>
bounds == <<placers, splits, userSplits, aborts>>
vars == <<placerVars, split, made, splitVars, bounds>>

Abort == aborts < MaxAborts /\ aborts' = aborts + 1

-------------------------------------------------------------------------------
(* SplitsPlacerReconciler.  An object with a state is left alone. *)
GetPlacer ==
  /\ placing = "idle"
  /\ placer.uid # Gone
  /\ placer.state = "New"
  /\ placing' = "splits"
  /\ placerInHand' = placer.uid
  /\ UNCHANGED <<placer, split, made, splitVars, bounds>>

(* The watch queues the key of a new Split. *)
NewSplit(byWhom) ==
  /\ split.uid = Gone
  /\ splits < MaxSplits
  /\ splits' = splits + 1
  /\ split' = [uid |-> splits + 1, owner |-> byWhom]
  /\ queued' = TRUE

(* syncSplits: a Split of the name is good, whosever it is. *)
SyncSplits ==
  /\ placing = "splits"
  /\ placing' = "finish"
  /\ \/ NewSplit(placerInHand)
     \/ split.uid # Gone /\ UNCHANGED <<split, queued, splits>>
  /\ UNCHANGED <<placer, placerInHand, made, pc, obj, todo, piece, found,
                 placers, userSplits, aborts>>

(* Update and updateStatus: refused when the SplitsPlacer in hand has gone. *)
Finish ==
  /\ placing = "finish"
  /\ placing' = "idle"
  /\ placerInHand' = Gone
  /\ placer' = IF placer.uid = placerInHand THEN [placer EXCEPT !.state = "Finished"] ELSE placer
  /\ UNCHANGED <<split, made, splitVars, bounds>>

(* The manager stops or a call fails, and the state may say so. *)
PlacingFails ==
  /\ placing # "idle"
  /\ Abort
  /\ placing' = "idle"
  /\ placerInHand' = Gone
  /\ \/ UNCHANGED placer
     \/ placer.uid = placerInHand /\ placer' = [placer EXCEPT !.state = "Error"]
  /\ UNCHANGED <<split, made, splitVars, placers, splits, userSplits>>

PlacerReconcile == GetPlacer \/ SyncSplits \/ Finish \/ PlacingFails

-------------------------------------------------------------------------------
(* SplitReconciler.  Reconcile returns; with an error, or an answer that asks
   for it, the key comes back. *)
Return(again) ==
  /\ pc' = "idle" /\ obj' = Gone /\ todo' = {} /\ piece' = "cu" /\ found' = FALSE
  /\ queued' = (queued \/ again)

(* A Split that is not found is no error. *)
GetSplit ==
  /\ pc = "idle"
  /\ queued
  /\ queued' = FALSE
  /\ obj' = split.uid
  /\ IF split.uid = Gone THEN pc' = "idle" /\ todo' = {} ELSE pc' = "values" /\ todo' = Pieces
  /\ UNCHANGED <<placerVars, split, made, piece, found, bounds>>

(* Mutant: a piece is not taken off those to visit. *)
GetValuesAgain ==
  /\ pc = "values"
  /\ \E c \in todo : piece' = c /\ todo' = todo /\ found' = (<<"values", c>> \in DOMAIN owner)
  /\ pc' = "content"
  /\ UNCHANGED <<placerVars, split, made, queued, obj, bounds>>

(* syncValuesConfigMap gets the config map of the next piece, and then looks up
   the pods. *)
GetValues ==
  /\ pc = "values"
  /\ \E c \in todo :
       /\ piece' = c
       /\ todo' = todo \ {c}
       /\ found' = (<<"values", c>> \in DOMAIN owner)
  /\ pc' = "content"
  /\ UNCHANGED <<placerVars, split, made, queued, obj, bounds>>

(* Mutant: the owner reference is forgotten. *)
CreatedUnowned(o) ==
  owner' = [p \in DOMAIN owner \cup {o} |-> IF p = o THEN Nobody ELSE owner[p]]

(* What is created belongs to the Split in hand. *)
Created(o) ==
  owner' = [p \in DOMAIN owner \cup {o} |-> IF p = o THEN obj ELSE owner[p]]

CoreIPWritten == coreIP' = IF piece = "cu" THEN obj ELSE coreIP

ValuesDone ==
  /\ pc = "content"
  /\ pc' = "values"
  /\ UNCHANGED <<placerVars, split, queued, obj, todo, piece, found, bounds>>

CreateValues == ~found /\ Created(<<"values", piece>>) /\ CoreIPWritten /\ ValuesDone

(* Only the content is updated: the owner stays who it was. *)
UpdateValues ==
  /\ found
  /\ <<"values", piece>> \in DOMAIN owner
  /\ CoreIPWritten
  /\ ValuesDone
  /\ UNCHANGED owner

(* The config map held these values when it was read. *)
LeaveValues ==
  /\ found
  /\ piece = "cu" => coreIP = obj
  /\ ValuesDone
  /\ UNCHANGED made

(* The config map has been collected since it was read: there is nothing to
   update. *)
UpdateCollected ==
  /\ pc = "content"
  /\ found
  /\ <<"values", piece>> \notin DOMAIN owner
  /\ Return(TRUE)
  /\ UNCHANGED <<placerVars, split, made, bounds>>

ValuesSynced ==
  /\ pc = "values"
  /\ todo = {}
  /\ pc' = "deployments"
  /\ todo' = Pieces
  /\ UNCHANGED <<placerVars, split, made, queued, obj, piece, found, bounds>>

(* syncDeployments, one iteration: a Deployment of the name is left alone. *)
SyncDeployment ==
  /\ pc = "deployments"
  /\ \E c \in todo :
       /\ todo' = todo \ {c}
       /\ IF <<"deployment", c>> \in DOMAIN owner THEN UNCHANGED owner
          ELSE Created(<<"deployment", c>>)
  /\ UNCHANGED <<placerVars, split, coreIP, queued, pc, obj, piece, found, bounds>>

(* Mutant: a success does not ask for another call. *)
SyncStatusOnce ==
  /\ pc = "deployments"
  /\ todo = {}
  /\ Return(split.uid # obj)
  /\ UNCHANGED <<placerVars, split, made, bounds>>

(* syncStatus: written, or refused for a Split that has gone; either way there
   is another call, after resyncPeriod or sooner. *)
SyncStatus ==
  /\ pc = "deployments"
  /\ todo = {}
  /\ Return(TRUE)
  /\ UNCHANGED <<placerVars, split, made, bounds>>

(* A call fails, a pod of an earlier Deployment is still listed, or the manager
   stops and finds the Splits there are when it starts. *)
SyncFails ==
  /\ pc # "idle"
  /\ Abort
  /\ Return(TRUE)
  /\ UNCHANGED <<placerVars, split, made, placers, splits, userSplits>>

SplitReconcile ==
  \/ GetSplit \/ GetValues \/ CreateValues \/ UpdateValues \/ LeaveValues \/ UpdateCollected
  \/ ValuesSynced \/ SyncDeployment \/ SyncStatus \/ SyncFails

-------------------------------------------------------------------------------
(* The garbage collector. *)
CollectSplit ==
  /\ split.uid # Gone
  /\ split.owner \notin {Nobody, placer.uid}
  /\ split' = [uid |-> Gone, owner |-> Nobody]
  /\ UNCHANGED <<placerVars, made, splitVars, bounds>>

Collect(o) ==
  /\ o \in DOMAIN owner
  /\ owner[o] \notin {Nobody, split.uid}
  /\ owner' = [p \in DOMAIN owner \ {o} |-> owner[p]]
  /\ UNCHANGED <<placerVars, split, coreIP, splitVars, bounds>>

(* Users. *)
CreatePlacer ==
  /\ placer.uid = Gone
  /\ placers < MaxPlacers
  /\ placers' = placers + 1
  /\ placer' = [uid |-> placers + 1, state |-> "New"]
  /\ UNCHANGED <<split, made, placing, placerInHand, splitVars, splits, userSplits, aborts>>

DeletePlacer ==
  /\ placer.uid # Gone
  /\ placer' = [uid |-> Gone, state |-> "New"]
  /\ UNCHANGED <<split, made, placing, placerInHand, splitVars, bounds>>

CreateSplit ==
  /\ userSplits < MaxUserSplits
  /\ userSplits' = userSplits + 1
  /\ NewSplit(Nobody)
  /\ UNCHANGED <<placerVars, made, pc, obj, todo, piece, found, placers, aborts>>

DeleteSplit ==
  /\ userSplits < MaxUserSplits
  /\ userSplits' = userSplits + 1
  /\ split.uid # Gone
  /\ split' = [uid |-> Gone, owner |-> Nobody]
  /\ UNCHANGED <<placerVars, made, splitVars, placers, splits, aborts>>

Users == CreatePlacer \/ DeletePlacer \/ CreateSplit \/ DeleteSplit

Init ==
  /\ placer = [uid |-> Gone, state |-> "New"]
  /\ split = [uid |-> Gone, owner |-> Nobody]
  /\ owner = <<>> /\ coreIP = Gone
  /\ placing = "idle" /\ placerInHand = Gone
  /\ queued = FALSE
  /\ pc = "idle" /\ obj = Gone /\ todo = {} /\ piece = "cu" /\ found = FALSE
  /\ placers = 0 /\ splits = 0 /\ userSplits = 0 /\ aborts = 0

Next ==
  \/ PlacerReconcile \/ SplitReconcile
  \/ CollectSplit \/ (\E o \in Objects : Collect(o)) \/ Users

(* Both workers run, the informer resyncs SplitsPlacers, and the garbage
   collector gets to every object.  Nobody need create or delete anything. *)
Spec ==
  /\ Init /\ [][Next]_vars
  /\ WF_vars(PlacerReconcile) /\ WF_vars(SplitReconcile)
  /\ WF_vars(CollectSplit) /\ \A o \in Objects : WF_vars(Collect(o))

-------------------------------------------------------------------------------
TypeOK ==
  /\ placer \in [uid : 0..placers, state : {"New", "Finished", "Error"}]
  /\ split \in [uid : 0..splits, owner : 0..placers]
  /\ DOMAIN owner \subseteq Objects /\ \A o \in DOMAIN owner : owner[o] \in 0..splits
  /\ coreIP \in 0..splits
  /\ placing \in {"idle", "splits", "finish"} /\ placerInHand \in 0..placers
  /\ queued \in BOOLEAN /\ found \in BOOLEAN
  /\ pc \in {"idle", "values", "content", "deployments"}
  /\ obj \in 0..splits /\ (obj = Gone <=> pc = "idle")
  /\ todo \subseteq Pieces /\ piece \in Pieces /\ (pc = "content" => piece \notin todo)
  /\ placers \in 0..MaxPlacers /\ splits \in 0..MaxSplits
  /\ userSplits \in 0..MaxUserSplits /\ aborts \in 0..MaxAborts

(* A Split is served in the end, whatever was left of one of its name when it
   was created: its reconciler takes what it finds for its own, writes into
   config maps about to be collected and may create for a Split that has gone,
   yet at last there are Deployments and values of its own, with its CoreIP
   (split_controller.go:101, 161-190, 268-316). *)
SplitIsServed ==
  <>[](split.uid # Gone =>
         /\ \A o \in Objects : o \in DOMAIN owner /\ owner[o] = split.uid
         /\ coreIP = split.uid)

(* Nothing is left in the end of what has been deleted, although a run that goes
   on after the deletion creates more: no Split without its SplitsPlacer, unless
   a user made it, and no Deployment or config map without its Split
   (splitsplacer_controller.go:198, split_controller.go:179, 302). *)
NothingLeft ==
  <>[](/\ split.owner \in {Nobody, placer.uid}
       /\ \A o \in DOMAIN owner : owner[o] # Nobody /\ owner[o] = split.uid)

(* splitsplacer_types.go:60-61 says that a Split will be created from a
   ChainPosition: while users leave the Splits alone, the Split of a SplitsPlacer
   that is Finished does not go away. *)
FinishedHasItsSplit ==
  placer.uid # Gone /\ placer.state = "Finished" => split.uid # Gone
===============================================================================
