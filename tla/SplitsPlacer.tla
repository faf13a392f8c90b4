------------------------------ MODULE SplitsPlacer ----------------------------
(***************************************************************************)
(* SplitsPlacerReconciler (controllers/splitsplacer_controller.go) for one *)
(* SplitsPlacer object: the single worker that reconciles it, the API      *)
(* server with its resource versions, the manager's caches, which lag      *)
(* behind the server, the work queue, failing calls and a manager that     *)
(* stops and starts again.                                                 *)
(*                                                                         *)
(* What Place returns is a choice among outcomes: the search and Validate  *)
(* range over maps, so two runs on the same input may place the RUs        *)
(* differently (see Placement).                                            *)
(***************************************************************************)
EXTENDS Naturals, SequencesExt

CONSTANTS
  Positions,       \* where a chain may go: a CU node, a DU node and a path
  NoPosition,      \* CUNode and DUNode empty
  InitialRUs,      \* spec.RUs as created, the position of each
  Outcomes,        \* the results Place may come to on an input, for each input:
                   \* a result gives every RU a position, or none
  Names,           \* names of Split objects
  SplitName,       \* the SplitName of each RU
  MaxFaults,       \* bound: calls to the API server that fail
  MaxCrashes,      \* bound: times the manager stops
  MaxEdits         \* bound: writes to the object by others

RUs == DOMAIN SplitName

RUsType == [RUs -> Positions \cup {NoPosition}]

ASSUME PositionAssumption == NoPosition \notin Positions
ASSUME RUsAssumption ==
  /\ SplitName \in Seq(Names)
  /\ InitialRUs \subseteq RUsType
  /\ \A results \in Outcomes : results \subseteq RUsType
ASSUME BoundAssumption == MaxFaults \in Nat /\ MaxCrashes \in Nat /\ MaxEdits \in Nat

VARIABLES
  topologyConfig,  \* spec.TopologyConfig is given
  outcomes,        \* the results Place may come to on this topology and these RUs
  placer,          \* the object at the server: [rv, rus, retrigger, state, allocated];
                   \* the state is New while Status.State is empty
  splits,          \* the Split objects at the server: name to position
  cache,           \* the object in the manager's cache
  cachedSplits,    \* the names of the Splits in the manager's cache
  queued,          \* the object's key is in the work queue
  pc,              \* where Reconcile is
  obj,             \* the object in its hands
  k,               \* the RU syncSplits has come to
  faults, crashes, edits

input == <<topologyConfig, outcomes>>
server == <<placer, splits>>
caches == <<cache, cachedSplits>>
bounds == <<faults, crashes, edits>>
vars == <<input, server, caches, queued, pc, obj, k, bounds>>

Allocated(rus) == Cardinality({r \in RUs : rus[r] # NoPosition})

-------------------------------------------------------------------------------
(* Reconcile returns: with an error the key is queued again. *)
Return(err) == pc' = "idle" /\ queued' = (queued \/ err)

(* A call fails without reaching the server, or its answer is lost. *)
Fault == faults < MaxFaults /\ faults' = faults + 1

(* Mutant: an object with positions is left alone too. *)
GetObjectUnplaced ==
  /\ pc = "idle"
  /\ queued
  /\ queued' = FALSE
  /\ obj' = cache
  /\ pc' = IF cache.state # "New" \/ Allocated(cache.rus) > 0 THEN "idle" ELSE "topology"
  /\ UNCHANGED <<input, server, caches, k, bounds>>

(* A worker takes the key off the queue and Reconcile reads the cache.  An
   object with a state is left alone. *)
GetObject ==
  /\ pc = "idle"
  /\ queued
  /\ queued' = FALSE
  /\ obj' = cache
  /\ pc' = IF cache.state # "New" THEN "idle" ELSE "topology"
  /\ UNCHANGED <<input, server, caches, k, bounds>>

(* syncTopology without a topology. *)
SkipTopology ==
  /\ pc = "topology"
  /\ ~topologyConfig
  /\ pc' = "splits"
  /\ k' = 1
  /\ UNCHANGED <<input, server, caches, queued, obj, bounds>>

(* Mutant: the RUs are counted before they are placed. *)
PlaceCountingFirst ==
  /\ pc = "topology"
  /\ topologyConfig
  /\ \E outcome \in outcomes :
       LET rus == [r \in RUs |-> IF outcome[r] = NoPosition THEN obj.rus[r] ELSE outcome[r]]
       IN  obj' = [obj EXCEPT !.rus = rus, !.allocated = Allocated(obj.rus)]
  /\ pc' = "splits"
  /\ k' = 1
  /\ UNCHANGED <<input, server, caches, queued, bounds>>

(* Mutant: the loop over the RUs starts at zero. *)
PlaceFromZero ==
  /\ pc = "topology"
  /\ topologyConfig
  /\ \E outcome \in outcomes :
       LET rus == [r \in RUs |-> IF outcome[r] = NoPosition THEN obj.rus[r] ELSE outcome[r]]
       IN  obj' = [obj EXCEPT !.rus = rus, !.allocated = Allocated(rus)]
  /\ pc' = "splits"
  /\ k' = 0
  /\ UNCHANGED <<input, server, caches, queued, bounds>>

(* syncTopology: an RU the run rejects keeps what it had; place counts the RUs
   that have a position afterwards. *)
Place ==
  /\ pc = "topology"
  /\ topologyConfig
  /\ \E outcome \in outcomes :
       LET rus == [r \in RUs |-> IF outcome[r] = NoPosition THEN obj.rus[r] ELSE outcome[r]]
       IN  obj' = [obj EXCEPT !.rus = rus, !.allocated = Allocated(rus)]
  /\ pc' = "splits"
  /\ k' = 1
  /\ UNCHANGED <<input, server, caches, queued, bounds>>

(* syncTopology fails: a config map or a node is missing or malformed, or, with
   place already counting, the RUs do not fit on their nodes. *)
TopologyFails ==
  /\ pc = "topology"
  /\ topologyConfig
  /\ obj' \in {obj, [obj EXCEPT !.allocated = Allocated(obj.rus)]}
  /\ pc' = "error"
  /\ UNCHANGED <<input, server, caches, queued, k, bounds>>

-------------------------------------------------------------------------------
(* syncSplits, one iteration: an RU without a position, or whose Split the
   cache has, is passed over. *)
SkipSplit ==
  /\ pc = "splits"
  /\ k \in RUs
  /\ obj.rus[k] = NoPosition \/ SplitName[k] \in cachedSplits
  /\ k' = k + 1
  /\ UNCHANGED <<input, server, caches, queued, pc, obj, bounds>>

Missing ==
  /\ pc = "splits"
  /\ k \in RUs
  /\ obj.rus[k] # NoPosition
  /\ SplitName[k] \notin cachedSplits

(* The server takes the new Split unless there is one of that name. *)
SplitCreated ==
  /\ SplitName[k] \notin DOMAIN splits
  /\ splits' = [name \in DOMAIN splits \cup {SplitName[k]} |->
                  IF name = SplitName[k] THEN obj.rus[k] ELSE splits[name]]

CreateSplit ==
  /\ Missing
  /\ SplitCreated
  /\ k' = k + 1
  /\ UNCHANGED <<input, placer, caches, queued, pc, obj, bounds>>

(* The cache had not heard of the Split yet. *)
SplitAlreadyExists ==
  /\ Missing
  /\ SplitName[k] \in DOMAIN splits
  /\ pc' = "error"
  /\ UNCHANGED <<input, server, caches, queued, obj, k, bounds>>

(* Mutant: a failed Create is only logged. *)
CreateFailsIgnored ==
  /\ Missing
  /\ Fault
  /\ SplitCreated \/ UNCHANGED splits
  /\ k' = k + 1
  /\ UNCHANGED <<input, placer, caches, queued, pc, obj, crashes, edits>>

CreateFails ==
  /\ Missing
  /\ Fault
  /\ SplitCreated \/ UNCHANGED splits
  /\ pc' = "error"
  /\ UNCHANGED <<input, placer, caches, queued, obj, k, crashes, edits>>

(* Mutant: the positions are not written to the object. *)
SplitsSyncedNoUpdate ==
  /\ pc = "splits"
  /\ k \notin RUs
  /\ pc' = "finish"
  /\ UNCHANGED <<input, server, caches, queued, obj, k, bounds>>

SplitsSynced ==
  /\ pc = "splits"
  /\ k \notin RUs
  /\ pc' = "update"
  /\ UNCHANGED <<input, server, caches, queued, obj, k, bounds>>

-------------------------------------------------------------------------------
(* The server refuses a write that was not made from its current version. *)
Conflict == obj.rv # placer.rv

(* An update of the object writes the spec only; one that changes nothing
   makes no new version. *)
SpecWritten ==
  placer' = IF obj.rus = placer.rus THEN placer
            ELSE [placer EXCEPT !.rv = @ + 1, !.rus = obj.rus]

(* The answer is decoded into the object: it has the new version now. *)
Update ==
  /\ pc = "update"
  /\ ~Conflict
  /\ SpecWritten
  /\ obj' = [obj EXCEPT !.rv = placer'.rv]
  /\ pc' = "finish"
  /\ UNCHANGED <<input, splits, caches, queued, k, bounds>>

UpdateFails ==
  /\ pc = "update"
  /\ \/ Conflict /\ UNCHANGED <<placer, faults>>
     \/ Fault /\ UNCHANGED placer
     \/ Fault /\ ~Conflict /\ SpecWritten
  /\ Return(TRUE)
  /\ UNCHANGED <<input, splits, caches, obj, k, crashes, edits>>

(* Mutant: the status is written whatever version it was made from. *)
UpdateStatusForced ==
  /\ pc \in {"error", "finish"}
  /\ placer' = [placer EXCEPT !.rv = @ + 1, !.allocated = obj.allocated,
                              !.state = IF pc = "error" THEN "Error" ELSE "Finished"]
  /\ Return(pc = "error")
  /\ UNCHANGED <<input, splits, caches, obj, k, bounds>>

(* updateStatus writes the status only.  Its failure is logged; after an error
   Reconcile returns that error, after a success nothing. *)
UpdateStatus ==
  /\ pc \in {"error", "finish"}
  /\ ~Conflict
  /\ placer' = [placer EXCEPT !.rv = @ + 1, !.allocated = obj.allocated,
                              !.state = IF pc = "error" THEN "Error" ELSE "Finished"]
  /\ Return(pc = "error")
  /\ UNCHANGED <<input, splits, caches, obj, k, bounds>>

UpdateStatusFails ==
  /\ pc \in {"error", "finish"}
  /\ (Conflict /\ UNCHANGED faults) \/ Fault
  /\ Return(pc = "error")
  /\ UNCHANGED <<input, server, caches, obj, k, crashes, edits>>

Reconcile ==
  \/ GetObject \/ SkipTopology \/ Place \/ TopologyFails
  \/ SkipSplit \/ CreateSplit \/ SplitAlreadyExists \/ CreateFails \/ SplitsSynced
  \/ Update \/ UpdateFails \/ UpdateStatus \/ UpdateStatusFails

-------------------------------------------------------------------------------
(* The watch brings the current version to the cache and queues the key. *)
SyncCache ==
  /\ cache # placer
  /\ cache' = placer
  /\ queued' = TRUE
  /\ UNCHANGED <<input, server, cachedSplits, pc, obj, k, bounds>>

SyncSplitCache ==
  /\ \E name \in DOMAIN splits \ cachedSplits : cachedSplits' = cachedSplits \cup {name}
  /\ UNCHANGED <<input, server, cache, queued, pc, obj, k, bounds>>

(* The informer queues every object it has from time to time. *)
Resync ==
  /\ pc = "idle"
  /\ ~queued
  /\ queued' = TRUE
  /\ UNCHANGED <<input, server, caches, pc, obj, k, bounds>>

(* The manager stops, a panic included, and starts with fresh caches. *)
Restart ==
  /\ crashes < MaxCrashes
  /\ crashes' = crashes + 1
  /\ pc' = "idle"
  /\ cache' = placer
  /\ cachedSplits' = DOMAIN splits
  /\ queued' = TRUE
  /\ UNCHANGED <<input, server, obj, k, faults, edits>>

(* Someone else writes the object: sets Retrigger, takes it back, or changes a
   label. *)
Edit ==
  /\ edits < MaxEdits
  /\ edits' = edits + 1
  /\ \E retrigger \in BOOLEAN :
       placer' = [placer EXCEPT !.rv = @ + 1, !.retrigger = retrigger]
  /\ UNCHANGED <<input, splits, caches, queued, pc, obj, k, faults, crashes>>

Init ==
  /\ topologyConfig \in BOOLEAN
  /\ outcomes \in Outcomes
  /\ \E rus \in InitialRUs :
       placer = [rv |-> 1, rus |-> rus, retrigger |-> FALSE, state |-> "New", allocated |-> 0]
  /\ splits = <<>>
  /\ cache = placer
  /\ cachedSplits = {}
  /\ queued = TRUE
  /\ pc = "idle"
  /\ obj = placer
  /\ k = 1
  /\ faults = 0 /\ crashes = 0 /\ edits = 0

Next == Reconcile \/ SyncCache \/ SyncSplitCache \/ Resync \/ Restart \/ Edit

(* The worker runs, the watches deliver, the informer resyncs. *)
Spec == /\ Init /\ [][Next]_vars
        /\ WF_vars(Reconcile) /\ WF_vars(SyncCache) /\ WF_vars(SyncSplitCache)
        /\ WF_vars(Resync)

-------------------------------------------------------------------------------
Object == [rv : Nat, rus : RUsType, retrigger : BOOLEAN,
           state : {"New", "Finished", "Error"}, allocated : 0..Len(SplitName)]

TypeOK ==
  /\ topologyConfig \in BOOLEAN /\ outcomes \in Outcomes
  /\ placer \in Object /\ cache \in Object /\ obj \in Object
  /\ DOMAIN splits \subseteq Names
  /\ \A name \in DOMAIN splits : splits[name] \in Positions
  /\ cachedSplits \subseteq DOMAIN splits
  /\ queued \in BOOLEAN
  /\ pc \in {"idle", "topology", "splits", "update", "error", "finish"}
  /\ k \in 1..Len(SplitName) + 1
  /\ faults \in 0..MaxFaults /\ crashes \in 0..MaxCrashes /\ edits \in 0..MaxEdits

(* When the object says Finished, every RU its spec gives a position has a
   Split, whatever calls failed, however often the manager restarted and
   however old the caches were (splitsplacer_controller.go:87-105, 181-211). *)
FinishedHasSplits ==
  placer.state = "Finished" =>
    \A r \in RUs : placer.rus[r] # NoPosition => SplitName[r] \in DOMAIN splits

(* When the object says Finished, status.AllocatedRUs is the number of RUs its
   spec gives a position: spec and status are written by two calls, and a run
   repeated after the first of them must not mix them up
   (splitsplacer_controller.go:98-105, 295-302). *)
FinishedCountsRUs ==
  placer.state = "Finished" /\ topologyConfig => placer.allocated = Allocated(placer.rus)

(* A run made from a stale copy, which still has the empty state, does not touch
   what an earlier one reported: neither the state nor the positions and the
   count that belong to it, though it has placed the RUs anew and writes both
   (splitsplacer_controller.go:71-76, 98-119). *)
StaleRunsKeepReport ==
  [][placer.state # "New" /\ obj.state = "New" =>
       /\ placer'.state = placer.state
       /\ placer'.rus = placer.rus
       /\ placer'.allocated = placer.allocated]_vars

(* The object gets a state at last, although a failed status update is only
   logged (splitsplacer_controller.go:103-105). *)
PlacerSettles == <>(placer.state # "New")

(* splitsplacer_types.go:60-61 says of ChainPosition that "based on this
   definition a Split will be created": once Finished, the Splits are those of
   the positions in the spec, each on the nodes given there. *)
SplitsMatchPositions ==
  placer.state = "Finished" =>
    \A r \in RUs :
      IF placer.rus[r] = NoPosition
      THEN SplitName[r] \notin DOMAIN splits
      ELSE SplitName[r] \in DOMAIN splits /\ splits[SplitName[r]] = placer.rus[r]

(* Where Place can come to one result only, the Splits of an object that says
   Finished are those of its positions, however often failures, restarts and
   stale reads have the run repeated (splitsplacer_controller.go:71-105). *)
SplitsMatchOnePlacement ==
  (\E outcome \in outcomes : outcomes = {outcome}) => SplitsMatchPositions

(* splitsplacer_types.go:56-57 says of the field Retrigger "Retrigger
   placement": an object with a topology that has been reconciled is placed again
   when the field is set. *)
RetriggerPlacesAgain ==
  topologyConfig /\ placer.retrigger /\ placer.state # "New" ~> pc = "topology"
===============================================================================
