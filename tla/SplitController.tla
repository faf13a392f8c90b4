---------------------------- MODULE SplitController ---------------------------
(***************************************************************************)
(* SplitReconciler (controllers/split_controller.go) for one Split: the    *)
(* worker that reconciles it every resyncPeriod and after each error, the  *)
(* API server, and the Deployments' pods, which come, get an address, fail *)
(* and go as the cluster pleases.                                          *)
(*                                                                         *)
(* The manager reads from caches.  The pods are those its cache lists.     *)
(* What the worker alone writes it finds in its cache, unless the cache    *)
(* has not caught up with a write: then a Create finds that the object     *)
(* exists and an Update that there is a newer one, and the call fails like *)
(* one that does not reach the server.  Such calls count among MaxFaults.  *)
(***************************************************************************)
EXTENDS Naturals, Sequences, FiniteSets

CONSTANTS
  Nodes,
  NoNode,          \* an empty node name
  Addresses,       \* the addresses each node gives its pods
  NoIP,            \* an empty address
  NoObject,        \* what a Get that finds nothing returns
  InitialNodes,    \* CUNode, DUNode and RUNode of a new Split
  MaxFaults,       \* bound: calls to the API server that fail, or are refused
  MaxCrashes,      \* bound: times the manager stops
  MaxFailures,     \* bound: pods that fail
  MaxDeletions,    \* bound: Deployments removed by others
  MaxEdits         \* bound: changes of the Split's nodes by others

Pieces == {"cu", "du", "ru"}

(* The pods whose addresses the values of a piece hold, in the order
   getCU-, getDU- and getRUConfigMapContent look them up. *)
PodsOf == [cu |-> <<"cu", "du">>, du |-> <<"cu", "du", "ru">>, ru |-> <<"du", "ru">>]

IPs == UNION {Addresses[n] : n \in Nodes}

ASSUME NodeAssumption == NoNode \notin Nodes
ASSUME AddressAssumption == DOMAIN Addresses = Nodes /\ NoIP \notin IPs
ASSUME InitialAssumption == InitialNodes \subseteq [Pieces -> Nodes \cup {NoNode}]
ASSUME BoundAssumption ==
  /\ MaxFaults \in Nat /\ MaxCrashes \in Nat
  /\ MaxFailures \in Nat /\ MaxDeletions \in Nat /\ MaxEdits \in Nat

Hosts == Nodes \cup {NoNode}
Pods == [node : Nodes, ip : IPs \cup {NoIP}, phase : {"Pending", "Running", "Failed"}]
Contents == [Pieces -> IPs \cup {NoIP}]
PodStatus == [node : Hosts, ip : IPs \cup {NoIP}]
Statuses == [pods : [Pieces -> PodStatus], state : {"New", "Running", "Error"}]
Splits == [generation : 0..MaxEdits, spec : [Pieces -> Hosts], status : Statuses]

ASSUME ObjectAssumption == NoObject \notin Splits /\ NoObject \notin Contents

NoContent == [p \in Pieces |-> NoIP]
NoStatus == [pods |-> [p \in Pieces |-> [node |-> NoNode, ip |-> NoIP]], state |-> "New"]

VARIABLES
  split,           \* the Split at the server
  templates,       \* the pieces whose template config map is up to date
  values,          \* the values config map of each piece
  deployed,        \* the node each piece's Deployment names
  pods,            \* the pods of each piece
  pc,              \* where Reconcile is
  obj,             \* the Split as Get returned it
  status,          \* its status, being filled in
  todo,            \* the pieces the loop over Splits has still to visit
  piece,           \* the piece it is at
  content,         \* the new values, being put together
  reads,           \* the pods still to look up
  faults, crashes, failures, deletions

cluster == <<split, templates, values, deployed>>
locals == <<obj, status, todo, piece, content, reads>>
bounds == <<faults, crashes, failures, deletions>>
vars == <<cluster, pods, pc, locals, bounds>>

-------------------------------------------------------------------------------
(* Outside Reconcile its locals hold nothing. *)
Idle ==
  /\ pc = "idle"
  /\ obj = NoObject /\ content = NoContent /\ status = NoStatus
  /\ todo = {} /\ piece = "cu" /\ reads = <<>>

(* Reconcile returns: the key comes back after resyncPeriod, or sooner after an
   error. *)
Return ==
  /\ pc' = "idle"
  /\ obj' = NoObject /\ content' = NoContent /\ status' = NoStatus
  /\ todo' = {} /\ piece' = "cu" /\ reads' = <<>>

(* A call fails without reaching the server, or its answer is lost. *)
Fault == faults < MaxFaults /\ faults' = faults + 1

GetSplit ==
  /\ pc = "idle"
  /\ obj' = split
  /\ status' = split.status
  /\ pc' = "templates"
  /\ UNCHANGED <<cluster, pods, todo, piece, content, reads, bounds>>

(* syncTemplatesConfigMap copies the templates of the operator's namespace, in
   any order. *)
SyncTemplates ==
  /\ pc = "templates"
  /\ templates' = Pieces
  /\ pc' = "values"
  /\ todo' = Pieces
  /\ UNCHANGED <<split, values, deployed, pods, obj, status, piece, content, reads, bounds>>

(* One of the calls fails: the templates before it have been copied. *)
SyncTemplatesFails ==
  /\ pc = "templates"
  /\ Fault
  /\ \E copied \in SUBSET Pieces : templates' = templates \cup copied
  /\ Return
  /\ UNCHANGED <<split, values, deployed, pods, crashes, failures, deletions>>

-------------------------------------------------------------------------------
(* syncValuesConfigMap takes the next piece of the map and gets its config
   map. *)
GetValues ==
  /\ pc = "values"
  /\ \E c \in todo :
       /\ piece' = c
       /\ todo' = todo \ {c}
       /\ reads' = PodsOf[c]
  /\ content' = NoContent
  /\ pc' = "content"
  /\ UNCHANGED <<cluster, pods, obj, status, bounds>>

(* getPod: an empty address while there is no pod, an error when there are
   several. *)
ReadAddress ==
  /\ pc = "content"
  /\ reads # <<>>
  /\ Cardinality(pods[Head(reads)]) <= 1
  /\ content' = [content EXCEPT ![Head(reads)] =
                   IF pods[Head(reads)] = {} THEN NoIP
                   ELSE (CHOOSE pod \in pods[Head(reads)] : TRUE).ip]
  /\ reads' = Tail(reads)
  /\ UNCHANGED <<cluster, pods, pc, obj, status, todo, piece, bounds>>

SeveralPods ==
  /\ pc \in {"content", "status"}
  /\ reads # <<>>
  /\ Cardinality(pods[Head(reads)]) > 1
  /\ Return
  /\ UNCHANGED <<cluster, pods, bounds>>

(* Mutant: a config map is written only once every address is known. *)
WriteValuesWhenComplete ==
  /\ pc = "content"
  /\ reads = <<>>
  /\ IF \E i \in DOMAIN PodsOf[piece] : content[PodsOf[piece][i]] = NoIP
     THEN UNCHANGED values
     ELSE values' = [values EXCEPT ![piece] = content]
  /\ pc' = "values"
  /\ UNCHANGED <<split, templates, deployed, pods, obj, status, todo, piece, content, reads, bounds>>

(* The config map is created or updated, or left alone when it holds these
   values already. *)
WriteValues ==
  /\ pc = "content"
  /\ reads = <<>>
  /\ values' = [values EXCEPT ![piece] = content]
  /\ pc' = "values"
  /\ UNCHANGED <<split, templates, deployed, pods, obj, status, todo, piece, content, reads, bounds>>

(* Mutant: a failed write is only logged. *)
WriteValuesFailsIgnored ==
  /\ pc = "content"
  /\ reads = <<>>
  /\ values[piece] # content
  /\ Fault
  /\ values' \in {values, [values EXCEPT ![piece] = content]}
  /\ pc' = "values"
  /\ UNCHANGED <<split, templates, deployed, pods, obj, status, todo, piece, content, reads, crashes, failures, deletions>>

WriteValuesFails ==
  /\ pc = "content"
  /\ reads = <<>>
  /\ values[piece] # content
  /\ Fault
  /\ values' \in {values, [values EXCEPT ![piece] = content]}
  /\ Return
  /\ UNCHANGED <<split, templates, deployed, pods, crashes, failures, deletions>>

ValuesSynced ==
  /\ pc = "values"
  /\ todo = {}
  /\ pc' = "deployments"
  /\ todo' = Pieces
  /\ UNCHANGED <<cluster, pods, obj, status, piece, content, reads, bounds>>

-------------------------------------------------------------------------------
(* syncDeployments, one iteration: a Deployment that exists is left alone. *)
SkipDeployment ==
  /\ pc = "deployments"
  /\ \E c \in todo \cap DOMAIN deployed : todo' = todo \ {c}
  /\ UNCHANGED <<cluster, pods, pc, obj, status, piece, content, reads, bounds>>

(* The Deployment of a piece names the node the Split gives it. *)
DeploymentCreated(c) ==
  deployed' = [d \in DOMAIN deployed \cup {c} |-> IF d = c THEN obj.spec[c] ELSE deployed[d]]

CreateDeployment ==
  /\ pc = "deployments"
  /\ \E c \in todo \ DOMAIN deployed : DeploymentCreated(c) /\ todo' = todo \ {c}
  /\ UNCHANGED <<split, templates, values, pods, pc, obj, status, piece, content, reads, bounds>>

CreateDeploymentFails ==
  /\ pc = "deployments"
  /\ \E c \in todo \ DOMAIN deployed :
       UNCHANGED deployed \/ DeploymentCreated(c)
  /\ Fault
  /\ Return
  /\ UNCHANGED <<split, templates, values, pods, crashes, failures, deletions>>

(* Mutant: the state is one of the SplitsPlacer's. *)
DeploymentsSyncedFinished ==
  /\ pc = "deployments"
  /\ todo = {}
  /\ pc' = "status"
  /\ reads' = <<"cu", "du", "ru">>
  /\ status' = [status EXCEPT !.state = "Finished"]
  /\ UNCHANGED <<cluster, pods, obj, todo, piece, content, bounds>>

DeploymentsSynced ==
  /\ pc = "deployments"
  /\ todo = {}
  /\ pc' = "status"
  /\ reads' = <<"cu", "du", "ru">>
  /\ status' = [status EXCEPT !.state = "Running"]
  /\ UNCHANGED <<cluster, pods, obj, todo, piece, content, bounds>>

-------------------------------------------------------------------------------
(* Mutant: an address that is known is not read again. *)
ReadStatusOnce ==
  /\ pc = "status"
  /\ reads # <<>>
  /\ Cardinality(pods[Head(reads)]) <= 1
  /\ IF pods[Head(reads)] = {} THEN UNCHANGED status
     ELSE LET pod == CHOOSE pod \in pods[Head(reads)] : TRUE
          IN  status' = [pods |-> [status.pods EXCEPT ![Head(reads)] =
                                     IF @.ip # NoIP THEN @ ELSE [node |-> pod.node, ip |-> pod.ip]],
                         state |-> IF pod.phase = "Running" THEN status.state ELSE "Error"]
  /\ reads' = Tail(reads)
  /\ UNCHANGED <<cluster, pods, pc, obj, todo, piece, content, bounds>>

(* syncStatus looks at the pods in turn: a piece without a pod keeps the node
   and address it had, and only a pod that is not Running is an error. *)
ReadStatus ==
  /\ pc = "status"
  /\ reads # <<>>
  /\ Cardinality(pods[Head(reads)]) <= 1
  /\ IF pods[Head(reads)] = {} THEN UNCHANGED status
     ELSE LET pod == CHOOSE pod \in pods[Head(reads)] : TRUE
          IN  status' = [pods |-> [status.pods EXCEPT ![Head(reads)] =
                                     [node |-> pod.node, ip |-> pod.ip]],
                         state |-> IF pod.phase = "Running" THEN status.state ELSE "Error"]
  /\ reads' = Tail(reads)
  /\ UNCHANGED <<cluster, pods, pc, obj, todo, piece, content, bounds>>

Conflict == obj # split

UpdateStatus ==
  /\ pc = "status"
  /\ reads = <<>>
  /\ ~Conflict
  /\ split' = [split EXCEPT !.status = status]
  /\ Return
  /\ UNCHANGED <<templates, values, deployed, pods, bounds>>

UpdateStatusFails ==
  /\ pc = "status"
  /\ reads = <<>>
  /\ \/ Conflict /\ UNCHANGED <<split, faults>>
     \/ Fault /\ UNCHANGED split
     \/ Fault /\ ~Conflict /\ split' = [split EXCEPT !.status = status]
  /\ Return
  /\ UNCHANGED <<templates, values, deployed, pods, crashes, failures, deletions>>

Reconcile ==
  \/ GetSplit \/ SyncTemplates \/ SyncTemplatesFails
  \/ GetValues \/ ReadAddress \/ SeveralPods \/ WriteValues \/ WriteValuesFails \/ ValuesSynced
  \/ SkipDeployment \/ CreateDeployment \/ CreateDeploymentFails \/ DeploymentsSynced
  \/ ReadStatus \/ UpdateStatus \/ UpdateStatusFails

-------------------------------------------------------------------------------
(* A Deployment without a live pod gets one. *)
PodCreated ==
  /\ \E c \in DOMAIN deployed :
       /\ \A pod \in pods[c] : pod.phase = "Failed"
       /\ \E n \in IF deployed[c] = NoNode THEN Nodes ELSE {deployed[c]} :
            pods' = [pods EXCEPT ![c] = @ \cup {[node |-> n, ip |-> NoIP, phase |-> "Pending"]}]
  /\ UNCHANGED <<cluster, pc, locals, bounds>>

(* The kubelet mounts the template and the values before it starts a pod; the
   pod gets an address of the node that no other pod has. *)
StartPod(c) ==
  /\ c \in templates
  /\ values[c] # NoObject
  /\ \E pod \in pods[c] :
       /\ pod.phase = "Pending"
       /\ \E ip \in Addresses[pod.node] \ {other.ip : other \in UNION {pods[d] : d \in Pieces}} :
            pods' = [pods EXCEPT ![c] = (@ \ {pod}) \cup
                       {[node |-> pod.node, ip |-> ip, phase |-> "Running"]}]
  /\ UNCHANGED <<cluster, pc, locals, bounds>>

PodStarts == \E c \in Pieces : StartPod(c)

(* A pod is evicted, or its node is lost: it is listed until it is removed,
   if it is. *)
PodFails ==
  /\ failures < MaxFailures
  /\ failures' = failures + 1
  /\ \E c \in Pieces : \E pod \in pods[c] :
       /\ pod.phase # "Failed"
       /\ pods' = [pods EXCEPT ![c] = (@ \ {pod}) \cup {[pod EXCEPT !.phase = "Failed"]}]
  /\ UNCHANGED <<cluster, pc, locals, faults, crashes, deletions>>

PodRemoved ==
  /\ \E c \in Pieces : \E pod \in pods[c] :
       pod.phase = "Failed" /\ pods' = [pods EXCEPT ![c] = @ \ {pod}]
  /\ UNCHANGED <<cluster, pc, locals, bounds>>

(* A Deployment is removed; its pods follow. *)
RemoveDeployment(c) ==
  /\ c \in DOMAIN deployed
  /\ deployed' = [d \in DOMAIN deployed \ {c} |-> deployed[d]]
  /\ pods' = [pods EXCEPT ![c] = {[pod EXCEPT !.phase = "Failed"] : pod \in @}]

DeploymentDeleted ==
  /\ deletions < MaxDeletions
  /\ deletions' = deletions + 1
  /\ \E c \in Pieces : RemoveDeployment(c)
  /\ UNCHANGED <<split, templates, values, pc, locals, faults, crashes, failures>>

(* Someone moves a piece to another node. *)
EditNodes ==
  /\ split.generation < MaxEdits
  /\ \E c \in Pieces : \E n \in Nodes \ {split.spec[c]} :
       split' = [split EXCEPT !.generation = @ + 1, !.spec[c] = n]
  /\ UNCHANGED <<templates, values, deployed, pods, pc, locals, bounds>>

(* The manager stops and starts again. *)
Restart ==
  /\ crashes < MaxCrashes
  /\ crashes' = crashes + 1
  /\ Return
  /\ UNCHANGED <<cluster, pods, faults, failures, deletions>>

Init ==
  /\ \E nodes \in InitialNodes :
       split = [generation |-> 0, spec |-> nodes, status |-> NoStatus]
  /\ templates = {}
  /\ values = [c \in Pieces |-> NoObject]
  /\ deployed = <<>>
  /\ pods = [c \in Pieces |-> {}]
  /\ Idle
  /\ faults = 0 /\ crashes = 0 /\ failures = 0 /\ deletions = 0

Cluster == PodCreated \/ PodStarts \/ PodFails \/ PodRemoved \/ DeploymentDeleted \/ EditNodes

Next == Reconcile \/ Cluster \/ Restart

(* The worker runs, and the cluster starts the pods of a Deployment.  Nobody
   need remove a pod that failed: an evicted one may stay listed for ever, and
   so may those of a lost node. *)
Fairness == WF_vars(Reconcile) /\ WF_vars(PodCreated) /\ WF_vars(PodStarts)

Spec == Init /\ [][Next]_vars /\ Fairness

-------------------------------------------------------------------------------
TypeOK ==
  /\ split \in Splits
  /\ templates \subseteq Pieces
  /\ values \in [Pieces -> Contents \cup {NoObject}]
  /\ DOMAIN deployed \subseteq Pieces /\ \A c \in DOMAIN deployed : deployed[c] \in Hosts
  /\ pods \in [Pieces -> SUBSET Pods]
  /\ pc \in {"idle", "templates", "values", "content", "deployments", "status"}
  /\ obj \in Splits \cup {NoObject} /\ (pc # "idle" => obj # NoObject)
  /\ status \in Statuses
  /\ todo \subseteq Pieces /\ piece \in Pieces
  /\ content \in Contents
  /\ reads \in Seq(Pieces)
  /\ faults \in 0..MaxFaults /\ crashes \in 0..MaxCrashes
  /\ failures \in 0..MaxFailures /\ deletions \in 0..MaxDeletions

(* A Deployment is created after the config maps its pods mount, however the
   calls before it failed: no pod waits for a config map that the next
   reconcile might never get to write (split_controller.go:82-93). *)
DeployedHasConfig ==
  \A c \in DOMAIN deployed : c \in templates /\ values[c] # NoObject

(* What a piece's values should be: the addresses of the live pods it talks to. *)
LiveAddress(c) ==
  IF \E pod \in pods[c] : pod.phase # "Failed"
  THEN (CHOOSE pod \in pods[c] : pod.phase # "Failed").ip ELSE NoIP

Wanted(c) == [p \in Pieces |-> IF \E i \in DOMAIN PodsOf[c] : PodsOf[c][i] = p
                               THEN LiveAddress(p) ELSE NoIP]

(* What getPod asks of the cluster: with two pods of a piece listed, one failed
   and one in its place, every reconcile ends in an error and neither values nor
   status are written (split_controller.go:470-472). *)
OnePodListed == \A c \in Pieces : Cardinality(pods[c]) <= 1

(* Unless a failed pod stays listed beside its successor for ever: whatever else
   fails on the way, in the end the values of every piece hold the addresses of
   the running pods it talks to.  The config maps do not wait for the pods, nor
   the pods for more than the config maps, and the errors of the time when there
   were two pods leave nothing behind (split_controller.go:268-316, 331-420). *)
ValuesFollowPods ==
  <>[]OnePodListed =>
    <>[](\A c \in Pieces : values[c] = Wanted(c) /\ LiveAddress(c) # NoIP)

(* Unless a failed pod stays listed beside its successor for ever: in the end the
   status is Running and names the nodes and addresses of the running pods, and
   what it kept of earlier pods is overwritten (split_controller.go:110-159). *)
StatusFollowsPods ==
  <>[]OnePodListed =>
    <>[](/\ split.status.state = "Running"
         /\ \A c \in Pieces : \E pod \in pods[c] :
              pod.phase = "Running" /\ split.status.pods[c] = [node |-> pod.node, ip |-> pod.ip])
===============================================================================
