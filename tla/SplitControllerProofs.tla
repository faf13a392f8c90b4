------------------------- MODULE SplitControllerProofs ------------------------
(***************************************************************************)
(* Proofs about SplitController, for any nodes and addresses and any       *)
(* number of failed calls, restarts, failing pods, removals and edits.     *)
(***************************************************************************)
EXTENDS SplitController, TLAPS

(* The config maps Reconcile has seen to since it began are there: those of
   the pieces it has neither still to visit nor is at. *)
SyncedInv ==
  /\ pc \in {"values", "content", "deployments"} => templates = Pieces
  /\ pc \in {"values", "content", "deployments"} =>
       \A c \in Pieces : \/ values[c] # NoObject
                         \/ pc # "deployments" /\ c \in todo
                         \/ pc = "content" /\ c = piece

IInv == TypeOK /\ SyncedInv /\ DeployedHasConfig

-------------------------------------------------------------------------------
(* What Reconcile holds between two runs is of its type. *)
LEMMA ReturnTypes ==
  ASSUME Return
  PROVE  /\ pc' = "idle" /\ obj' = NoObject /\ status' \in Statuses
         /\ todo' \subseteq Pieces /\ piece' \in Pieces
         /\ content' \in Contents /\ reads' \in Seq(Pieces)
BY DEF Return, NoStatus, Statuses, PodStatus, Hosts, NoContent, Contents, Pieces

(* A new Split, with a worker that has not begun, is of the types. *)
LEMMA InitTypeOK == Init => TypeOK
<1> SUFFICES ASSUME Init PROVE TypeOK
  OBVIOUS
<1>1. split \in Splits /\ status \in Statuses
  BY InitialAssumption, BoundAssumption
     DEF Init, Idle, Splits, NoStatus, Statuses, PodStatus, Hosts
<1>2. /\ content \in Contents
      /\ values \in [Pieces -> Contents \cup {NoObject}]
      /\ pods \in [Pieces -> SUBSET Pods]
  BY DEF Init, Idle, NoContent, Contents
<1>3. DOMAIN deployed = {}
  BY DEF Init
<1> QED BY <1>1, <1>2, <1>3, BoundAssumption DEF Init, Idle, TypeOK, Pieces

(* What the status becomes as the pods are looked at. *)
LEMMA StatusTypes ==
  ASSUME TypeOK
  PROVE  /\ \A state \in {"Running", "Error"} : [status EXCEPT !.state = state] \in Statuses
         /\ \A c \in Pieces : \A pod \in pods[c] : \A state \in {status.state, "Error"} :
              [pods |-> [status.pods EXCEPT ![c] = [node |-> pod.node, ip |-> pod.ip]],
               state |-> state] \in Statuses
<1>1. status \in Statuses /\ \A c \in Pieces : pods[c] \subseteq Pods
  BY DEF TypeOK
<1>2. ASSUME NEW c \in Pieces, NEW pod \in pods[c]
      PROVE  [node |-> pod.node, ip |-> pod.ip] \in PodStatus
  BY <1>1 DEF Pods, PodStatus, Hosts
<1> QED BY <1>1, <1>2 DEF Statuses

(* The worker's steps keep the types. *)
LEMMA ReconcileTypeOK == TypeOK /\ Reconcile => TypeOK'
<1> SUFFICES ASSUME TypeOK, Reconcile PROVE TypeOK'
  OBVIOUS
<1>1. CASE GetSplit
  BY <1>1, ObjectAssumption DEF GetSplit, TypeOK, cluster, bounds, Splits
<1>2. CASE SyncTemplates
  BY <1>2 DEF SyncTemplates, TypeOK, bounds
<1>3. CASE SyncTemplatesFails
  BY <1>3, ReturnTypes, BoundAssumption DEF SyncTemplatesFails, Fault, TypeOK
<1>4. CASE GetValues
  <2>1. content' \in Contents
    BY <1>4 DEF GetValues, NoContent, Contents
  <2>2. piece' \in Pieces /\ todo' \subseteq Pieces
    BY <1>4 DEF GetValues, TypeOK
  <2>3. reads' \in Seq(Pieces)
    <3>1. \A c \in Pieces : PodsOf[c] \in Seq(Pieces)
      <4>1. "cu" \in Pieces /\ "du" \in Pieces /\ "ru" \in Pieces
        BY DEF Pieces
      <4>2. /\ <<"cu", "du">> \in Seq(Pieces)
            /\ <<"cu", "du", "ru">> \in Seq(Pieces)
            /\ <<"du", "ru">> \in Seq(Pieces)
        BY <4>1
      <4>3. \A c \in Pieces :
              PodsOf[c] \in {<<"cu", "du">>, <<"cu", "du", "ru">>, <<"du", "ru">>}
        BY DEF PodsOf, Pieces
      <4> QED BY <4>2, <4>3
    <3> QED BY <1>4, <3>1 DEF GetValues, TypeOK
  <2> QED BY <1>4, <2>1, <2>2, <2>3 DEF GetValues, TypeOK, cluster, bounds
<1>5. CASE ReadAddress
  <2>1. Head(reads) \in Pieces /\ reads' \in Seq(Pieces)
    BY <1>5 DEF ReadAddress, TypeOK
  <2>2. (CHOOSE pod \in pods[Head(reads)] : TRUE).ip \in IPs \cup {NoIP}
        \/ pods[Head(reads)] = {}
    BY <2>1 DEF TypeOK, Pods
  <2>3. content' \in Contents
    BY <1>5, <2>1, <2>2 DEF ReadAddress, TypeOK, Contents
  <2> QED BY <1>5, <2>1, <2>3 DEF ReadAddress, TypeOK, cluster, bounds
<1>6. CASE SeveralPods
  BY <1>6, ReturnTypes DEF SeveralPods, TypeOK, cluster, bounds
<1>7. CASE WriteValues
  BY <1>7 DEF WriteValues, TypeOK, bounds
<1>8. CASE WriteValuesFails
  BY <1>8, ReturnTypes, BoundAssumption DEF WriteValuesFails, Fault, TypeOK
<1>9. CASE ValuesSynced
  BY <1>9 DEF ValuesSynced, TypeOK, cluster, bounds
<1>10. CASE SkipDeployment
  BY <1>10 DEF SkipDeployment, TypeOK, cluster, bounds
<1>11. ASSUME NEW c \in Pieces, DeploymentCreated(c), obj \in Splits
       PROVE  DOMAIN deployed' \subseteq Pieces /\ \A d \in DOMAIN deployed' : deployed'[d] \in Hosts
  <2>1. obj.spec[c] \in Hosts
    BY <1>11 DEF Splits
  <2> QED BY <1>11, <2>1 DEF DeploymentCreated, TypeOK
<1>12. CASE CreateDeployment
  <2>1. obj \in Splits
    BY <1>12 DEF CreateDeployment, TypeOK
  <2>2. PICK c \in todo \ DOMAIN deployed : DeploymentCreated(c) /\ todo' = todo \ {c}
    BY <1>12 DEF CreateDeployment
  <2>3. c \in Pieces
    BY DEF TypeOK
  <2>4. DOMAIN deployed' \subseteq Pieces /\ \A d \in DOMAIN deployed' : deployed'[d] \in Hosts
    BY <1>11, <2>1, <2>2, <2>3
  <2> QED BY <1>12, <2>2, <2>4 DEF CreateDeployment, TypeOK, bounds
<1>13. CASE CreateDeploymentFails
  <2>1. obj \in Splits
    BY <1>13 DEF CreateDeploymentFails, TypeOK
  <2>2. UNCHANGED deployed \/ \E c \in Pieces : DeploymentCreated(c)
    BY <1>13 DEF CreateDeploymentFails, TypeOK
  <2>3. DOMAIN deployed' \subseteq Pieces /\ \A d \in DOMAIN deployed' : deployed'[d] \in Hosts
    <3>1. CASE UNCHANGED deployed
      BY <3>1 DEF TypeOK
    <3> QED BY <1>11, <2>1, <2>2, <3>1
  <2> QED BY <1>13, <2>3, ReturnTypes, BoundAssumption DEF CreateDeploymentFails, Fault, TypeOK
<1>14. CASE DeploymentsSynced
  BY <1>14, StatusTypes DEF DeploymentsSynced, TypeOK, cluster, bounds, Pieces
<1>15. CASE ReadStatus
  <2>1. Head(reads) \in Pieces /\ reads' \in Seq(Pieces)
    BY <1>15 DEF ReadStatus, TypeOK
  <2>2. status' \in Statuses
    <3>1. CASE pods[Head(reads)] = {}
      BY <1>15, <3>1 DEF ReadStatus, TypeOK
    <3>2. CASE pods[Head(reads)] # {}
      <4> DEFINE pod == CHOOSE pod \in pods[Head(reads)] : TRUE
                 state == IF pod.phase = "Running" THEN status.state ELSE "Error"
      <4>1. pod \in pods[Head(reads)] /\ state \in {status.state, "Error"}
        BY <3>2
      <4>2. status' = [pods |-> [status.pods EXCEPT ![Head(reads)] =
                                   [node |-> pod.node, ip |-> pod.ip]],
                       state |-> state]
        BY <1>15, <3>2 DEF ReadStatus
      <4> HIDE DEF pod, state
      <4> QED BY <2>1, <4>1, <4>2, StatusTypes
    <3> QED BY <3>1, <3>2
  <2> QED BY <1>15, <2>1, <2>2 DEF ReadStatus, TypeOK, cluster, bounds
<1>16. ASSUME split' = [split EXCEPT !.status = status] PROVE split' \in Splits
  BY <1>16 DEF TypeOK, Splits
<1>17. CASE UpdateStatus
  BY <1>17, <1>16, ReturnTypes DEF UpdateStatus, TypeOK, bounds
<1>18. CASE UpdateStatusFails
  <2>1. split' \in Splits /\ faults' \in 0..MaxFaults
    BY <1>18, <1>16, BoundAssumption DEF UpdateStatusFails, Fault, TypeOK
  <2> QED BY <1>18, <2>1, ReturnTypes DEF UpdateStatusFails, TypeOK
<1> QED BY <1>1, <1>2, <1>3, <1>4, <1>5, <1>6, <1>7, <1>8, <1>9, <1>10, <1>12, <1>13, <1>14,
           <1>15, <1>17, <1>18 DEF Reconcile

(* The cluster's steps, and others' edits, keep them too. *)
LEMMA ClusterTypeOK == TypeOK /\ Cluster => TypeOK'
<1> SUFFICES ASSUME TypeOK, Cluster PROVE TypeOK'
  OBVIOUS
<1>1. CASE PodCreated
  <2>1. PICK c \in DOMAIN deployed : \E n \in IF deployed[c] = NoNode THEN Nodes ELSE {deployed[c]} :
          pods' = [pods EXCEPT ![c] = @ \cup {[node |-> n, ip |-> NoIP, phase |-> "Pending"]}]
    BY <1>1 DEF PodCreated
  <2>2. PICK n \in Nodes :
          pods' = [pods EXCEPT ![c] = @ \cup {[node |-> n, ip |-> NoIP, phase |-> "Pending"]}]
    BY <2>1 DEF TypeOK, Hosts
  <2>3. [node |-> n, ip |-> NoIP, phase |-> "Pending"] \in Pods
    BY DEF Pods
  <2>4. pods' \in [Pieces -> SUBSET Pods]
    BY <2>2, <2>3 DEF TypeOK
  <2> QED BY <1>1, <2>4 DEF PodCreated, TypeOK, cluster, locals, bounds
<1>2. CASE PodStarts
  <2>1. PICK c \in Pieces : \E pod \in pods[c] : \E ip \in Addresses[pod.node] :
          pods' = [pods EXCEPT ![c] = (@ \ {pod}) \cup
                     {[node |-> pod.node, ip |-> ip, phase |-> "Running"]}]
    BY <1>2 DEF PodStarts, StartPod, TypeOK
  <2>2. PICK pod \in pods[c] : \E ip \in Addresses[pod.node] :
          pods' = [pods EXCEPT ![c] = (@ \ {pod}) \cup
                     {[node |-> pod.node, ip |-> ip, phase |-> "Running"]}]
    BY <2>1
  <2>3. PICK ip \in Addresses[pod.node] :
          pods' = [pods EXCEPT ![c] = (@ \ {pod}) \cup
                     {[node |-> pod.node, ip |-> ip, phase |-> "Running"]}]
    BY <2>2
  <2>4. [node |-> pod.node, ip |-> ip, phase |-> "Running"] \in Pods
    <3>1. pod.node \in Nodes
      BY DEF TypeOK, Pods
    <3> QED BY <3>1 DEF Pods, IPs
  <2>5. pods' \in [Pieces -> SUBSET Pods]
    BY <2>3, <2>4 DEF TypeOK
  <2> QED BY <1>2, <2>5 DEF PodStarts, StartPod, TypeOK, cluster, locals, bounds
<1>3. ASSUME NEW c \in Pieces, NEW pod \in pods[c] PROVE [pod EXCEPT !.phase = "Failed"] \in Pods
  BY DEF TypeOK, Pods
<1>4. CASE PodFails
  <2>1. pods' \in [Pieces -> SUBSET Pods]
    BY <1>4, <1>3 DEF PodFails, TypeOK
  <2> QED BY <1>4, <2>1, BoundAssumption DEF PodFails, TypeOK, cluster, locals
<1>5. CASE PodRemoved
  <2>1. pods' \in [Pieces -> SUBSET Pods]
    BY <1>5 DEF PodRemoved, TypeOK
  <2> QED BY <1>5, <2>1 DEF PodRemoved, TypeOK, cluster, locals, bounds
<1>6. CASE DeploymentDeleted
  <2>1. pods' \in [Pieces -> SUBSET Pods]
    BY <1>6, <1>3 DEF DeploymentDeleted, RemoveDeployment, TypeOK
  <2>2. DOMAIN deployed' \subseteq Pieces /\ \A d \in DOMAIN deployed' : deployed'[d] \in Hosts
    BY <1>6 DEF DeploymentDeleted, RemoveDeployment, TypeOK
  <2> QED BY <1>6, <2>1, <2>2, BoundAssumption DEF DeploymentDeleted, RemoveDeployment, TypeOK, locals
<1>7. CASE EditNodes
  <2>1. PICK c \in Pieces, n \in Nodes :
          split' = [split EXCEPT !.generation = @ + 1, !.spec[c] = n]
    BY <1>7 DEF EditNodes
  <2>2. split' \in Splits
    <3>1. /\ split.generation + 1 \in 0..MaxEdits
          /\ [split.spec EXCEPT ![c] = n] \in [Pieces -> Hosts]
          /\ split.status \in Statuses
      BY <1>7, BoundAssumption DEF EditNodes, TypeOK, Splits, Hosts
    <3>2. split' = [generation |-> split.generation + 1, spec |-> [split.spec EXCEPT ![c] = n],
                    status |-> split.status]
      BY <2>1 DEF TypeOK, Splits
    <3> QED BY <3>1, <3>2 DEF Splits
  <2> QED BY <1>7, <2>2 DEF EditNodes, TypeOK, locals, bounds
<1> QED BY <1>1, <1>2, <1>4, <1>5, <1>6, <1>7 DEF Cluster

(* Every step keeps the types, a restart included. *)
LEMMA NextTypeOK == TypeOK /\ [Next]_vars => TypeOK'
<1> SUFFICES ASSUME TypeOK, [Next]_vars PROVE TypeOK'
  OBVIOUS
<1>1. CASE Restart
  BY <1>1, ReturnTypes, BoundAssumption DEF Restart, TypeOK, cluster
<1>2. CASE UNCHANGED vars
  BY <1>2 DEF vars, cluster, locals, bounds, TypeOK
<1> QED BY <1>1, <1>2, ReconcileTypeOK, ClusterTypeOK DEF Next

-------------------------------------------------------------------------------
(* No step takes a config map away. *)
LEMMA ConfigKept ==
  TypeOK /\ [Next]_vars =>
    /\ templates \subseteq templates'
    /\ \A c \in Pieces : values[c] # NoObject => values'[c] # NoObject
<1> SUFFICES ASSUME TypeOK, [Next]_vars
             PROVE  /\ templates \subseteq templates'
                    /\ \A c \in Pieces : values[c] # NoObject => values'[c] # NoObject
  OBVIOUS
<1>1. content # NoObject /\ templates \subseteq Pieces /\ values \in [Pieces -> Contents \cup {NoObject}]
  BY ObjectAssumption DEF TypeOK
<1>2. CASE SyncTemplates \/ SyncTemplatesFails
  BY <1>1, <1>2 DEF SyncTemplates, SyncTemplatesFails
<1>3. CASE WriteValues \/ WriteValuesFails
  BY <1>1, <1>3 DEF WriteValues, WriteValuesFails
<1>4. CASE ~(SyncTemplates \/ SyncTemplatesFails \/ WriteValues \/ WriteValuesFails)
  <2>1. UNCHANGED <<templates, values>>
    BY <1>4 DEF Next, Reconcile, Cluster, Restart, vars, cluster, GetSplit, GetValues, ReadAddress,
       SeveralPods, ValuesSynced, SkipDeployment, CreateDeployment, CreateDeploymentFails,
       DeploymentsSynced, ReadStatus, UpdateStatus, UpdateStatusFails, PodCreated, PodStarts, StartPod,
       PodFails, PodRemoved, DeploymentDeleted, RemoveDeployment, EditNodes
  <2> QED BY <2>1
<1> QED BY <1>2, <1>3, <1>4

(* The loop over the values visits every piece, each write it makes is there,
   and a run that fails is over. *)
LEMMA NextSynced == TypeOK /\ SyncedInv /\ [Next]_vars => SyncedInv'
<1> SUFFICES ASSUME TypeOK, SyncedInv, [Next]_vars PROVE SyncedInv'
  OBVIOUS
<1> DEFINE at == {"values", "content", "deployments"}
<1>1. CASE SyncTemplates
  BY <1>1 DEF SyncTemplates, SyncedInv
<1>2. CASE GetValues
  BY <1>2 DEF GetValues, SyncedInv, cluster
<1>3. CASE WriteValues
  <2>1. values' = [values EXCEPT ![piece] = content] /\ content # NoObject
        /\ pc = "content" /\ pc' = "values" /\ UNCHANGED <<templates, todo, piece>>
        /\ values \in [Pieces -> Contents \cup {NoObject}]
    BY <1>3, ObjectAssumption DEF WriteValues, TypeOK
  <2> QED BY <2>1 DEF SyncedInv
<1>4. CASE ValuesSynced
  BY <1>4 DEF ValuesSynced, SyncedInv, cluster
<1>5. CASE SkipDeployment \/ CreateDeployment
  BY <1>5 DEF SkipDeployment, CreateDeployment, SyncedInv, cluster
<1>6. CASE ReadAddress
  BY <1>6 DEF ReadAddress, SyncedInv, cluster
<1>7. CASE UNCHANGED <<templates, values, pc, todo, piece>>
  BY <1>7 DEF SyncedInv
<1>8. CASE pc' \notin at
  BY <1>8 DEF SyncedInv
<1>9. CASE ~(SyncTemplates \/ GetValues \/ WriteValues \/ ValuesSynced \/ SkipDeployment
             \/ CreateDeployment \/ ReadAddress)
  <2>1. UNCHANGED <<templates, values, pc, todo, piece>> \/ pc' \notin at
    BY <1>9 DEF Next, Reconcile, Cluster, Restart, vars, cluster, locals, Return, GetSplit,
       SyncTemplatesFails, SeveralPods, WriteValuesFails, CreateDeploymentFails,
       DeploymentsSynced, ReadStatus, UpdateStatus, UpdateStatusFails, PodCreated, PodStarts, StartPod,
       PodFails, PodRemoved, DeploymentDeleted, RemoveDeployment, EditNodes
  <2> QED BY <2>1, <1>7, <1>8
<1> QED BY <1>1, <1>2, <1>3, <1>4, <1>5, <1>6, <1>9

(* A Deployment is created where the config maps of all pieces are, and keeps
   them. *)
LEMMA NextDeployed == IInv /\ [Next]_vars => DeployedHasConfig'
<1> SUFFICES ASSUME IInv, [Next]_vars PROVE DeployedHasConfig'
  OBVIOUS
<1>1. /\ templates \subseteq templates' /\ DOMAIN deployed \subseteq Pieces /\ todo \subseteq Pieces
      /\ \A c \in Pieces : values[c] # NoObject => values'[c] # NoObject
  BY ConfigKept DEF IInv, TypeOK
<1>2. CASE CreateDeployment \/ CreateDeploymentFails
  <2>1. templates = Pieces /\ \A c \in Pieces : values[c] # NoObject
    BY <1>2 DEF CreateDeployment, CreateDeploymentFails, IInv, SyncedInv
  <2>2. DOMAIN deployed' \subseteq Pieces
    BY <1>1, <1>2 DEF CreateDeployment, CreateDeploymentFails, DeploymentCreated
  <2> QED BY <1>1, <2>1, <2>2 DEF DeployedHasConfig
<1>3. CASE ~(CreateDeployment \/ CreateDeploymentFails)
  <2>1. DOMAIN deployed' \subseteq DOMAIN deployed
    BY <1>3 DEF Next, Reconcile, Cluster, Restart, vars, cluster, GetSplit, SyncTemplates,
       SyncTemplatesFails, GetValues, ReadAddress, SeveralPods, WriteValues, WriteValuesFails,
       ValuesSynced, SkipDeployment, DeploymentsSynced, ReadStatus, UpdateStatus,
       UpdateStatusFails, PodCreated, PodStarts, StartPod, PodFails, PodRemoved, DeploymentDeleted, RemoveDeployment, EditNodes
  <2> QED BY <1>1, <2>1 DEF IInv, DeployedHasConfig
<1> QED BY <1>2, <1>3

(* At first there is no Deployment and no run under way. *)
LEMMA InitInv == Init => IInv
<1> SUFFICES ASSUME Init PROVE IInv
  OBVIOUS
<1>1. DOMAIN deployed = {} /\ pc = "idle"
  BY DEF Init, Idle
<1> QED BY <1>1, InitTypeOK DEF IInv, SyncedInv, DeployedHasConfig

(* Every step keeps the invariant. *)
LEMMA NextInv == IInv /\ [Next]_vars => IInv'
BY NextTypeOK, NextSynced, NextDeployed DEF IInv

(* The types hold throughout, with any nodes, addresses and bounds. *)
THEOREM TypeCorrect == Spec => []TypeOK
<1>1. IInv => TypeOK
  BY DEF IInv
<1> QED BY <1>1, InitInv, NextInv, PTL DEF Spec

(* However the calls fail and the manager restarts, whatever becomes of the
   pods and Deployments and however the Split is edited: a Deployment that is
   there has the template and the values its pods mount. *)
THEOREM DeployedConfigured == Spec => []DeployedHasConfig
<1>1. IInv => DeployedHasConfig
  BY DEF IInv
<1> QED BY <1>1, InitInv, NextInv, PTL DEF Spec
===============================================================================
