----------------------------- MODULE ReplacerProofs ---------------------------
(***************************************************************************)
(* Proofs about Replacer, for any nodes and addresses and any number of    *)
(* failed calls, restarts of the manager, edits and restarted containers.  *)
(***************************************************************************)
EXTENDS Replacer, SplitControllerProofs

(* Every step is one of the Split's, or leaves it as it is. *)
LEMMA SplitSteps == [PodNext]_podVars => [Next]_vars
<1>1. OtherStep => Next
  BY DEF OtherStep, Next, Cluster
<1>2. \A c \in Pieces : StartContainer(c) => Next
  BY DEF StartContainer, Next, Cluster, PodStarts
<1>3. \A c \in Pieces : RefreshMount(c) \/ Replace(c) \/ RestartContainer(c) => UNCHANGED vars
  BY DEF RefreshMount, Replace, RestartContainer
<1>4. UNCHANGED podVars => UNCHANGED vars
  BY DEF podVars
<1> QED BY <1>1, <1>2, <1>3, <1>4 DEF PodNext

(* The steps that change what the pods hold. *)
LEMMA PodSteps ==
  ASSUME [PodNext]_podVars
  PROVE  \/ UNCHANGED inPods
         \/ \E c \in Pieces : StartContainer(c) \/ RefreshMount(c) \/ Replace(c) \/ RestartContainer(c)
BY DEF PodNext, podVars

(* A pod that starts mounts what the config map of its piece holds. *)
LEMMA MountTypes ==
  ASSUME TypeOK, PodTypeOK, [PodNext]_podVars
  PROVE  PodTypeOK'
<1>1. /\ mounted \in [Pieces -> Contents]
      /\ config \in [Pieces -> Contents \cup {NoObject}]
      /\ values \in [Pieces -> Contents \cup {NoObject}]
      /\ \A c \in Pieces : config[c] # NoObject => \A p \in Needed[c] : config[c][p] # NoIP
      /\ restarts \in 0..MaxRestarts
  BY DEF TypeOK, PodTypeOK
<1>2. CASE UNCHANGED inPods
  BY <1>1, <1>2 DEF PodTypeOK, inPods
<1>3. ASSUME NEW c \in Pieces, StartContainer(c) PROVE PodTypeOK'
  <2>1. values[c] \in Contents
    BY <1>1, <1>3 DEF StartContainer, StartPod
  <2>2. /\ mounted' = [mounted EXCEPT ![c] = values[c]]
        /\ config' = [config EXCEPT ![c] = NoObject]
        /\ restarts' = restarts
    BY <1>3 DEF StartContainer
  <2> QED BY <1>1, <2>1, <2>2 DEF PodTypeOK
<1>4. ASSUME NEW c \in Pieces, RefreshMount(c) PROVE PodTypeOK'
  BY <1>1, <1>4 DEF RefreshMount, PodTypeOK
<1>5. ASSUME NEW c \in Pieces, Replace(c) PROVE PodTypeOK'
  <2>1. config' = [config EXCEPT ![c] = mounted[c]] /\ UNCHANGED <<mounted, restarts>>
    BY <1>5 DEF Replace
  <2>2. \A p \in Needed[c] : mounted[c][p] # NoIP
    BY <1>5 DEF Replace, Complete
  <2> QED BY <1>1, <2>1, <2>2 DEF PodTypeOK
<1>6. ASSUME NEW c \in Pieces, RestartContainer(c) PROVE PodTypeOK'
  BY <1>1, <1>6, RestartAssumption DEF RestartContainer, PodTypeOK
<1> QED BY <1>2, <1>3, <1>4, <1>5, <1>6, PodSteps

(* Nothing is mounted at first. *)
LEMMA InitialTypes == Init /\ InitialMounts => TypeOK /\ PodTypeOK
<1>1. NoContent \in Contents
  BY DEF NoContent, Contents
<1> QED BY <1>1, InitTypeOK, RestartAssumption DEF InitialMounts, PodTypeOK

(* The types hold throughout, and a configuration never lacks an address its
   piece needs: not with any failure, edit or restart. *)
THEOREM PodTypesCorrect == PodSpec => []PodTypeOK
<1>1. TypeOK /\ PodTypeOK /\ [PodNext]_podVars => TypeOK' /\ PodTypeOK'
  BY SplitSteps, NextTypeOK, MountTypes
<1> QED BY <1>1, InitialTypes, PTL DEF PodSpec

-------------------------------------------------------------------------------
(* A pod has no address before it runs, and while none fails a piece has one
   pod at most. *)
PodsInv ==
  \A c \in Pieces : \A pod \in pods[c] :
    /\ pod.phase # "Failed"
    /\ pod.phase = "Pending" => pod.ip = NoIP
    /\ \A other \in pods[c] : other = pod

HasAddress(p, ip) == \E pod \in pods[p] : pod.phase = "Running" /\ pod.ip = ip

(* Every address given is that of the piece's running pod. *)
Right(addresses) == \A p \in Pieces : addresses[p] # NoIP => HasAddress(p, addresses[p])

(* So it is wherever an address is on its way to the configuration of a pod. *)
AddressesInv ==
  /\ Right(content)
  /\ \A c \in Pieces :
       /\ values[c] # NoObject => Right(values[c])
       /\ Right(mounted[c])
       /\ config[c] # NoObject => Right(config[c])

NamesInv == TypeOK /\ PodTypeOK /\ PodsInv /\ AddressesInv

(* While no pod fails, a pod that runs keeps its address. *)
LEMMA PodsKept ==
  ASSUME MaxFailures = 0, MaxDeletions = 0, TypeOK, PodsInv, [Next]_vars
  PROVE  PodsInv' /\ \A p \in Pieces : \A ip : HasAddress(p, ip) => HasAddress(p, ip)'
<1>1. pods \in [Pieces -> SUBSET Pods] /\ failures = 0 /\ deletions = 0
  BY DEF TypeOK
<1>2. CASE PodCreated
  <2>1. PICK c \in DOMAIN deployed : \E n \in IF deployed[c] = NoNode THEN Nodes ELSE {deployed[c]} :
          /\ \A pod \in pods[c] : pod.phase = "Failed"
          /\ pods' = [pods EXCEPT ![c] = pods[c] \cup {[node |-> n, ip |-> NoIP, phase |-> "Pending"]}]
    BY <1>2 DEF PodCreated
  <2>2. c \in Pieces
    BY DEF TypeOK
  <2>3. pods[c] = {}
    BY <2>1, <2>2 DEF PodsInv
  <2>4. PICK n : pods' = [pods EXCEPT ![c] = {[node |-> n, ip |-> NoIP, phase |-> "Pending"]}]
    BY <2>1, <2>3
  <2>5. PodsInv'
    BY <1>1, <2>2, <2>4 DEF PodsInv
  <2> QED BY <1>1, <2>2, <2>3, <2>4, <2>5 DEF HasAddress
<1>3. CASE PodStarts
  <2>1. PICK c \in Pieces : StartPod(c)
    BY <1>3 DEF PodStarts
  <2>2. PICK pod \in pods[c] : \E ip \in Addresses[pod.node] :
          /\ pod.phase = "Pending"
          /\ pods' = [pods EXCEPT ![c] = (pods[c] \ {pod}) \cup
                        {[node |-> pod.node, ip |-> ip, phase |-> "Running"]}]
    BY <2>1 DEF StartPod
  <2>3. pods[c] = {pod}
    BY <2>2 DEF PodsInv
  <2>4. PICK ip : pods' = [pods EXCEPT ![c] = {[node |-> pod.node, ip |-> ip, phase |-> "Running"]}]
    BY <2>2, <2>3
  <2>5. PodsInv'
    BY <1>1, <2>4 DEF PodsInv
  <2>6. \A a : ~HasAddress(c, a)
    BY <2>2, <2>3 DEF HasAddress
  <2> QED BY <1>1, <2>4, <2>5, <2>6 DEF HasAddress
<1>4. CASE ~PodCreated /\ ~PodStarts
  <2>1. ~PodRemoved
    BY DEF PodRemoved, PodsInv
  <2>2. ~PodFails /\ ~DeploymentDeleted
    BY <1>1 DEF PodFails, DeploymentDeleted
  <2>3. UNCHANGED pods
    BY <1>4, <2>1, <2>2
       DEF Next, Reconcile, Cluster, Restart, vars, GetSplit, SyncTemplates, SyncTemplatesFails,
       GetValues, ReadAddress, SeveralPods, WriteValues, WriteValuesFails, ValuesSynced,
       SkipDeployment, CreateDeployment, CreateDeploymentFails, DeploymentsSynced, ReadStatus,
       UpdateStatus, UpdateStatusFails, EditNodes
  <2> QED BY <2>3 DEF PodsInv, HasAddress
<1> QED BY <1>2, <1>3, <1>4

(* The reconciler puts together the addresses it reads off the pods and writes
   nothing else. *)
LEMMA ReconcilerNamesPods ==
  ASSUME NamesInv, [Next]_vars
  PROVE  /\ Right(content')
         /\ \A c \in Pieces : values'[c] # NoObject => Right(values'[c])
<1>1. /\ content \in Contents /\ Right(content) /\ pods \in [Pieces -> SUBSET Pods]
      /\ values \in [Pieces -> Contents \cup {NoObject}] /\ piece \in Pieces
      /\ \A c \in Pieces : values[c] # NoObject => Right(values[c])
  BY DEF NamesInv, TypeOK, AddressesInv
<1>2. CASE ReadAddress
  <2> DEFINE p == Head(reads)
             pod == CHOOSE pod \in pods[p] : TRUE
  <2>1. /\ p \in Pieces /\ values' = values
        /\ content' = [content EXCEPT ![p] = IF pods[p] = {} THEN NoIP ELSE pod.ip]
    BY <1>2 DEF ReadAddress, cluster, NamesInv, TypeOK
  <2>2. pods[p] # {} => pod \in pods[p]
    OBVIOUS
  <2> HIDE DEF p, pod
  <2>3. pods[p] # {} => pod.ip = NoIP \/ HasAddress(p, pod.ip)
    <3>1. pods[p] # {} => pod \in Pods
      BY <1>1, <2>1, <2>2
    <3>2. pods[p] # {} => pod.phase # "Failed" /\ (pod.phase = "Pending" => pod.ip = NoIP)
      BY <2>1, <2>2 DEF NamesInv, PodsInv
    <3> QED BY <2>2, <3>1, <3>2 DEF HasAddress, Pods
  <2> QED BY <1>1, <2>1, <2>3 DEF Right, Contents
<1>3. CASE WriteValues \/ WriteValuesFails
  <2>1. /\ values' = values \/ values' = [values EXCEPT ![piece] = content]
        /\ content' = content \/ content' = NoContent
    BY <1>3 DEF WriteValues, WriteValuesFails, Return
  <2>2. Right(NoContent)
    BY DEF Right, NoContent
  <2> QED BY <1>1, <2>1, <2>2
<1>4. CASE ~(ReadAddress \/ WriteValues \/ WriteValuesFails)
  <2>1. values' = values /\ (content' = content \/ content' = NoContent)
    BY <1>4 DEF Next, Reconcile, Cluster, Restart, vars, cluster, locals, Return, GetSplit, SyncTemplates,
       SyncTemplatesFails, GetValues, SeveralPods, ValuesSynced, SkipDeployment, CreateDeployment,
       CreateDeploymentFails, DeploymentsSynced, ReadStatus, UpdateStatus, UpdateStatusFails, PodCreated,
       PodStarts, StartPod, PodFails, PodRemoved, DeploymentDeleted, RemoveDeployment, EditNodes
  <2>2. Right(NoContent)
    BY DEF Right, NoContent
  <2> QED BY <1>1, <2>1, <2>2
<1> QED BY <1>2, <1>3, <1>4

(* The kubelet and the replacer pass them on as they are. *)
LEMMA PodsPassOn ==
  ASSUME NamesInv, [PodNext]_podVars
  PROVE  \A c \in Pieces :
           /\ Right(mounted'[c])
           /\ config'[c] # NoObject => Right(config'[c])
<1>1. /\ mounted \in [Pieces -> Contents] /\ config \in [Pieces -> Contents \cup {NoObject}]
      /\ \A c \in Pieces : /\ values[c] # NoObject => Right(values[c])
                           /\ Right(mounted[c])
                           /\ config[c] # NoObject => Right(config[c])
  BY DEF NamesInv, PodTypeOK, AddressesInv
<1>2. CASE UNCHANGED inPods
  BY <1>1, <1>2 DEF inPods
<1>3. ASSUME NEW c \in Pieces,
             StartContainer(c) \/ RefreshMount(c) \/ Replace(c) \/ RestartContainer(c)
      PROVE  /\ \/ mounted' = mounted
                \/ values[c] # NoObject /\ mounted' = [mounted EXCEPT ![c] = values[c]]
             /\ \/ config' = config
                \/ config' = [config EXCEPT ![c] = NoObject]
                \/ config' = [config EXCEPT ![c] = mounted[c]]
  <2>1. StartPod(c) => values[c] # NoObject
    BY DEF StartPod
  <2> QED BY <1>3, <2>1 DEF StartContainer, RefreshMount, Replace, RestartContainer
<1>4. ASSUME NEW c \in Pieces,
             StartContainer(c) \/ RefreshMount(c) \/ Replace(c) \/ RestartContainer(c),
             NEW e \in Pieces
      PROVE  Right(mounted'[e]) /\ (config'[e] # NoObject => Right(config'[e]))
  BY <1>1, <1>3, <1>4
<1> QED BY <1>2, <1>4, PodSteps

(* Every step keeps the invariant. *)
LEMMA NamesNext ==
  ASSUME MaxFailures = 0, MaxDeletions = 0, NamesInv, [PodNext]_podVars
  PROVE  NamesInv'
<1>1. [Next]_vars
  BY SplitSteps
<1>2. TypeOK' /\ PodTypeOK'
  BY <1>1, NextTypeOK, MountTypes DEF NamesInv
<1>3. PodsInv' /\ \A p \in Pieces : \A ip : HasAddress(p, ip) => HasAddress(p, ip)'
  BY <1>1, PodsKept DEF NamesInv
<1>4. /\ Right(content')
      /\ \A c \in Pieces : values'[c] # NoObject => Right(values'[c])
  BY <1>1, ReconcilerNamesPods
<1>5. \A c \in Pieces : Right(mounted'[c]) /\ (config'[c] # NoObject => Right(config'[c]))
  BY PodsPassOn
<1>6. AddressesInv'
  <2>1. Right(content)'
    BY <1>3, <1>4 DEF Right
  <2>2. ASSUME NEW c \in Pieces
        PROVE  /\ (values[c] # NoObject => Right(values[c]))'
               /\ Right(mounted[c])'
               /\ (config[c] # NoObject => Right(config[c]))'
    BY <1>3, <1>4, <1>5 DEF Right
  <2> QED BY <2>1, <2>2 DEF AddressesInv
<1> QED BY <1>2, <1>3, <1>6 DEF NamesInv

(* No address is known at first. *)
LEMMA NamesInit == Init /\ InitialMounts => NamesInv
<1> SUFFICES ASSUME Init, InitialMounts PROVE NamesInv
  OBVIOUS
<1>1. Right(NoContent)
  BY DEF Right, NoContent
<1>2. /\ \A c \in Pieces : /\ values[c] = NoObject /\ pods[c] = {}
                           /\ mounted[c] = NoContent /\ config[c] = NoObject
      /\ content = NoContent
  BY DEF Init, Idle, InitialMounts
<1> QED BY <1>1, <1>2, InitialTypes DEF NamesInv, PodsInv, AddressesInv

(* While no pod fails and no Deployment is removed, and however often calls
   fail, the manager or a container restarts and the Split is edited: the
   configuration of a running pod names the pods it talks to, all of them, by
   the addresses they have. *)
THEOREM ConfigsNamePods ==
  ASSUME MaxFailures = 0, MaxDeletions = 0
  PROVE  PodSpec => []ConfigNamesPods
<1>1. NamesInv => ConfigNamesPods
  <2> SUFFICES ASSUME NamesInv, NEW c \in Pieces, config[c] # NoObject, NEW k \in DOMAIN PodsOf[c]
               PROVE  config[c][PodsOf[c][k]] = LiveAddress(PodsOf[c][k])
    BY DEF ConfigNamesPods
  <2> DEFINE p == PodsOf[c][k]
  <2>1. p \in Pieces /\ p \in Needed[c]
    <3>1. c = "cu" \/ c = "du" \/ c = "ru"
      BY DEF Pieces
    <3> QED BY <3>1 DEF PodsOf, Needed, Pieces
  <2> HIDE DEF p
  <2>2. config[c][p] # NoIP
    BY <2>1 DEF NamesInv, PodTypeOK
  <2>3. PICK pod \in pods[p] : pod.phase = "Running" /\ pod.ip = config[c][p]
    BY <2>1, <2>2 DEF NamesInv, AddressesInv, Right, HasAddress
  <2>4. pods[p] = {pod}
    BY <2>1 DEF NamesInv, PodsInv
  <2>5. LiveAddress(p) = pod.ip
    BY <2>3, <2>4 DEF LiveAddress
  <2> QED BY <2>3, <2>5 DEF p
<1>2. NamesInv /\ [PodNext]_podVars => NamesInv'
  BY NamesNext
<1> QED BY <1>1, <1>2, NamesInit, PTL DEF PodSpec
===============================================================================
