-------------------------------- MODULE Replacer ------------------------------
(***************************************************************************)
(* The replacer (replacer/cmd/main.go), which starts in the container of   *)
(* every pod: it reads the values mounted there again and again until the  *)
(* addresses its piece needs are all given, writes the configuration of    *)
(* the OAI software from them, once, and ends.  It is composed with the    *)
(* Split reconciler, which writes the values, by the kubelet, which brings *)
(* a change of the config map to the pod some time later.                  *)
(*                                                                         *)
(* The file is replaced as a whole, and an address it leaves empty is read *)
(* as an empty one: what a read gives is the mounted file and no mixture.  *)
(* A read that is not complete, or fails and has the container start over, *)
(* changes nothing.                                                        *)
(***************************************************************************)
EXTENDS SplitController

CONSTANTS
  CoreIP,          \* spec.CoreIP, the CU's upfaddress
  MaxRestarts      \* bound: containers that start over after the replacer ended

ASSUME RestartAssumption == MaxRestarts \in Nat

VARIABLES
  mounted,         \* the values as the running pod of a piece sees them
  config,          \* /config/config.conf of that pod, NoObject before it is written
  restarts

inPods == <<mounted, config, restarts>>
podVars == <<vars, inPods>>

Running(c) == \E pod \in pods[c] : pod.phase = "Running"

(* Mutant: only the pod's own address is waited for. *)
NeededLocally == [cu |-> {"cu"}, du |-> {"du"}, ru |-> {"ru"}]

(* Mutant: the RU waits for a south address as the CU and the DU do. *)
NeededOnAllSides == [cu |-> {"cu", "du"}, du |-> {"cu", "du", "ru"}, ru |-> {"cu", "du", "ru"}]

(* The pods whose addresses getCU-, getDU- and getRUContent wait for: local and
   south; local, north and south; local and north. *)
Needed == [cu |-> {"cu", "du"}, du |-> {"cu", "du", "ru"}, ru |-> {"du", "ru"}]

Complete(c) ==
  /\ \A p \in Needed[c] : mounted[c][p] # NoIP
  /\ c = "cu" => CoreIP # NoIP

(* Mutant: the values are read once, whether complete or not. *)
ReplaceAtOnce(c) ==
  /\ Running(c)
  /\ config[c] = NoObject
  /\ config' = [config EXCEPT ![c] = mounted[c]]
  /\ UNCHANGED <<vars, mounted, restarts>>

(* The last turn of the loop, and replacer. *)
Replace(c) ==
  /\ Running(c)
  /\ config[c] = NoObject
  /\ Complete(c)
  /\ config' = [config EXCEPT ![c] = mounted[c]]
  /\ UNCHANGED <<vars, mounted, restarts>>

-------------------------------------------------------------------------------
(* The pod of a piece starts with the values of this moment and without a
   configuration. *)
StartContainer(c) ==
  /\ StartPod(c)
  /\ mounted' = [mounted EXCEPT ![c] = values[c]]
  /\ config' = [config EXCEPT ![c] = NoObject]
  /\ UNCHANGED restarts

(* The kubelet brings the mounted values up to date. *)
RefreshMount(c) ==
  /\ Running(c)
  /\ values[c] # NoObject
  /\ mounted[c] # values[c]
  /\ mounted' = [mounted EXCEPT ![c] = values[c]]
  /\ UNCHANGED <<vars, config, restarts>>

(* The OAI software ends, and the kubelet starts the container again: same pod,
   same address, an empty file system. *)
RestartContainer(c) ==
  /\ restarts < MaxRestarts
  /\ restarts' = restarts + 1
  /\ Running(c)
  /\ config[c] # NoObject
  /\ config' = [config EXCEPT ![c] = NoObject]
  /\ UNCHANGED <<vars, mounted>>

InitialMounts ==
  /\ mounted = [c \in Pieces |-> NoContent]
  /\ config = [c \in Pieces |-> NoObject]
  /\ restarts = 0

OtherStep ==
  \/ Reconcile \/ PodCreated \/ PodFails \/ PodRemoved \/ DeploymentDeleted \/ EditNodes
  \/ Restart

PodNext ==
  \/ OtherStep /\ UNCHANGED inPods
  \/ \E c \in Pieces : StartContainer(c) \/ RefreshMount(c) \/ Replace(c) \/ RestartContainer(c)

(* As in SplitController; besides, the kubelet refreshes what it has mounted
   and a replacer that runs goes on. *)
PodFairness ==
  /\ WF_podVars(Reconcile /\ UNCHANGED inPods)
  /\ WF_podVars(PodCreated /\ UNCHANGED inPods)
  /\ WF_podVars(\E c \in Pieces : StartContainer(c))
  /\ \A c \in Pieces : WF_podVars(RefreshMount(c)) /\ WF_podVars(Replace(c))

PodSpec == Init /\ InitialMounts /\ [][PodNext]_podVars /\ PodFairness

-------------------------------------------------------------------------------
PodTypeOK ==
  /\ mounted \in [Pieces -> Contents]
  /\ config \in [Pieces -> Contents \cup {NoObject}]
  /\ \A c \in Pieces : config[c] # NoObject => \A p \in Needed[c] : config[c][p] # NoIP
  /\ restarts \in 0..MaxRestarts

(* While no pod fails, a configuration names the pods its piece talks to, all
   of them and by the addresses they have: the replacer waits for the last
   empty one, however the pods, the reconciler and the kubelet take turns, and
   starts over as well as it started (main.go:53-75,
   split_controller.go:331-420). *)
ConfigNamesPods ==
  \A c \in Pieces :
    Running(c) /\ config[c] # NoObject =>
      \A i \in DOMAIN PodsOf[c] : config[c][PodsOf[c][i]] = LiveAddress(PodsOf[c][i])

(* Every piece gets its configuration in the end, although each waits for the
   others' addresses and the reconciler for all of them: no loop of a replacer
   waits for a value that is never written (main.go:53-75). *)
AllConfigured == <>[](\A c \in Pieces : Running(c) /\ config[c] # NoObject)

(* Readme.md:18-20 says that the replacer gets the configuration information
   and provides it to the OAI software, and template.conf:24 makes the local
   address the one the software binds to: a pod is configured with its own. *)
ConfiguredWithOwnAddress ==
  \A c \in Pieces : \A pod \in pods[c] :
    pod.phase = "Running" /\ config[c] # NoObject => config[c][c] = pod.ip
===============================================================================
