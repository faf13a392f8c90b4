------------------------------- MODULE MCReplacer -----------------------------
(***************************************************************************)
(* The three pods of one Split, each on a node of its own, with replacers. *)
(***************************************************************************)
EXTENDS Replacer, TLC

CONSTANTS n1, n2, n3, a1, a2, b1, c1, core

OneEach == n1 :> {a1} @@ n2 :> {b1} @@ n3 :> {c1}
OneToSpare == n1 :> {a1, a2} @@ n2 :> {b1} @@ n3 :> {c1}

NodeOf == [cu |-> n1, du |-> n2, ru |-> n3]
IPOf == [cu |-> a1, du |-> b1, ru |-> c1]

MCInitialNodes == {NodeOf}

(* The first reconcile has found no pods: the values are empty, the status says
   Running, and the Deployments have made their pods. *)
DeployedInit ==
  /\ split = [generation |-> 0, spec |-> NodeOf, status |-> [NoStatus EXCEPT !.state = "Running"]]
  /\ templates = Pieces
  /\ values = [c \in Pieces |-> NoContent]
  /\ deployed = NodeOf
  /\ pods = [c \in Pieces |-> {[node |-> NodeOf[c], ip |-> NoIP, phase |-> "Pending"]}]
  /\ Idle
  /\ faults = 0 /\ crashes = 0 /\ failures = 0 /\ deletions = 0
  /\ InitialMounts

DeployedSpec == DeployedInit /\ [][PodNext]_podVars /\ PodFairness

(* All three have been configured. *)
Known(c) == [p \in Pieces |-> IF \E k \in DOMAIN PodsOf[c] : PodsOf[c][k] = p THEN IPOf[p] ELSE NoIP]

ConfiguredInit ==
  /\ split = [generation |-> 0, spec |-> NodeOf,
              status |-> [pods |-> [c \in Pieces |-> [node |-> NodeOf[c], ip |-> IPOf[c]]],
                          state |-> "Running"]]
  /\ templates = Pieces
  /\ values = [c \in Pieces |-> Known(c)]
  /\ deployed = NodeOf
  /\ pods = [c \in Pieces |-> {[node |-> NodeOf[c], ip |-> IPOf[c], phase |-> "Running"]}]
  /\ Idle
  /\ faults = 0 /\ crashes = 0 /\ failures = 0 /\ deletions = 0
  /\ mounted = values /\ config = values /\ restarts = 0

ConfiguredSpec == ConfiguredInit /\ [][PodNext]_podVars /\ PodFairness
===============================================================================
