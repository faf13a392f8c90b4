-------------------------- MODULE MCSplitController ---------------------------
(* One Split, new or brought up already. *)
EXTENDS SplitController, TLC

CONSTANTS n1, n2, n3, a1, a2, a3, b1, b2, c1

(* An address to spare on every node for a pod that fails or is moved. *)
OneToSpare == n1 :> {a1, a2, a3} @@ n2 :> {b1, b2} @@ n3 :> {c1}

(* Where the pods of a Split that is up run, and their addresses. *)
NodeOf == [cu |-> n1, du |-> n1, ru |-> n2]
IPOf == [cu |-> a1, du |-> a2, ru |-> b1]

(* Where a new Split is to run. *)
NewNodeOf == [cu |-> n3, du |-> n2, ru |-> n2]

MCInitialNodes == {NodeOf, NewNodeOf}

Settled(generation) ==
  [generation |-> generation, spec |-> NodeOf,
   status |-> [pods |-> [c \in Pieces |-> [node |-> NodeOf[c], ip |-> IPOf[c]]],
               state |-> "Running"]]

(* A Split that has been brought up already.  Either its pods fail and the
   manager restarts, or its Deployments are removed and its nodes edited: the
   other bounds count as used up. *)
SettledInit ==
  /\ \/ failures = 0 /\ crashes = 0 /\ deletions = MaxDeletions /\ split = Settled(MaxEdits)
     \/ failures = MaxFailures /\ crashes = MaxCrashes /\ deletions = 0 /\ split = Settled(0)
  /\ templates = Pieces
  /\ values = [c \in Pieces |-> [p \in Pieces |->
                 IF \E i \in DOMAIN PodsOf[c] : PodsOf[c][i] = p THEN IPOf[p] ELSE NoIP]]
  /\ deployed = NodeOf
  /\ pods = [c \in Pieces |-> {[node |-> NodeOf[c], ip |-> IPOf[c], phase |-> "Running"]}]
  /\ Idle
  /\ faults = MaxFaults

(* A Split just created, whose calls may fail. *)
CreatedInit ==
  /\ split = [generation |-> MaxEdits, spec |-> NewNodeOf, status |-> NoStatus]
  /\ templates = {}
  /\ values = [c \in Pieces |-> NoObject]
  /\ deployed = <<>>
  /\ pods = [c \in Pieces |-> {}]
  /\ Idle
  /\ faults = 0 /\ crashes = MaxCrashes /\ failures = MaxFailures /\ deletions = MaxDeletions

MCSpec == (CreatedInit \/ SettledInit) /\ [][Next]_vars /\ Fairness
===============================================================================
