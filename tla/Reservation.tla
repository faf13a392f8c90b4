------------------------------ MODULE Reservation -----------------------------
(***************************************************************************)
(* What a placement run promises (utils/types.go, the comment of Place):   *)
(* every RU in turn gets a chain or none.  A chain is reserved in one      *)
(* step, at both nodes and on all its links, and only if everything fits;  *)
(* there is no chain in the making, and nothing is ever given back.        *)
(***************************************************************************)
EXTENDS Resources

CONSTANTS Nodes, NoChain, ReqMemory, ReqCPU, Hauls

VARIABLES
  hosts,           \* the node of each RU
  links,           \* links[n][m]: the link from n to m
  memory, cpu,     \* what is left of each node
  bandwidth,       \* what is left of each link
  chains,          \* the chain of each RU, NoChain while it has none
  turn,            \* the RU whose turn it is
  phase            \* "new", "hosting", "placing" or "over"

left == <<memory, cpu, bandwidth>>
vars == <<hosts, links, left, chains, turn, phase>>

Hops(chain) == 1..Len(chain.path) - 1

LinkOf(chain, h) == links[chain.path[h]][chain.path[h + 1]]

(* The haul that hop h is part of: core to CU, CU to DU, DU to RU. *)
HaulOf(chain, h) ==
  LET passed(n) == \E k \in 1..h : chain.path[k] = n
  IN  CASE passed(chain.duNode) -> 3
        [] passed(chain.cuNode) /\ ~passed(chain.duNode) -> 2
        [] OTHER -> 1

(* The chain crosses no link twice, and needs its haul's bandwidth on each. *)
CrossesOnce(chain) ==
  \A g, h \in Hops(chain) : LinkOf(chain, g) = LinkOf(chain, h) => g = h

Need(chain, l) ==
  IF \E h \in Hops(chain) : LinkOf(chain, h) = l
  THEN Hauls[HaulOf(chain, CHOOSE h \in Hops(chain) : LinkOf(chain, h) = l)].bandwidth
  ELSE 0

(* Instances the chain puts on node n besides the RU. *)
Load(chain, n) ==
  (IF n = chain.cuNode THEN 1 ELSE 0) + (IF n = chain.duNode THEN 1 ELSE 0)

(* Nodes and links are there with all they have; the graph stays as it is. *)
SetUp ==
  /\ phase = "new"
  /\ phase' = "hosting"
  /\ DOMAIN links' = Nodes
  /\ memory' \in [Nodes -> Nat] /\ cpu' \in [Nodes -> Nat]
  /\ \A l \in DOMAIN bandwidth' : bandwidth'[l] \in Nat
  /\ UNCHANGED <<hosts, chains, turn>>

(* An RU is where it is: its node is charged, and the run ends if that is too
   much for the node. *)
HostRU ==
  /\ phase = "hosting"
  /\ turn \in DOMAIN hosts /\ hosts[turn] \in Nodes
  /\ LET n == hosts[turn]
     IN  /\ memory' = [memory EXCEPT ![n] = @ - ReqMemory]
         /\ cpu' = [cpu EXCEPT ![n] = @ - ReqCPU]
         /\ phase' = IF Overdrawn(memory'[n], cpu'[n]) THEN "over" ELSE "hosting"
  /\ turn' = turn + 1
  /\ UNCHANGED <<hosts, links, bandwidth, chains>>

StartPlacing ==
  /\ phase = "hosting"
  /\ turn \notin DOMAIN hosts
  /\ phase' = "placing"
  /\ turn' = 1
  /\ UNCHANGED <<hosts, links, left, chains>>

Placing == phase = "placing" /\ turn \in DOMAIN hosts /\ turn' = turn + 1

(* The chain, whichever it is, is taken whole and fits. *)
Reserve ==
  LET chain == chains'[turn]
  IN  /\ Placing
      /\ chain # NoChain
      /\ chains' = [chains EXCEPT ![turn] = chain]
      /\ CrossesOnce(chain)
      /\ memory' = [n \in Nodes |-> memory[n] - Load(chain, n) * ReqMemory]
      /\ cpu' = [n \in Nodes |-> cpu[n] - Load(chain, n) * ReqCPU]
      /\ \A n \in Nodes : ~Overdrawn(memory'[n], cpu'[n])
      /\ bandwidth' = [l \in DOMAIN bandwidth |-> bandwidth[l] - Need(chain, l)]
      /\ \A l \in DOMAIN bandwidth : bandwidth'[l] >= 0
      /\ UNCHANGED <<hosts, links, phase>>

Reject == Placing /\ UNCHANGED <<hosts, links, left, chains, phase>>

(* All RUs have had their turn, or the manager panics. *)
Stop ==
  /\ phase # "over"
  /\ phase' = "over"
  /\ UNCHANGED <<hosts, links, left, chains, turn>>

Init ==
  /\ phase = "new"
  /\ turn = 1
  /\ chains = [k \in DOMAIN hosts |-> NoChain]

Next == SetUp \/ HostRU \/ StartPlacing \/ Reserve \/ Reject \/ Stop

Spec == Init /\ [][Next]_vars
===============================================================================
