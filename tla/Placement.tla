------------------------------- MODULE Placement ------------------------------
(***************************************************************************)
(* One placement run: NewPlacementBFS and Place (algorithm/placement.go)   *)
(* with the disaggregation 8 strategy (algorithm/dsg8.go).  The RUs are    *)
(* first charged to their nodes; then, RU by RU, the paths from the core   *)
(* are searched (module PathSearch), a path with a CU and a DU node is     *)
(* chosen, and the DU, the CU and every link of the path are charged.      *)
(***************************************************************************)
EXTENDS Resources, SequencesExt

CONSTANTS
  Nodes,           \* the keys of topology.Nodes
  NoNode,          \* the empty node name
  Links,           \* the names a link may have
  Topologies,      \* topologies, [core : nodes marked core, link : the links]
  ClusterNodes,    \* the names of the cluster's nodes
  NodeLists,       \* answers of ListNodes: sequences of [name, cpu, memory]
  RUNodeLists,     \* the RUNodes of spec.RUs, in order
  ReqMemory,       \* requestedResources
  ReqCPU,
  Hauls            \* <<backhaul, midhaul, fronthaul>>, [bandwidth, latency]

ASSUME NodesAssumption == IsFiniteSet(Nodes)

ASSUME NoNodeAssumption == NoNode \notin Nodes

ASSUME TopologyAssumption ==
  \A t \in Topologies :
    /\ t.core \subseteq Nodes
    /\ \A l \in DOMAIN t.link : t.link[l].capacity \in Nat /\ t.link[l].delay \in Nat

ASSUME RequestAssumption == ReqMemory \in Nat /\ ReqCPU \in Nat

ASSUME NodeListAssumption ==
  NodeLists \subseteq Seq([name : ClusterNodes, cpu : Nat, memory : Nat])

ASSUME RUAssumption == RUNodeLists \subseteq Seq(Nodes \cup {NoNode})

ASSUME HaulAssumption ==
  /\ Hauls \in Seq([bandwidth : Nat, latency : Nat])
  /\ Len(Hauls) = 3

VARIABLES
  topology,        \* the topology read from its config map
  nodeList,        \* the cluster's nodes, as listed
  rus,             \* spec.RUs: [ruNode, cuNode, duNode, path], filled in place
  stage,           \* where the run is
  i,               \* the RU at hand
  hop,             \* the hop of its path to be charged next
  memory, cpu,     \* what is left of each node
  bandwidth,       \* what is left of each link
  root, links,     \* the graph (see PathSearch), and the search in it
  nodeToFind, queue, visited, pathsToNode, path, pending

Search == INSTANCE PathSearch

search == <<nodeToFind, queue, visited, pathsToNode, path, pending>>
graph == <<root, links>>
input == <<topology, nodeList>>
left == <<memory, cpu, bandwidth>>
vars == <<input, rus, stage, i, hop, left, graph, search>>

Ends(l) == {topology.link[l].source, topology.link[l].destination}

-------------------------------------------------------------------------------
(* NewPlacementBFS dereferences the cluster node of every topology node, and
   the graph node of both ends of every link. *)
GraphBuilds ==
  /\ Nodes \subseteq DOMAIN NodeListToMap(nodeList)
  /\ \A l \in DOMAIN topology.link : Ends(l) \subseteq Nodes

Panic == stage' = "panic" /\ UNCHANGED <<input, rus, i, hop, left, graph, search>>

NewPlacementPanics ==
  /\ stage = "new"
  /\ ~GraphBuilds
  /\ Panic

(* Of several nodes marked core, and of several links between two nodes, the
   one ranged over last stays; Go ranges over a map in any order. *)
NewPlacementBFS ==
  /\ stage = "new"
  /\ GraphBuilds
  /\ root' \in IF topology.core = {} THEN {NoNode} ELSE topology.core
  /\ \E last \in [{Ends(l) : l \in DOMAIN topology.link} -> DOMAIN topology.link] :
       /\ \A pair \in DOMAIN last : Ends(last[pair]) = pair
       /\ links' = [n \in Nodes |->
                     [m \in {x \in Nodes : {n, x} \in DOMAIN last} |-> last[{n, m}]]]
  /\ memory' = [n \in Nodes |-> NodeListToMap(nodeList)[n].memory]
  /\ cpu' = [n \in Nodes |-> NodeListToMap(nodeList)[n].cpu]
  /\ bandwidth' = [l \in DOMAIN topology.link |-> topology.link[l].capacity]
  /\ stage' = "rus"
  /\ UNCHANGED <<input, rus, i, hop, search>>

-------------------------------------------------------------------------------
(* Node.AllocateResources subtracts first and tests afterwards; on an error
   nothing is given back. *)
AllocateOn(n, ok, failed) ==
  /\ memory' = [memory EXCEPT ![n] = @ - ReqMemory]
  /\ cpu' = [cpu EXCEPT ![n] = @ - ReqCPU]
  /\ stage' = IF Overdrawn(memory'[n], cpu'[n]) THEN failed ELSE ok

(* allocateRUsResources, one iteration. *)
AllocateRU ==
  /\ stage = "rus"
  /\ i <= Len(rus)
  /\ rus[i].ruNode \in Nodes
  /\ AllocateOn(rus[i].ruNode, "rus", "ruError")
  /\ i' = i + 1
  /\ UNCHANGED <<input, rus, hop, bandwidth, graph, search>>

(* An RU on a node the topology does not have: p.nodes[ru.RUNode] is nil. *)
AllocateRUPanics ==
  /\ stage = "rus"
  /\ i <= Len(rus)
  /\ rus[i].ruNode \notin Nodes
  /\ Panic

RUsAllocated ==
  /\ stage = "rus"
  /\ i > Len(rus)
  /\ stage' = "place"
  /\ i' = 1
  /\ UNCHANGED <<input, rus, hop, left, graph, search>>

-------------------------------------------------------------------------------
(* Place, the loop over the RUs. *)
FindPaths ==
  /\ stage = "place"
  /\ i <= Len(rus)
  /\ root # NoNode
  /\ Search!StartSearch(rus[i].ruNode)
  /\ stage' = "search"
  /\ UNCHANGED <<input, rus, i, hop, left, graph>>

(* A topology without a core node: the search dereferences p.nodes[""]. *)
FindPathsPanics ==
  /\ stage = "place"
  /\ i <= Len(rus)
  /\ root = NoNode
  /\ Panic

SearchStep ==
  /\ stage = "search"
  /\ Search!Dequeue \/ \E n \in Nodes : Search!Explore(n)
  /\ UNCHANGED <<input, rus, stage, i, hop, left>>

Placed ==
  /\ stage = "place"
  /\ i > Len(rus)
  /\ stage' = "done"
  /\ UNCHANGED <<input, rus, i, hop, left, graph, search>>

-------------------------------------------------------------------------------
(* disaggregation8.Validate. *)
NodeHasResources(n) == HasResources(memory[n], cpu[n], ReqMemory, ReqCPU)

(* The first node after the CU's and before the RU's with resources; the name
   stays empty when there is none. *)
DUNodeOf(p) ==
  LET able == {k \in 3..Len(p) - 1 : NodeHasResources(p[k])}
  IN  IF able = {} THEN NoNode ELSE p[CHOOSE k \in able : \A j \in able : k <= j]

Candidate(p) == [cuNode |-> p[2], duNode |-> DUNodeOf(p), path |-> p]

Positions == {Candidate(p) : p \in {q \in Range(pathsToNode) : NodeHasResources(q[2])}}

(* validateNetwork walks the path and takes the next requirement from its queue
   of three at every node that is the core, the CU's or the DU's. *)
PlacementNodes(c) == {c.path[1], c.cuNode, c.duNode}

(* Mutant: a requirement is taken at every node. *)
GetsEverywhere(c, h) == Cardinality({k \in 1..h : c.path[k] \in Nodes})

Gets(c, h) == Cardinality({k \in 1..h : c.path[k] \in PlacementNodes(c)})

Requirement(c, h) == Hauls[Gets(c, h)]

(* A fourth Get on the queue of three waits for ever. *)
Blocks(c) == Gets(c, Len(c.path)) > Len(Hauls)

LinkOf(c, h) == links[c.path[h]][c.path[h + 1]]

Delay(l) == topology.link[l].delay

(* Mutant: the sum starts again at every hop. *)
TotalLatencyOfHop(c, h) == Delay(LinkOf(c, h))

(* totalLatency after hop h: the delays since the last placement node. *)
TotalLatency(c, h) ==
  LET total[k \in 1..h] ==
        Delay(LinkOf(c, k)) +
          IF c.path[k] \in PlacementNodes(c) THEN 0 ELSE total[k - 1]
  IN  total[h]

NetworkValid(c) ==
  \A h \in 1..Len(c.path) - 1 :
    /\ bandwidth[LinkOf(c, h)] >= Requirement(c, h).bandwidth
    /\ \/ Requirement(c, h).latency = 0
       \/ TotalLatency(c, h) <= Requirement(c, h).latency

Validating == stage = "search" /\ Search!Returned

ShortPath == \E p \in Range(pathsToNode) : Len(p) < 2

(* The RU is on the core node: path[1] is out of range. *)
ValidatePanics ==
  /\ Validating
  /\ ShortPath
  /\ Panic

(* Mutant: hops counted from zero. *)
AcceptFromZero ==
  /\ Validating
  /\ ~ShortPath
  /\ \E c \in Positions :
       /\ Blocks(c) \/ NetworkValid(c)
       /\ IF Blocks(c)
          THEN stage' = "blocked" /\ UNCHANGED <<rus, hop>>
          ELSE /\ rus' = [rus EXCEPT ![i] = [ruNode |-> @.ruNode, cuNode |-> c.cuNode,
                                             duNode |-> c.duNode, path |-> c.path]]
               /\ hop' = 0
               /\ stage' = "du"
  /\ UNCHANGED <<input, i, left, graph, search>>

(* Positions is a map: candidates are tried in any order and the first valid
   one is returned.  fulfillRU then writes it to the RU. *)
Accept ==
  /\ Validating
  /\ ~ShortPath
  /\ \E c \in Positions :
       /\ Blocks(c) \/ NetworkValid(c)
       /\ IF Blocks(c)
          THEN stage' = "blocked" /\ UNCHANGED <<rus, hop>>
          ELSE /\ rus' = [rus EXCEPT ![i] = [ruNode |-> @.ruNode, cuNode |-> c.cuNode,
                                             duNode |-> c.duNode, path |-> c.path]]
               /\ hop' = 1
               /\ stage' = "du"
  /\ UNCHANGED <<input, i, left, graph, search>>

(* Mutant: a rejected RU is tried again. *)
RejectAgain ==
  /\ Validating
  /\ ~ShortPath
  /\ \A c \in Positions : ~Blocks(c) /\ ~NetworkValid(c)
  /\ stage' = "place"
  /\ UNCHANGED <<input, rus, i, hop, left, graph, search>>

(* No candidate is valid: the RU is logged and left as it was. *)
Reject ==
  /\ Validating
  /\ ~ShortPath
  /\ \A c \in Positions : ~Blocks(c) /\ ~NetworkValid(c)
  /\ stage' = "place"
  /\ i' = i + 1
  /\ UNCHANGED <<input, rus, hop, left, graph, search>>

-------------------------------------------------------------------------------
(* Mutant: the DU is charged to the node of the RU. *)
AllocateDUOnRU ==
  /\ stage = "du"
  /\ rus[i].duNode \in Nodes
  /\ AllocateOn(rus[i].ruNode, "cu", "allocError")
  /\ UNCHANGED <<input, rus, i, hop, bandwidth, graph, search>>

(* disaggregation8.AllocateResources: the DU, then the CU, then the links. *)
AllocateDU ==
  /\ stage = "du"
  /\ rus[i].duNode \in Nodes
  /\ AllocateOn(rus[i].duNode, "cu", "allocError")
  /\ UNCHANGED <<input, rus, i, hop, bandwidth, graph, search>>

(* No node for the DU was found: d.nodes[""] is nil. *)
AllocateDUPanics ==
  /\ stage = "du"
  /\ rus[i].duNode \notin Nodes
  /\ Panic

(* Mutant: the CU is charged to the DU's node. *)
AllocateCUOnDU ==
  /\ stage = "cu"
  /\ AllocateOn(rus[i].duNode, "links", "allocError")
  /\ UNCHANGED <<input, rus, i, hop, bandwidth, graph, search>>

AllocateCU ==
  /\ stage = "cu"
  /\ AllocateOn(rus[i].cuNode, "links", "allocError")
  /\ UNCHANGED <<input, rus, i, hop, bandwidth, graph, search>>

(* Mutant: the last hop is forgotten. *)
AllocateLinkButLast ==
  LET l == LinkOf(rus[i], hop)
  IN  /\ stage = "links"
      /\ bandwidth' = [bandwidth EXCEPT ![l] = @ - Requirement(rus[i], hop).bandwidth]
      /\ hop' = hop + 1
      /\ IF bandwidth'[l] < 0
         THEN stage' = "allocError" /\ i' = i
         ELSE IF hop + 2 = Len(rus[i].path)
              THEN stage' = "place" /\ i' = i + 1
              ELSE UNCHANGED <<stage, i>>
      /\ UNCHANGED <<input, rus, memory, cpu, graph, search>>

(* One iteration of validateNetwork with allocateResources set. *)
AllocateLink ==
  LET l == LinkOf(rus[i], hop)
  IN  /\ stage = "links"
      /\ bandwidth' = [bandwidth EXCEPT ![l] = @ - Requirement(rus[i], hop).bandwidth]
      /\ hop' = hop + 1
      /\ IF bandwidth'[l] < 0
         THEN stage' = "allocError" /\ i' = i
         ELSE IF hop + 1 = Len(rus[i].path)
              THEN stage' = "place" /\ i' = i + 1
              ELSE UNCHANGED <<stage, i>>
      /\ UNCHANGED <<input, rus, memory, cpu, graph, search>>

-------------------------------------------------------------------------------
Init ==
  /\ topology \in Topologies
  /\ nodeList \in NodeLists
  /\ \E ruNodes \in RUNodeLists :
       rus = [k \in DOMAIN ruNodes |-> [ruNode |-> ruNodes[k], cuNode |-> NoNode,
                                        duNode |-> NoNode, path |-> <<>>]]
  /\ stage = "new" /\ i = 1 /\ hop = 1
  /\ memory = <<>> /\ cpu = <<>> /\ bandwidth = <<>>
  /\ root = NoNode /\ links = <<>>
  /\ nodeToFind = NoNode /\ queue = <<>> /\ visited = {}
  /\ pathsToNode = <<>> /\ path = <<>> /\ pending = {}

Next ==
  \/ NewPlacementBFS \/ NewPlacementPanics
  \/ AllocateRU \/ AllocateRUPanics \/ RUsAllocated
  \/ FindPaths \/ FindPathsPanics \/ SearchStep
  \/ ValidatePanics \/ Accept \/ Reject
  \/ AllocateDU \/ AllocateDUPanics \/ AllocateCU \/ AllocateLink
  \/ Placed

(* A run is one sequential call that never pauses between its steps. *)
Spec == Init /\ [][Next]_vars /\ WF_vars(Next)

-------------------------------------------------------------------------------
Built == stage \notin {"new", "panic"}

Stages == {"new", "rus", "place", "search", "du", "cu", "links", "done",
           "ruError", "allocError", "blocked", "panic"}

RUType == [ruNode : Nodes \cup {NoNode}, cuNode : Nodes \cup {NoNode},
           duNode : Nodes \cup {NoNode}, path : Seq(Nodes)]

TypeOK ==
  /\ topology \in Topologies
  /\ nodeList \in NodeLists
  /\ rus \in Seq(RUType)
  /\ stage \in Stages
  /\ i \in 1..Len(rus) + 1
  /\ hop \in Nat \ {0}
  /\ Built => /\ memory \in [Nodes -> Int]
              /\ cpu \in [Nodes -> Int]
              /\ bandwidth \in [DOMAIN topology.link -> Int]
              /\ root \in Nodes \cup {NoNode}
              /\ DOMAIN links = Nodes
  /\ stage = "search" => Search!TypeOK

(* Hops of the RU k that have been charged to their links. *)
ChargedHops(k) ==
  {h \in 1..Len(rus[k].path) - 1 : k < i \/ (k = i /\ stage = "links" /\ h < hop)}

(* The haul hop h of chain r belongs to, told by where the CU and the DU are:
   core to CU, CU to DU, DU to RU. *)
HaulOf(r, h) ==
  LET at(n) == CHOOSE k \in DOMAIN r.path : r.path[k] = n
  IN  CASE h < at(r.cuNode) -> 1
        [] at(r.cuNode) <= h /\ h < at(r.duNode) -> 2
        [] at(r.duNode) <= h -> 3

(* What they need of link l, each hop the bandwidth of its haul. *)
ChargedTo(l, k) ==
  SumFunction([h \in {g \in ChargedHops(k) : LinkOf(rus[k], g) = l} |->
                Hauls[HaulOf(rus[k], h)].bandwidth])

(* A run that has not stopped half-way through an allocation. *)
InStep == stage \in {"rus", "place", "search", "du", "cu", "links", "done"}

(* Every link has exactly its capacity less what the chains placed on it need,
   each hop at the bandwidth of its own haul, no chain forgotten and none
   charged twice, between the hops of one chain too: status.remainingBandwidth
   is read off these numbers (dsg8.go:93-126, splitsplacer_controller.go:304). *)
LinkAccounting ==
  InStep /\ stage # "rus" =>
    \A l \in DOMAIN bandwidth :
      bandwidth[l] = topology.link[l].capacity -
        SumFunction([k \in DOMAIN rus |-> ChargedTo(l, k)])

(* A node has been charged once for every RU, DU and CU it hosts and never for
   another node's: the three are charged at three places of the code
   (placement.go:160, dsg8.go:133, 138). *)
NodeAccounting ==
  InStep =>
    \A n \in Nodes :
      LET before == NodeListToMap(nodeList)[n]
          ru == {k \in DOMAIN rus : rus[k].ruNode = n /\ (stage # "rus" \/ k < i)}
          du == {k \in DOMAIN rus : rus[k].duNode = n /\ (stage # "du" \/ k < i)}
          cu == {k \in DOMAIN rus : rus[k].cuNode = n /\ (stage \notin {"du", "cu"} \/ k < i)}
          hosted == Cardinality(ru) + Cardinality(du) + Cardinality(cu)
      IN  /\ cpu[n] = before.cpu - hosted * ReqCPU
          /\ memory[n] = before.memory - hosted * ReqMemory

(* What Validate checked is still there when it is allocated: an allocation
   for an accepted RU never fails, so it never stops half-way with the DU or
   some of the links charged, and nothing is ever overbooked.  The check reads
   all resources before any is charged, and takes the CU, the DU and the hops
   for different things (dsg8.go:30-83, 130-148). *)
NoOverbooking ==
  /\ stage # "allocError"
  /\ Built => \A l \in DOMAIN bandwidth : bandwidth[l] >= 0
  /\ Built /\ stage # "ruError" => \A n \in Nodes : memory[n] >= 0 /\ cpu[n] >= 0

(* The queue of three requirements is never asked for a fourth: a path passes
   the core, the CU and the DU once each.  queue.Get on the empty queue would
   hold the reconciler for ever (dsg8.go:87-99). *)
RequirementsSuffice == stage # "blocked"

(* A chain that has been written to an RU and got a DU runs from the core over
   the CU and then the DU to the node of the RU, three different nodes after
   the core, and each haul keeps its latency end to end, although the code sums
   it hop by hop and resets the sum on the way (dsg8.go:95-122). *)
ChainsKeepRequirements ==
  \A k \in DOMAIN rus :
    LET chain == rus[k]
        haul(x) == {h \in 1..Len(chain.path) - 1 : HaulOf(chain, h) = x}
    IN  chain.duNode # NoNode =>
          /\ Search!IsRoute(chain.path)
          /\ Last(chain.path) = chain.ruNode
          /\ chain.cuNode = chain.path[2]
          /\ Cardinality({root, chain.cuNode, chain.duNode, chain.ruNode}) = 4
          /\ \A x \in 1..3 :
               \/ Hauls[x].latency = 0
               \/ SumFunction([h \in haul(x) |-> Delay(LinkOf(chain, h))]) <= Hauls[x].latency

(* An RU is only passed over when no shortest path to it can carry it, whatever
   the map orders were: with what is left at that moment, none of them has a CU
   node with resources and the network for it (placement.go:97-107,
   dsg8.go:69-82).  It need not be so at the end: a later chain may take the
   resources of the DU's node, and with the DU further on the path fit. *)
RejectedOnlyIfInfeasible ==
  [][stage = "search" /\ stage' = "place" =>
       \A p \in Search!RoutesTo(rus[i].ruNode) :
         Search!IsShortest(p) => ~NodeHasResources(p[2]) \/ ~NetworkValid(Candidate(p))]_vars

(* Place comes back, or crashes: neither the search nor the queue of
   requirements, whose Get waits when it is empty, holds it up for ever
   (placement.go:135, dsg8.go:99). *)
PlaceReturns == <>(stage \in {"done", "ruError", "allocError", "panic"})

-------------------------------------------------------------------------------
(* What the repository says of a placement run and the code does not do.   *)

(* utils/types.go:14 promises that Place fulfills each ChainPosition according
   to the results of the algorithm: a run on sound input ends in an answer.  It
   crashes on an RU that is on the core or fewer than three hops away from it,
   and on a path whose inner nodes after the CU have no resources left. *)
PlaceDoesNotCrash == stage # "panic"

(* dsg8.go:45 says of the CU's node that Validate has checked "if the node has
   resources to run the CU": with what the cluster reports of that node, the
   instances put on it fit.  The check reads the last listed node instead. *)
CUNodesCanRunTheirCUs ==
  stage = "done" =>
    \A k \in DOMAIN rus :
      LET n == rus[k].cuNode
          hosted == Cardinality({j \in DOMAIN rus : rus[j].ruNode = n}) +
                    Cardinality({j \in DOMAIN rus : rus[j].cuNode = n}) +
                    Cardinality({j \in DOMAIN rus : rus[j].duNode = n})
      IN  n # NoNode => hosted * ReqCPU <= NodeListToOwnMap(nodeList)[n].cpu
===============================================================================
