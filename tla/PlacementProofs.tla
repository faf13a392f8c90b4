---------------------------- MODULE PlacementProofs ---------------------------
(***************************************************************************)
(* Proofs about Placement, for every topology, cluster, list of RUs and    *)
(* requirement.                                                            *)
(***************************************************************************)
EXTENDS Placement, FiniteSetTheorems, WellFoundedInduction, TLAPS

P == INSTANCE PathSearchProofs

(* The link stored for two nodes joins these two. *)
GraphInv ==
  Built =>
    \A n \in Nodes :
      /\ DOMAIN links[n] \subseteq Nodes
      /\ \A m \in DOMAIN links[n] :
           links[n][m] \in DOMAIN topology.link /\ Ends(links[n][m]) = {n, m}

(* Every RU that has been charged is on a node of the topology. *)
RUsInv ==
  \A k \in DOMAIN rus :
    \/ stage \in {"place", "search", "du", "cu", "links"}
    \/ stage \in {"new", "rus"} /\ k < i
    => rus[k].ruNode \in Nodes

SearchInv ==
  stage = "search" => i \in DOMAIN rus /\ nodeToFind = rus[i].ruNode /\ P!BreadthInv

(* While a chain is being allocated: what Validate saw of the CU, the DU and
   the hops not yet charged still holds. *)
ChainInv ==
  stage \in {"du", "cu", "links"} =>
    /\ i \in DOMAIN rus
    /\ P!IsRoute(rus[i].path)
    /\ Len(rus[i].path) >= 2
    /\ rus[i].cuNode = rus[i].path[2]
    /\ hop \in 1..Len(rus[i].path) - 1
    /\ \A h \in hop..Len(rus[i].path) - 1 :
         bandwidth[LinkOf(rus[i], h)] >= Requirement(rus[i], h).bandwidth

HostInv ==
  /\ stage \in {"du", "cu"} => NodeHasResources(rus[i].cuNode)
  /\ stage = "du" /\ rus[i].duNode \in Nodes =>
       rus[i].duNode # rus[i].cuNode /\ NodeHasResources(rus[i].duNode)

IInv ==
  /\ TypeOK /\ NoOverbooking /\ RequirementsSuffice
  /\ GraphInv /\ RUsInv /\ SearchInv /\ ChainInv /\ HostInv

-------------------------------------------------------------------------------
(* What the search assumes of its nodes. *)
LEMMA SearchAssumption == P!NodesAssumption
BY NodesAssumption DEF IsFiniteSet, P!IsFiniteSet

(* A node that HasResources accepts is not overdrawn by the request, rounding
   and all. *)
LEMMA EnoughLeft ==
  ASSUME NEW m \in Int, NEW q \in Int, HasResources(m, q, ReqMemory, ReqCPU)
  PROVE  ~Overdrawn(m - ReqMemory, q - ReqCPU)
BY RequestAssumption DEF HasResources, Overdrawn, Value

(* What is not overdrawn is not negative. *)
LEMMA NotOverdrawn ==
  ASSUME NEW m \in Int, NEW q \in Int, ~Overdrawn(m, q)
  PROVE  m >= 0 /\ q >= 0
BY DEF Overdrawn, Value

(* Two hops of a route use two links, both of the topology. *)
LEMMA HopsUseDifferentLinks ==
  ASSUME Built, GraphInv, NEW c, P!IsRoute(c.path), NEW h \in 1..Len(c.path) - 1
  PROVE  /\ LinkOf(c, h) \in DOMAIN topology.link
         /\ \A j \in 1..Len(c.path) - 1 : j # h => LinkOf(c, j) # LinkOf(c, h)
<1> DEFINE p == c.path
<1>1. /\ p \in Seq(Nodes)
      /\ Len(p) \in Nat
      /\ \A k \in 1..Len(p) - 1 : p[k + 1] \in DOMAIN links[p[k]]
      /\ \A j, k \in 1..Len(p) : p[j] = p[k] => j = k
  BY DEF P!IsRoute
<1> HIDE DEF p
<1>2. \A k \in 1..Len(p) - 1 : /\ links[p[k]][p[k + 1]] \in DOMAIN topology.link
                               /\ Ends(links[p[k]][p[k + 1]]) = {p[k], p[k + 1]}
  <2> SUFFICES ASSUME NEW k \in 1..Len(p) - 1
               PROVE  /\ links[p[k]][p[k + 1]] \in DOMAIN topology.link
                      /\ Ends(links[p[k]][p[k + 1]]) = {p[k], p[k + 1]}
    OBVIOUS
  <2>1. p[k] \in Nodes
    BY <1>1
  <2> QED BY <1>1, <2>1 DEF GraphInv
<1>3. ASSUME NEW j \in 1..Len(p) - 1, j # h, NEW k \in 1..Len(p) - 1, k = h,
             links[p[j]][p[j + 1]] = links[p[k]][p[k + 1]]
      PROVE  FALSE
  <2>1. {p[j], p[j + 1]} = {p[k], p[k + 1]}
    BY <1>2, <1>3
  <2>2. j \in 1..Len(p) /\ j + 1 \in 1..Len(p) /\ k \in 1..Len(p) /\ k + 1 \in 1..Len(p)
    BY <1>1
  <2>3. p[j] = p[k] \/ p[j] = p[k + 1]
    BY <2>1
  <2>4. p[j + 1] = p[k] \/ p[j + 1] = p[k + 1]
    BY <2>1
  <2>5. j = k \/ j = k + 1
    BY <2>2, <2>3, <1>1
  <2>6. j + 1 = k \/ j + 1 = k + 1
    BY <2>2, <2>4, <1>1
  <2> QED BY <2>5, <2>6, <1>3
<1> QED BY <1>2, <1>3 DEF p, LinkOf

(* Three names make a set of at most three. *)
LEMMA ThreeNodes ==
  ASSUME NEW x, NEW y, NEW z
  PROVE  LET N == ({x} \cup {y}) \cup {z}
         IN  IsFiniteSet(N) /\ Cardinality(N) <= 3 /\ Cardinality(N) \in Nat
<1> DEFINE X == {x}
           Y == X \cup {y}
           Z == Y \cup {z}
<1>1. IsFiniteSet(X) /\ Cardinality(X) = 1
  BY FS_Singleton
<1> HIDE DEF X
<1>2. IsFiniteSet(Y) /\ (Cardinality(Y) = 1 \/ Cardinality(Y) = 2)
  BY <1>1, FS_AddElement
<1> HIDE DEF Y
<1>3. IsFiniteSet(Z) /\ Cardinality(Z) \in 1..3
  BY <1>2, FS_AddElement
<1> QED BY <1>3 DEF Z, Y, X

(* A route passes its first node, the CU's and the DU's at most once each, so
   the walk takes between one and three requirements. *)
LEMMA GetsBound ==
  ASSUME NEW c, P!IsRoute(c.path), NEW h \in 1..Len(c.path)
  PROVE  Gets(c, h) \in 1..3 /\ Requirement(c, h).bandwidth \in Nat
<1> DEFINE p == c.path
           N == PlacementNodes(c)
           K == {k \in 1..h : p[k] \in N}
           f == [k \in K |-> p[k]]
<1>1. /\ Len(p) \in Nat
      /\ \A j, k \in 1..Len(p) : p[j] = p[k] => j = k
  BY DEF P!IsRoute
<1>2. IsFiniteSet(N) /\ Cardinality(N) <= 3 /\ Cardinality(N) \in Nat
  <2>1. N = ({c.path[1]} \cup {c.cuNode}) \cup {c.duNode}
    BY DEF PlacementNodes
  <2> HIDE DEF N
  <2> QED BY <2>1, ThreeNodes, Zenon
<1>3. f \in Injection(K, N)
  <2>1. f \in [K -> N]
    OBVIOUS
  <2>2. \A j, k \in K : f[j] = f[k] => j = k
    BY <1>1
  <2> QED BY <2>1, <2>2 DEF Injection, IsInjective
<1>4. IsFiniteSet(K) /\ Cardinality(K) <= 3 /\ Cardinality(K) \in Nat
  <2>1. IsFiniteSet(K) /\ Cardinality(K) <= Cardinality(N)
    BY <1>2, <1>3, FS_Injection
  <2> QED BY <1>2, <2>1, FS_CardinalityType
<1>5. Cardinality(K) # 0
  <2>1. 1 \in K
    BY DEF PlacementNodes
  <2> QED BY <1>4, <2>1, FS_EmptySet
<1>6. Gets(c, h) = Cardinality(K)
  BY DEF Gets
<1>7. Gets(c, h) \in 1..3
  BY <1>4, <1>5, <1>6
<1>8. Hauls[Gets(c, h)] \in [bandwidth : Nat, latency : Nat]
  <2> DEFINE S == [bandwidth : Nat, latency : Nat]
             g == Gets(c, h)
  <2>1. Hauls \in Seq(S) /\ Len(Hauls) = 3 /\ g \in 1..3
    BY <1>7, HaulAssumption
  <2> HIDE DEF S, g
  <2>2. Hauls[g] \in S
    BY <2>1
  <2> QED BY <2>2 DEF S, g
<1> QED BY <1>7, <1>8 DEF Requirement

(* The DU's node is one of the inner nodes of the path that has resources, or
   there is none. *)
LEMMA DUFound ==
  ASSUME NEW p \in Seq(Nodes), DUNodeOf(p) # NoNode
  PROVE  \E k \in 3..Len(p) - 1 : DUNodeOf(p) = p[k] /\ NodeHasResources(p[k])
<1> DEFINE able == {k \in 3..Len(p) - 1 : NodeHasResources(p[k])}
<1>1. able # {} /\ able \subseteq Nat
  BY DEF DUNodeOf
<1>2. \E k \in able : \A j \in able : ~(<<j, k>> \in OpToRel(<, Nat))
  BY <1>1, NatLessThanWellFounded, WFMin
<1>3. \E k \in able : \A j \in able : k <= j
  <2>1. PICK k \in able : \A j \in able : ~(<<j, k>> \in OpToRel(<, Nat))
    BY <1>2
  <2>2. ASSUME NEW j \in able PROVE k <= j
    <3>1. j \in Nat /\ k \in Nat
      BY <1>1
    <3>2. j < k => <<j, k>> \in OpToRel(<, Nat)
      BY <3>1 DEF OpToRel
    <3>3. ~(j < k)
      BY <2>1, <3>2, Zenon
    <3> QED BY <3>1, <3>3
  <2> QED BY <2>2
<1>4. DUNodeOf(p) = p[CHOOSE k \in able : \A j \in able : k <= j]
  BY <1>1 DEF DUNodeOf
<1> HIDE DEF able
<1>5. (CHOOSE k \in able : \A j \in able : k <= j) \in able
  BY <1>3
<1> QED BY <1>4, <1>5 DEF able

-------------------------------------------------------------------------------
(* The invariant holds initially. *)
LEMMA InitInv == Init => IInv
<1> SUFFICES ASSUME Init PROVE IInv
  OBVIOUS
<1>1. rus \in Seq(RUType)
  <2>1. PICK ruNodes \in RUNodeLists :
          rus = [k \in DOMAIN ruNodes |-> [ruNode |-> ruNodes[k], cuNode |-> NoNode,
                                           duNode |-> NoNode, path |-> <<>>]]
    BY DEF Init
  <2>2. /\ Len(ruNodes) \in Nat
        /\ DOMAIN ruNodes = 1..Len(ruNodes)
        /\ \A k \in DOMAIN ruNodes : ruNodes[k] \in Nodes \cup {NoNode}
    BY RUAssumption
  <2>3. \A k \in DOMAIN ruNodes : rus[k] \in RUType
    BY <2>1, <2>2 DEF RUType
  <2> HIDE DEF RUType
  <2>4. rus \in [1..Len(ruNodes) -> RUType]
    BY <2>1, <2>2, <2>3
  <2> QED BY <2>2, <2>4
<1>2. TypeOK
  BY <1>1 DEF Init, TypeOK, Built, Stages
<1>3. RUsInv
  BY <1>2 DEF Init, RUsInv, TypeOK
<1> QED BY <1>2, <1>3 DEF Init, IInv, NoOverbooking, RequirementsSuffice, GraphInv,
                          SearchInv, ChainInv, HostInv, Built

(* A crash preserves it: nothing is claimed of a crashed run's graph. *)
LEMMA PanicInv == IInv /\ Panic => IInv'
BY DEF IInv, Panic, input, left, graph, search, TypeOK, NoOverbooking, RequirementsSuffice,
       GraphInv, RUsInv, SearchInv, ChainInv, HostInv, Built, Stages

(* A step that touches neither topology nor links keeps the graph, and one that
   charges nothing keeps the books. *)
LEMMA GraphKept == GraphInv /\ Built /\ UNCHANGED <<topology, links>> => GraphInv'
<1> SUFFICES ASSUME GraphInv, Built, UNCHANGED <<topology, links>> PROVE GraphInv'
  OBVIOUS
<1>1. \A l : Ends(l)' = Ends(l)
  BY DEF Ends
<1> QED BY <1>1 DEF GraphInv

(* See above. *)
LEMMA NothingCharged ==
  /\ NoOverbooking /\ Built /\ stage # "ruError" /\ stage' # "allocError"
  /\ UNCHANGED <<topology, memory, cpu, bandwidth>>
  => NoOverbooking'
BY DEF NoOverbooking, Built

(* A chain keeps what Validate saw of it while its nodes are charged. *)
LEMMA ChainKept ==
  /\ ChainInv
  /\ stage \in {"du", "cu", "links"} \/ stage' \notin {"du", "cu", "links"}
  /\ UNCHANGED <<rus, i, hop, bandwidth, root, links>>
  => ChainInv'
<1> SUFFICES ASSUME ChainInv, stage \in {"du", "cu", "links"},
                    UNCHANGED <<rus, i, hop, bandwidth, root, links>>
             PROVE  ChainInv'
  BY DEF ChainInv
<1>1. \A h : LinkOf(rus[i], h)' = LinkOf(rus[i], h)
  BY DEF LinkOf
<1>2. \A h : Requirement(rus[i], h)' = Requirement(rus[i], h)
  BY DEF Requirement, Gets, PlacementNodes
<1>3. P!IsRoute(rus[i].path) => P!IsRoute(rus[i].path)'
  BY DEF P!IsRoute
<1> QED BY <1>1, <1>2, <1>3 DEF ChainInv

(* NewPlacementBFS builds a graph of the links of the topology, with every
   resource and bandwidth still there. *)
LEMMA NewInv == IInv /\ NewPlacementBFS => IInv'
<1> SUFFICES ASSUME IInv, NewPlacementBFS PROVE IInv'
  OBVIOUS
<1>1. /\ stage = "new" /\ stage' = "rus"
      /\ GraphBuilds
      /\ UNCHANGED <<topology, nodeList, rus, i, hop>>
      /\ topology \in Topologies /\ nodeList \in NodeLists
      /\ rus \in Seq(RUType) /\ i \in 1..Len(rus) + 1 /\ hop \in Nat \ {0}
  BY DEF NewPlacementBFS, input, IInv, TypeOK
<1>2. /\ memory' \in [Nodes -> Nat]
      /\ cpu' \in [Nodes -> Nat]
  <2>1. \A n \in Nodes : /\ nodeList # <<>>
                         /\ NodeListToMap(nodeList)[n] = nodeList[Len(nodeList)]
    BY <1>1 DEF GraphBuilds, NodeListToMap
  <2>2. nodeList # <<>> => nodeList[Len(nodeList)] \in [name : ClusterNodes, cpu : Nat, memory : Nat]
    <3> DEFINE S == [name : ClusterNodes, cpu : Nat, memory : Nat]
    <3>1. nodeList \in Seq(S)
      BY <1>1, NodeListAssumption
    <3> HIDE DEF S
    <3>2. nodeList # <<>> => nodeList[Len(nodeList)] \in S
      BY <3>1
    <3> QED BY <3>2 DEF S
  <2> QED BY <2>1, <2>2 DEF NewPlacementBFS
<1>3. bandwidth' \in [DOMAIN topology.link -> Nat]
  BY <1>1, TopologyAssumption DEF NewPlacementBFS
<1>4. root' \in Nodes \cup {NoNode}
  BY <1>1, TopologyAssumption DEF NewPlacementBFS
<1>5. DOMAIN links' = Nodes /\ GraphInv'
  <2>1. PICK last \in [{Ends(l) : l \in DOMAIN topology.link} -> DOMAIN topology.link] :
          /\ \A pair \in DOMAIN last : Ends(last[pair]) = pair
          /\ links' = [n \in Nodes |->
                        [m \in {x \in Nodes : {n, x} \in DOMAIN last} |-> last[{n, m}]]]
    BY DEF NewPlacementBFS
  <2>2. \A l : Ends(l)' = Ends(l)
    BY <1>1 DEF Ends
  <2>3. ASSUME NEW n \in Nodes
        PROVE  /\ DOMAIN links'[n] \subseteq Nodes
               /\ \A m \in DOMAIN links'[n] :
                    links'[n][m] \in DOMAIN topology.link /\ Ends(links'[n][m]) = {n, m}
    <3>1. /\ DOMAIN links'[n] = {x \in Nodes : {n, x} \in DOMAIN last}
          /\ \A m \in DOMAIN links'[n] : links'[n][m] = last[{n, m}]
      BY <2>1
    <3>2. \A pair \in DOMAIN last : last[pair] \in DOMAIN topology.link
      BY <2>1
    <3> QED BY <2>1, <3>1, <3>2
  <2> QED BY <1>1, <2>1, <2>2, <2>3 DEF GraphInv
<1>6. TypeOK'
  BY <1>1, <1>2, <1>3, <1>4, <1>5 DEF TypeOK, Stages
<1>7. NoOverbooking'
  BY <1>1, <1>2, <1>3 DEF NoOverbooking
<1> QED BY <1>1, <1>5, <1>6, <1>7 DEF IInv, RequirementsSuffice, RUsInv, SearchInv,
                                      ChainInv, HostInv

(* Charging a node that holds the request to it keeps the resources typed and,
   unless the allocation reports an error, not negative. *)
LEMMA AllocateOnNode ==
  ASSUME IInv, Built, stage # "ruError", NEW n \in Nodes, NEW ok, NEW failed, AllocateOn(n, ok, failed)
  PROVE  /\ memory' \in [Nodes -> Int]
         /\ cpu' \in [Nodes -> Int]
         /\ \A m \in Nodes : m # n => memory'[m] = memory[m] /\ cpu'[m] = cpu[m]
         /\ stage' \in {ok, failed}
         /\ stage' # failed => \A m \in Nodes : memory'[m] >= 0 /\ cpu'[m] >= 0
         /\ NodeHasResources(n) => stage' = ok
<1>1. /\ memory \in [Nodes -> Int] /\ cpu \in [Nodes -> Int]
      /\ \A m \in Nodes : memory[m] >= 0 /\ cpu[m] >= 0
  BY DEF IInv, TypeOK, NoOverbooking
<1>2. /\ memory' = [memory EXCEPT ![n] = memory[n] - ReqMemory]
      /\ cpu' = [cpu EXCEPT ![n] = cpu[n] - ReqCPU]
      /\ stage' = IF Overdrawn(memory'[n], cpu'[n]) THEN failed ELSE ok
  BY DEF AllocateOn
<1>3. /\ memory[n] - ReqMemory \in Int /\ cpu[n] - ReqCPU \in Int
      /\ memory[n] \in Int /\ cpu[n] \in Int
  BY <1>1, RequestAssumption
<1>4. /\ memory' \in [Nodes -> Int]
      /\ cpu' \in [Nodes -> Int]
      /\ memory'[n] = memory[n] - ReqMemory
      /\ cpu'[n] = cpu[n] - ReqCPU
      /\ \A m \in Nodes : m # n => memory'[m] = memory[m] /\ cpu'[m] = cpu[m]
  BY <1>1, <1>2, <1>3
<1>5. stage' # failed => \A m \in Nodes : memory'[m] >= 0 /\ cpu'[m] >= 0
  <2> SUFFICES ASSUME stage' # failed, NEW m \in Nodes PROVE memory'[m] >= 0 /\ cpu'[m] >= 0
    OBVIOUS
  <2>1. CASE m = n
    <3>1. ~Overdrawn(memory'[n], cpu'[n])
      BY <1>2
    <3>2. memory'[n] \in Int /\ cpu'[n] \in Int
      BY <1>4
    <3> QED BY <2>1, <3>1, <3>2, NotOverdrawn
  <2>2. CASE m # n
    BY <1>1, <1>4, <2>2
  <2> QED BY <2>1, <2>2
<1>6. NodeHasResources(n) => stage' = ok
  BY <1>2, <1>3, <1>4, EnoughLeft DEF NodeHasResources
<1> QED BY <1>2, <1>4, <1>5, <1>6

(* The loop over the RUs that charges them to their nodes. *)
LEMMA AllocateRUInv == IInv /\ (AllocateRU \/ RUsAllocated) => IInv'
<1> SUFFICES ASSUME IInv, AllocateRU \/ RUsAllocated PROVE IInv'
  OBVIOUS
<1>0. \/ i' = i + 1 /\ rus[i].ruNode \in Nodes /\ stage' # "place"
      \/ i > Len(rus) /\ stage' = "place"
  BY DEF AllocateRU, RUsAllocated, AllocateOn
<1>1. /\ stage = "rus"
      /\ stage' \in {"rus", "ruError", "place"}
      /\ i' \in 1..Len(rus) + 1
      /\ UNCHANGED <<topology, nodeList, rus, hop, bandwidth, root, links>>
      /\ memory' \in [Nodes -> Int] /\ cpu' \in [Nodes -> Int]
      /\ stage' # "ruError" => \A n \in Nodes : memory'[n] >= 0 /\ cpu'[n] >= 0
  <2>1. CASE AllocateRU
    <3>1. /\ stage = "rus" /\ i <= Len(rus) /\ i' = i + 1
          /\ rus[i].ruNode \in Nodes
          /\ AllocateOn(rus[i].ruNode, "rus", "ruError")
          /\ UNCHANGED <<topology, nodeList, rus, hop, bandwidth, root, links>>
      BY <2>1 DEF AllocateRU, input, graph
    <3>2. /\ memory' \in [Nodes -> Int] /\ cpu' \in [Nodes -> Int]
          /\ stage' \in {"rus", "ruError"}
          /\ stage' # "ruError" => \A n \in Nodes : memory'[n] >= 0 /\ cpu'[n] >= 0
      BY <3>1, AllocateOnNode DEF Built
    <3> QED BY <3>1, <3>2 DEF IInv, TypeOK
  <2>2. CASE RUsAllocated
    BY <2>2 DEF RUsAllocated, input, graph, left, IInv, TypeOK, NoOverbooking, Built
  <2> QED BY <2>1, <2>2
<1>2. TypeOK'
  BY <1>1 DEF IInv, TypeOK, Built, Stages
<1>3. NoOverbooking' /\ RequirementsSuffice'
  BY <1>1 DEF IInv, NoOverbooking, RequirementsSuffice, Built
<1>4. GraphInv'
  BY <1>1 DEF IInv, GraphInv, Built, Ends
<1>5. RUsInv'
  BY <1>1, <1>0 DEF IInv, TypeOK, RUsInv
<1> QED BY <1>1, <1>2, <1>3, <1>4, <1>5 DEF IInv, SearchInv, ChainInv, HostInv

(* The call of findPathsTo. *)
LEMMA FindPathsInv == IInv /\ FindPaths => IInv'
<1> SUFFICES ASSUME IInv, FindPaths PROVE IInv'
  OBVIOUS
<1>1. /\ stage = "place" /\ stage' = "search"
      /\ i \in DOMAIN rus
      /\ root # NoNode
      /\ UNCHANGED <<topology, nodeList, rus, i, hop, memory, cpu, bandwidth, root, links>>
      /\ nodeToFind' = rus[i].ruNode
      /\ queue' = << <<root>> >> /\ visited' = {} /\ pathsToNode' = <<>>
      /\ path' = <<>> /\ pending' = {}
  BY DEF FindPaths, input, left, graph, Search!StartSearch, IInv, TypeOK
<1>2. P!Started'
  BY <1>1 DEF P!Started, IInv, TypeOK, GraphInv, RUsInv, Built
<1>3. P!BreadthInv'
  BY <1>2, P!BreadthStartNext, SearchAssumption
<1>4. Search!TypeOK'
  BY <1>3 DEF P!BreadthInv, P!IInv, P!TypeOK, Search!TypeOK
<1>5. TypeOK'
  BY <1>1, <1>4 DEF IInv, TypeOK, Built, Stages
<1>6. GraphInv' /\ NoOverbooking'
  BY <1>1, GraphKept, NothingCharged DEF IInv, Built
<1>7. RUsInv'
  BY <1>1 DEF IInv, RUsInv
<1> QED BY <1>1, <1>3, <1>5, <1>6, <1>7 DEF IInv, RequirementsSuffice, SearchInv, ChainInv, HostInv

(* A step of the search. *)
LEMMA SearchStepInv == IInv /\ SearchStep => IInv'
<1> SUFFICES ASSUME IInv, SearchStep PROVE IInv'
  OBVIOUS
<1>0. (Search!Dequeue => P!Dequeue) /\ \A n : Search!Explore(n) => P!Explore(n)
  BY DEF Search!Dequeue, P!Dequeue, Search!Last, P!Last, Search!Explore, P!Explore
<1>1. /\ stage = "search" /\ stage' = "search"
      /\ P!Dequeue \/ \E n \in Nodes : P!Explore(n)
      /\ UNCHANGED <<topology, nodeList, rus, i, hop, memory, cpu, bandwidth>>
  BY <1>0 DEF SearchStep, input, left
<1>2. UNCHANGED <<root, links, nodeToFind>>
  BY <1>1 DEF P!Dequeue, P!Explore
<1>3. P!BreadthInv'
  BY <1>1, P!BreadthDequeue, P!BreadthExplore, SearchAssumption DEF IInv, SearchInv
<1>4. Search!TypeOK'
  BY <1>3 DEF P!BreadthInv, P!IInv, P!TypeOK, Search!TypeOK
<1>5. TypeOK'
  BY <1>1, <1>2, <1>4 DEF IInv, TypeOK, Built, Stages
<1>6. GraphInv' /\ NoOverbooking'
  BY <1>1, <1>2, GraphKept, NothingCharged DEF IInv, Built
<1>7. RUsInv'
  BY <1>1 DEF IInv, RUsInv
<1>8. SearchInv'
  BY <1>1, <1>2, <1>3 DEF IInv, SearchInv
<1> QED BY <1>1, <1>5, <1>6, <1>7, <1>8 DEF IInv, RequirementsSuffice, ChainInv, HostInv

(* A rejected RU, and the end of the loop over the RUs. *)
LEMMA RejectInv == IInv /\ (Reject \/ Placed) => IInv'
<1> SUFFICES ASSUME IInv, Reject \/ Placed PROVE IInv'
  OBVIOUS
<1>1. /\ stage \in {"search", "place"} /\ stage' \in {"place", "done"}
      /\ i' \in 1..Len(rus) + 1
      /\ UNCHANGED <<topology, nodeList, rus, hop, memory, cpu, bandwidth, root, links>>
  BY DEF Reject, Placed, Validating, input, left, graph, IInv, TypeOK, SearchInv
<1>2. TypeOK'
  BY <1>1 DEF IInv, TypeOK, Built, Stages
<1>3. GraphInv' /\ NoOverbooking'
  BY <1>1, GraphKept, NothingCharged DEF IInv, Built
<1>4. RUsInv'
  BY <1>1 DEF IInv, RUsInv
<1> QED BY <1>1, <1>2, <1>3, <1>4 DEF IInv, RequirementsSuffice, SearchInv, ChainInv, HostInv

(* The candidate Validate returns: its path is a route to be walked with three
   requirements at most, it has a CU, and, if a DU, one on another node; both
   nodes and every link hold what will be charged to them. *)
Accepted(c) ==
  /\ P!IsRoute(c.path) /\ c.path \in Seq(Nodes) /\ Len(c.path) \in Nat /\ Len(c.path) >= 2
  /\ c.cuNode = c.path[2] /\ c.cuNode \in Nodes /\ NodeHasResources(c.cuNode)
  /\ c.duNode = DUNodeOf(c.path)
  /\ c.path \in Range(pathsToNode) /\ P!Last(c.path) = rus[i].ruNode
  /\ NetworkValid(c)
  /\ stage' = "du" /\ hop' = 1
  /\ rus' \in Seq(RUType)
  /\ DOMAIN rus' = DOMAIN rus
  /\ \A k \in DOMAIN rus : rus'[k].ruNode = rus[k].ruNode
  /\ \A k \in DOMAIN rus : k # i => rus'[k] = rus[k]
  /\ rus'[i].path = c.path /\ rus'[i].cuNode = c.cuNode /\ rus'[i].duNode = c.duNode

(* See above. *)
LEMMA AcceptedCandidate ==
  ASSUME IInv, Accept
  PROVE  /\ stage = "search"
         /\ i \in DOMAIN rus /\ rus \in Seq(RUType)
         /\ UNCHANGED <<topology, nodeList, i, memory, cpu, bandwidth, root, links>>
         /\ Built /\ GraphInv
         /\ \E c : Accepted(c)
<1>1. /\ stage = "search"
      /\ i \in DOMAIN rus /\ rus \in Seq(RUType)
      /\ UNCHANGED <<topology, nodeList, i, memory, cpu, bandwidth, root, links>>
      /\ Built /\ GraphInv
  BY DEF Accept, Validating, input, left, graph, IInv, TypeOK, SearchInv, Built
<1>2. PICK c \in Positions :
        /\ Blocks(c) \/ NetworkValid(c)
        /\ IF Blocks(c)
           THEN stage' = "blocked" /\ UNCHANGED <<rus, hop>>
           ELSE /\ rus' = [rus EXCEPT ![i] = [ruNode |-> rus[i].ruNode, cuNode |-> c.cuNode,
                                              duNode |-> c.duNode, path |-> c.path]]
                /\ hop' = 1
                /\ stage' = "du"
  BY DEF Accept
<1>3. /\ P!IsRoute(c.path) /\ c.path \in Seq(Nodes) /\ Len(c.path) \in Nat /\ Len(c.path) >= 2
      /\ c.cuNode = c.path[2] /\ c.cuNode \in Nodes /\ NodeHasResources(c.cuNode)
      /\ c.duNode = DUNodeOf(c.path)
      /\ c.path \in Range(pathsToNode) /\ P!Last(c.path) = rus[i].ruNode
  <2>1. PICK p \in Range(pathsToNode) : c = Candidate(p) /\ NodeHasResources(p[2])
    BY <1>2 DEF Positions
  <2>2. P!IsRoute(p) /\ p \in Seq(Nodes) /\ Len(p) >= 2 /\ Len(p) \in Nat
        /\ P!Last(p) = rus[i].ruNode
    <3>1. PICK k \in DOMAIN pathsToNode : p = pathsToNode[k]
      BY DEF Range
    <3>2. P!IsRoute(p) /\ P!Last(p) = rus[i].ruNode
      BY <1>1, <3>1 DEF IInv, SearchInv, P!BreadthInv, P!IInv, P!FoundPathsAreRoutes
    <3>3. ~(Len(p) < 2)
      BY DEF Accept, ShortPath
    <3> QED BY <3>2, <3>3 DEF P!IsRoute
  <2>3. c.path = p /\ c.cuNode = p[2] /\ c.duNode = DUNodeOf(p)
    BY <2>1 DEF Candidate
  <2> QED BY <2>1, <2>2, <2>3
<1>4. \A h \in 1..Len(c.path) : Gets(c, h) \in 1..3
  BY <1>3, GetsBound
<1>5. ~Blocks(c)
  <2>1. Gets(c, Len(c.path)) \in 1..3 /\ Len(Hauls) = 3
    BY <1>3, <1>4, HaulAssumption
  <2> QED BY <2>1 DEF Blocks
<1>6. /\ stage' = "du" /\ hop' = 1
      /\ rus' \in Seq(RUType)
      /\ DOMAIN rus' = DOMAIN rus
      /\ \A k \in DOMAIN rus : rus'[k].ruNode = rus[k].ruNode
      /\ \A k \in DOMAIN rus : k # i => rus'[k] = rus[k]
      /\ rus'[i].path = c.path /\ rus'[i].cuNode = c.cuNode /\ rus'[i].duNode = c.duNode
  <2> DEFINE r == [ruNode |-> rus[i].ruNode, cuNode |-> c.cuNode,
                   duNode |-> c.duNode, path |-> c.path]
  <2>1. c.duNode \in Nodes \cup {NoNode}
    BY <1>3, DUFound
  <2>2. r \in RUType /\ r.ruNode = rus[i].ruNode
    <3> DEFINE S == RUType
    <3>1. rus[i] \in S
      <4> HIDE DEF S
      <4> QED BY <1>1 DEF S
    <3> QED BY <1>3, <2>1, <3>1 DEF RUType
  <2>3. stage' = "du" /\ hop' = 1 /\ rus' = [rus EXCEPT ![i] = r]
    BY <1>2, <1>5
  <2>4. r.path = c.path /\ r.cuNode = c.cuNode /\ r.duNode = c.duNode
    OBVIOUS
  <2> HIDE DEF r, RUType
  <2>5. rus' \in Seq(RUType) /\ DOMAIN rus' = DOMAIN rus /\ rus'[i] = r
        /\ \A k \in DOMAIN rus : k # i => rus'[k] = rus[k]
    BY <1>1, <2>2, <2>3
  <2> QED BY <2>2, <2>3, <2>4, <2>5
<1> QED BY <1>1, <1>2, <1>3, <1>5, <1>6 DEF Accepted

(* Writing the candidate to the RU keeps the invariant. *)
LEMMA AcceptInv == IInv /\ Accept => IInv'
<1> SUFFICES ASSUME IInv, Accept PROVE IInv'
  OBVIOUS
<1>1. /\ stage = "search"
      /\ i \in DOMAIN rus /\ rus \in Seq(RUType)
      /\ UNCHANGED <<topology, nodeList, i, memory, cpu, bandwidth, root, links>>
      /\ Built /\ GraphInv
  BY AcceptedCandidate
<1>2. PICK c : Accepted(c)
  BY AcceptedCandidate
<1>3. /\ P!IsRoute(c.path) /\ c.path \in Seq(Nodes) /\ Len(c.path) \in Nat /\ Len(c.path) >= 2
      /\ c.cuNode = c.path[2] /\ c.cuNode \in Nodes /\ NodeHasResources(c.cuNode)
      /\ c.duNode = DUNodeOf(c.path)
      /\ NetworkValid(c)
  BY <1>2 DEF Accepted
<1>6. /\ stage' = "du" /\ hop' = 1
      /\ rus' \in Seq(RUType)
      /\ DOMAIN rus' = DOMAIN rus
      /\ \A k \in DOMAIN rus : rus'[k].ruNode = rus[k].ruNode
      /\ rus'[i].path = c.path /\ rus'[i].cuNode = c.cuNode /\ rus'[i].duNode = c.duNode
  BY <1>2 DEF Accepted
<1>7. TypeOK'
  <2>1. Len(rus') = Len(rus)
    BY <1>1, <1>6
  <2> QED BY <1>1, <1>6, <2>1 DEF IInv, TypeOK, Built, Stages
<1>8. ChainInv'
  <2>1. P!IsRoute(rus[i].path)'
    <3>1. \A q : P!IsRoute(q)' <=> P!IsRoute(q)
      BY <1>1 DEF P!IsRoute
    <3>2. (rus[i].path)' = c.path
      BY <1>1, <1>6
    <3>3. P!IsRoute((rus[i].path)')
      BY <1>3, <3>2
    <3> QED BY <1>1, <3>3 DEF P!IsRoute
  <2>2. ASSUME NEW h \in 1..Len(c.path) - 1
        PROVE  bandwidth[LinkOf(rus'[i], h)] >= Requirement(rus'[i], h).bandwidth
    <3>1. LinkOf(rus'[i], h) = LinkOf(c, h)
      BY <1>6 DEF LinkOf
    <3>2. Requirement(rus'[i], h) = Requirement(c, h)
      BY <1>6 DEF Requirement, Gets, PlacementNodes
    <3> QED BY <1>3, <3>1, <3>2 DEF NetworkValid
  <2>3. \A h : LinkOf(rus[i], h)' = LinkOf(rus'[i], h)
    BY <1>1 DEF LinkOf
  <2>4. \A h : Requirement(rus[i], h)' = Requirement(rus'[i], h)
    BY <1>1 DEF Requirement, Gets, PlacementNodes
  <2>5. \A h \in 1..Len(c.path) - 1 :
          (bandwidth[LinkOf(rus[i], h)] >= Requirement(rus[i], h).bandwidth)'
    BY <1>1, <2>2, <2>3, <2>4
  <2>6. (rus[i])' = rus'[i]
    BY <1>1
  <2> QED BY <1>1, <1>3, <1>6, <2>1, <2>5, <2>6 DEF ChainInv
<1>9. HostInv'
  <2>1. ASSUME c.duNode \in Nodes
        PROVE  c.duNode # c.cuNode /\ NodeHasResources(c.duNode)
    <3>1. PICK k \in 3..Len(c.path) - 1 : c.duNode = c.path[k] /\ NodeHasResources(c.path[k])
      BY <1>3, <2>1, DUFound, NoNodeAssumption
    <3>2. c.path[k] # c.path[2]
      BY <1>3 DEF P!IsRoute
    <3> QED BY <1>3, <3>1, <3>2
  <2>2. \A n : NodeHasResources(n)' <=> NodeHasResources(n)
    BY <1>1 DEF NodeHasResources
  <2> QED BY <1>1, <1>3, <1>6, <2>1, <2>2 DEF HostInv
<1>10. RUsInv'
  BY <1>1, <1>6 DEF IInv, RUsInv
<1>11. GraphInv' /\ NoOverbooking'
  BY <1>1, <1>6, GraphKept, NothingCharged DEF IInv
<1> QED BY <1>6, <1>7, <1>8, <1>9, <1>10, <1>11 DEF IInv, RequirementsSuffice, SearchInv

(* The DU is charged: its node holds the request, and the CU's is another. *)
LEMMA AllocateDUInv == IInv /\ AllocateDU => IInv'
<1> SUFFICES ASSUME IInv, AllocateDU PROVE IInv'
  OBVIOUS
<1>1. /\ stage = "du" /\ Built /\ stage # "ruError"
      /\ rus[i].duNode \in Nodes /\ NodeHasResources(rus[i].duNode)
      /\ rus[i].cuNode \in Nodes /\ NodeHasResources(rus[i].cuNode)
      /\ rus[i].duNode # rus[i].cuNode
      /\ AllocateOn(rus[i].duNode, "cu", "allocError")
      /\ UNCHANGED <<topology, nodeList, rus, i, hop, bandwidth, root, links>>
  <2>1. stage = "du" /\ rus[i].duNode \in Nodes
    BY DEF AllocateDU
  <2>2. rus[i].cuNode \in Nodes
    BY <2>1 DEF IInv, ChainInv, P!IsRoute
  <2> QED BY <2>1, <2>2 DEF AllocateDU, input, graph, IInv, HostInv, Built
<1>2. /\ memory' \in [Nodes -> Int] /\ cpu' \in [Nodes -> Int]
      /\ stage' = "cu"
      /\ \A m \in Nodes : memory'[m] >= 0 /\ cpu'[m] >= 0
      /\ memory'[rus[i].cuNode] = memory[rus[i].cuNode]
      /\ cpu'[rus[i].cuNode] = cpu[rus[i].cuNode]
  BY <1>1, AllocateOnNode
<1>3. TypeOK'
  BY <1>1, <1>2 DEF IInv, TypeOK, Built, Stages
<1>4. NoOverbooking'
  BY <1>1, <1>2 DEF IInv, NoOverbooking, Built
<1>5. GraphInv' /\ RUsInv'
  BY <1>1, <1>2, GraphKept DEF IInv, RUsInv
<1>6. ChainInv'
  BY <1>1, <1>2, ChainKept DEF IInv
<1>7. HostInv'
  BY <1>1, <1>2 DEF HostInv, NodeHasResources
<1> QED BY <1>2, <1>3, <1>4, <1>5, <1>6, <1>7 DEF IInv, RequirementsSuffice, SearchInv

(* The CU is charged. *)
LEMMA AllocateCUInv == IInv /\ AllocateCU => IInv'
<1> SUFFICES ASSUME IInv, AllocateCU PROVE IInv'
  OBVIOUS
<1>1. /\ stage = "cu" /\ Built /\ stage # "ruError"
      /\ rus[i].cuNode \in Nodes /\ NodeHasResources(rus[i].cuNode)
      /\ AllocateOn(rus[i].cuNode, "links", "allocError")
      /\ UNCHANGED <<topology, nodeList, rus, i, hop, bandwidth, root, links>>
  <2>1. stage = "cu"
    BY DEF AllocateCU
  <2>2. rus[i].cuNode \in Nodes
    BY <2>1 DEF IInv, ChainInv, P!IsRoute
  <2> QED BY <2>1, <2>2 DEF AllocateCU, input, graph, IInv, HostInv, Built
<1>2. /\ memory' \in [Nodes -> Int] /\ cpu' \in [Nodes -> Int]
      /\ stage' = "links"
      /\ \A m \in Nodes : memory'[m] >= 0 /\ cpu'[m] >= 0
  BY <1>1, AllocateOnNode
<1>3. TypeOK'
  BY <1>1, <1>2 DEF IInv, TypeOK, Built, Stages
<1>4. NoOverbooking'
  BY <1>1, <1>2 DEF IInv, NoOverbooking, Built
<1>5. GraphInv' /\ RUsInv'
  BY <1>1, <1>2, GraphKept DEF IInv, RUsInv
<1>6. ChainInv'
  BY <1>1, <1>2, ChainKept DEF IInv
<1> QED BY <1>2, <1>3, <1>4, <1>5, <1>6 DEF IInv, RequirementsSuffice, SearchInv, HostInv

(* A hop is charged to its link.  The hops still to come use other links, so
   what Validate saw of those still holds. *)
LEMMA AllocateLinkInv == IInv /\ AllocateLink => IInv'
<1> SUFFICES ASSUME IInv, AllocateLink PROVE IInv'
  OBVIOUS
<1> DEFINE c == rus[i]
           l == LinkOf(c, hop)
           q == Requirement(c, hop).bandwidth
<1>1. /\ stage = "links" /\ Built
      /\ bandwidth' = [bandwidth EXCEPT ![l] = bandwidth[l] - q]
      /\ hop' = hop + 1
      /\ IF bandwidth'[l] < 0
         THEN stage' = "allocError" /\ i' = i
         ELSE IF hop + 1 = Len(c.path)
              THEN stage' = "place" /\ i' = i + 1
              ELSE stage' = stage /\ i' = i
      /\ UNCHANGED <<topology, nodeList, rus, memory, cpu, root, links>>
  BY DEF AllocateLink, input, graph, Built
<1>2. /\ i \in DOMAIN rus /\ DOMAIN rus = 1..Len(rus) /\ Len(rus) \in Nat
      /\ P!IsRoute(c.path) /\ Len(c.path) \in Nat
      /\ Len(c.path) >= 2 /\ c.cuNode = c.path[2]
      /\ hop \in 1..Len(c.path) - 1
      /\ \A h \in hop..Len(c.path) - 1 :
           bandwidth[LinkOf(c, h)] >= Requirement(c, h).bandwidth
      /\ bandwidth \in [DOMAIN topology.link -> Int]
      /\ \A k \in DOMAIN bandwidth : bandwidth[k] >= 0
  <2>1. rus \in Seq(RUType) /\ bandwidth \in [DOMAIN topology.link -> Int]
    BY <1>1 DEF IInv, TypeOK
  <2>2. \A k \in DOMAIN topology.link : bandwidth[k] >= 0
    BY <1>1 DEF IInv, NoOverbooking, TypeOK
  <2>3. /\ i \in DOMAIN rus /\ P!IsRoute(c.path)
        /\ Len(c.path) >= 2 /\ c.cuNode = c.path[2]
        /\ hop \in 1..Len(c.path) - 1
        /\ \A h \in hop..Len(c.path) - 1 :
             bandwidth[LinkOf(c, h)] >= Requirement(c, h).bandwidth
    BY <1>1 DEF IInv, ChainInv
  <2>4. Len(c.path) \in Nat
    BY <2>3 DEF P!IsRoute
  <2>5. DOMAIN rus = 1..Len(rus) /\ Len(rus) \in Nat
    BY <2>1
  <2> QED BY <2>1, <2>2, <2>3, <2>4, <2>5
<1>3. /\ l \in DOMAIN topology.link
      /\ \A j \in 1..Len(c.path) - 1 : j # hop => LinkOf(c, j) # l
  BY <1>1, <1>2, HopsUseDifferentLinks DEF IInv
<1>4. \A h \in 1..Len(c.path) - 1 : LinkOf(c, h) \in DOMAIN topology.link
  BY <1>1, <1>2, HopsUseDifferentLinks DEF IInv
<1>5. q \in Nat /\ bandwidth[l] >= q
  <2>1. hop \in 1..Len(c.path)
    BY <1>2
  <2> QED BY <1>2, <2>1, GetsBound
<1> HIDE DEF q, l
<1>6. /\ bandwidth' \in [DOMAIN topology.link -> Int]
      /\ bandwidth'[l] = bandwidth[l] - q
      /\ \A k \in DOMAIN topology.link : k # l => bandwidth'[k] = bandwidth[k]
      /\ \A k \in DOMAIN topology.link : bandwidth'[k] >= 0
  BY <1>1, <1>2, <1>3, <1>5
<1>7. \/ stage' = "place" /\ i' = i + 1 /\ hop + 1 = Len(c.path)
      \/ stage' = "links" /\ i' = i /\ hop + 1 # Len(c.path)
  BY <1>1, <1>3, <1>6
<1>8. TypeOK'
  <2>1. i' \in 1..Len(rus) + 1 /\ hop' \in Nat \ {0}
    BY <1>1, <1>2, <1>7
  <2> QED BY <1>1, <1>6, <1>7, <2>1 DEF IInv, TypeOK, Built, Stages
<1>9. NoOverbooking'
  BY <1>1, <1>6, <1>7 DEF IInv, NoOverbooking, Built
<1>10. GraphInv' /\ RUsInv'
  BY <1>1, <1>7, GraphKept DEF IInv, RUsInv
<1>11. ChainInv'
  <2>1. CASE stage' = "links"
    <3>1. ASSUME NEW h \in hop'..Len(c.path) - 1
          PROVE  bandwidth'[LinkOf(c, h)] >= Requirement(c, h).bandwidth
      <4>1. h \in hop..Len(c.path) - 1 /\ h # hop /\ h \in 1..Len(c.path) - 1
        BY <1>1, <1>2
      <4> QED BY <1>2, <1>3, <1>4, <1>6, <4>1
    <3>2. c' = c /\ i' = i
      BY <1>1, <1>7, <2>1
    <3>3. \A h : LinkOf(c, h)' = LinkOf(c, h)
      BY <1>1, <3>2 DEF LinkOf
    <3>4. \A h : Requirement(c, h)' = Requirement(c, h)
      BY <3>2 DEF Requirement, Gets, PlacementNodes
    <3>5. P!IsRoute(c.path)'
      BY <1>1, <1>2, <3>2 DEF P!IsRoute
    <3>6. hop' \in 1..Len(c.path) - 1
      BY <1>1, <1>2, <1>7, <2>1
    <3> QED BY <1>1, <1>2, <3>1, <3>2, <3>3, <3>4, <3>5, <3>6 DEF ChainInv
  <2> QED BY <1>7, <2>1 DEF ChainInv
<1> QED BY <1>7, <1>8, <1>9, <1>10, <1>11
        DEF IInv, RequirementsSuffice, SearchInv, HostInv

-------------------------------------------------------------------------------
(* Every step keeps the invariant. *)
LEMMA NextInv == IInv /\ [Next]_vars => IInv'
<1> SUFFICES ASSUME IInv, [Next]_vars PROVE IInv'
  OBVIOUS
<1>1. CASE NewPlacementBFS
  BY <1>1, NewInv
<1>2. CASE NewPlacementPanics \/ AllocateRUPanics \/ FindPathsPanics \/ ValidatePanics \/ AllocateDUPanics
  BY <1>2, PanicInv
     DEF NewPlacementPanics, AllocateRUPanics, FindPathsPanics, ValidatePanics, AllocateDUPanics
<1>3. CASE AllocateRU \/ RUsAllocated
  BY <1>3, AllocateRUInv
<1>4. CASE FindPaths
  BY <1>4, FindPathsInv
<1>5. CASE SearchStep
  BY <1>5, SearchStepInv
<1>6. CASE Accept
  BY <1>6, AcceptInv
<1>7. CASE Reject \/ Placed
  BY <1>7, RejectInv
<1>8. CASE AllocateDU
  BY <1>8, AllocateDUInv
<1>9. CASE AllocateCU
  BY <1>9, AllocateCUInv
<1>10. CASE AllocateLink
  BY <1>10, AllocateLinkInv
<1>11. CASE UNCHANGED vars
  <2>1. /\ UNCHANGED <<topology, nodeList, rus, stage, i, hop, memory, cpu, bandwidth, root, links,
                       nodeToFind, queue, visited, pathsToNode, path, pending>>
    BY <1>11 DEF vars, input, left, graph, search
  <2>2. TypeOK' /\ NoOverbooking' /\ RequirementsSuffice' /\ RUsInv'
    BY <2>1 DEF IInv, TypeOK, NoOverbooking, RequirementsSuffice, RUsInv, Built, Search!TypeOK
  <2>3. GraphInv' /\ HostInv'
    BY <2>1 DEF IInv, GraphInv, HostInv, Built, Ends, NodeHasResources
  <2>4. SearchInv'
    <3>1. UNCHANGED P!vars
      BY <2>1 DEF P!vars
    <3>2. P!BreadthInv => P!BreadthInv'
      BY <3>1, P!StutterInv, SearchAssumption
    <3> QED BY <2>1, <3>2 DEF IInv, SearchInv
  <2>5. ChainInv'
    BY <2>1, ChainKept DEF IInv
  <2> QED BY <2>2, <2>3, <2>4, <2>5 DEF IInv
<1> QED BY <1>1, <1>2, <1>3, <1>4, <1>5, <1>6, <1>7, <1>8, <1>9, <1>10, <1>11 DEF Next

(* On every topology and every cluster, the types hold throughout a run. *)
THEOREM TypeCorrect == Spec => []TypeOK
<1>1. IInv => TypeOK
  BY DEF IInv
<1> QED BY <1>1, InitInv, NextInv, PTL DEF Spec

(* On every topology, with every cluster, list of RUs and requirements, what
   Validate accepted can be allocated in full: no link and no node is ever
   overbooked, and AllocateResources never fails half-way. *)
THEOREM NeverOverbooked == Spec => []NoOverbooking
<1>1. IInv => NoOverbooking
  BY DEF IInv
<1> QED BY <1>1, InitInv, NextInv, PTL DEF Spec

(* The reconciler never waits on the empty queue of requirements. *)
THEOREM NeverWaits == Spec => []RequirementsSuffice
<1>1. IInv => RequirementsSuffice
  BY DEF IInv
<1> QED BY <1>1, InitInv, NextInv, PTL DEF Spec

(* The routes of the search, as Placement names them. *)
LEMMA SameRoutes ==
  /\ \A n : Search!RoutesTo(n) = P!RoutesTo(n)
  /\ \A p : Search!IsShortest(p) <=> P!IsShortest(p)
<1>1. \A p : Search!IsRoute(p) <=> P!IsRoute(p)
  BY DEF Search!IsRoute, P!IsRoute
<1>2. Search!Routes = P!Routes
  <2>1. Search!SeqOf(Nodes, Search!Cardinality(Nodes)) = P!SeqOf(Nodes, P!Cardinality(Nodes))
    BY DEF Search!SeqOf, P!SeqOf, Search!Cardinality, P!Cardinality
  <2> QED BY <1>1, <2>1 DEF Search!Routes, P!Routes
<1>3. \A p : Search!Last(p) = P!Last(p)
  BY DEF Search!Last, P!Last
<1>4. \A n : Search!RoutesTo(n) = P!RoutesTo(n)
  BY <1>2, <1>3 DEF Search!RoutesTo, P!RoutesTo
<1> QED BY <1>3, <1>4 DEF Search!IsShortest, P!IsShortest

(* On every topology and cluster, and for every order of the maps: findPathsTo
   has returned every shortest path and Validate has tried all that were
   returned, so an RU is passed over only when none of them can carry it. *)
THEOREM RejectedForCause == Spec => RejectedOnlyIfInfeasible
<1> DEFINE Carried ==
      stage = "search" /\ stage' = "place" =>
        \A p \in Search!RoutesTo(rus[i].ruNode) :
          Search!IsShortest(p) => ~NodeHasResources(p[2]) \/ ~NetworkValid(Candidate(p))
<1>1. IInv /\ [Next]_vars => Carried
  <2> SUFFICES ASSUME IInv, [Next]_vars, stage = "search", stage' = "place",
                      NEW p \in Search!RoutesTo(rus[i].ruNode), Search!IsShortest(p),
                      NodeHasResources(p[2])
               PROVE  ~NetworkValid(Candidate(p))
    OBVIOUS
  <2>1. Reject
    <3>1. ~(UNCHANGED stage) /\ ~(stage' \in {"panic", "blocked", "du"})
      OBVIOUS
    <3> QED BY <3>1 DEF Next, vars, NewPlacementBFS, NewPlacementPanics, AllocateRU, AllocateRUPanics,
                    RUsAllocated, FindPaths, FindPathsPanics, SearchStep, ValidatePanics, Accept,
                    AllocateDU, AllocateDUPanics, AllocateCU, AllocateLink, Placed, Panic
  <2>2. P!BreadthInv /\ nodeToFind = rus[i].ruNode
    BY DEF IInv, SearchInv
  <2>3. P!Returned
    BY <2>1 DEF Reject, Validating, Search!Returned, P!Returned
  <2>4. p \in Range(pathsToNode)
    <3>1. P!AllShortestPathsFound
      BY <2>2, P!SearchResult, SearchAssumption
    <3>2. p \in P!RoutesTo(nodeToFind) /\ P!IsShortest(p)
      BY <2>2, SameRoutes
    <3> QED BY <2>3, <3>1, <3>2 DEF P!AllShortestPathsFound, P!Range, Range
  <2>5. Candidate(p) \in Positions
    BY <2>4 DEF Positions
  <2> QED BY <2>1, <2>5 DEF Reject
<1>2. QED
  BY <1>1, InitInv, NextInv, PTL DEF Spec, RejectedOnlyIfInfeasible

-------------------------------------------------------------------------------
(* The DU of the chain being charged is on an inner node of its path, and once
   it is charged there is one. *)
DUInv ==
  stage \in {"du", "cu", "links"} =>
    /\ stage # "du" => rus[i].duNode \in Nodes
    /\ rus[i].duNode \in Nodes =>
         \E k \in 3..Len(rus[i].path) - 1 : rus[i].duNode = rus[i].path[k]

Unplaced(r) == r.cuNode = NoNode /\ r.duNode = NoNode /\ r.path = <<>>

(* RUs that have not had their turn have no chain. *)
UnplacedInv ==
  \A k \in DOMAIN rus :
    \/ stage \in {"new", "rus", "ruError"}
    \/ k > i
    \/ k = i /\ stage \in {"place", "search"}
    => Unplaced(rus[k])

RInv == IInv /\ DUInv /\ UnplacedInv

-------------------------------------------------------------------------------
(* A name that is not empty is a node. *)
LEMMA NamedNode ==
  ASSUME IInv, NEW k \in DOMAIN rus
  PROVE  /\ rus[k] \in RUType
         /\ rus[k].duNode # NoNode <=> rus[k].duNode \in Nodes
<1> DEFINE S == RUType
<1>1. rus \in Seq(S)
  BY DEF IInv, TypeOK
<1> HIDE DEF S
<1>2. rus[k] \in S
  BY <1>1
<1> QED BY <1>2, NoNodeAssumption DEF S, RUType

(* The invariant holds initially. *)
LEMMA RInit == Init => RInv
<1> SUFFICES ASSUME Init PROVE RInv
  OBVIOUS
<1>1. IInv
  BY InitInv
<1>2. \A k \in DOMAIN rus : Unplaced(rus[k])
  BY DEF Init, Unplaced
<1> QED BY <1>1, <1>2 DEF RInv, Init, DUInv, UnplacedInv

(* Every step keeps it. *)
LEMMA RNext == RInv /\ [Next]_vars => RInv'
<1> SUFFICES ASSUME RInv, [Next]_vars PROVE RInv'
  OBVIOUS
<1>1. IInv /\ DUInv /\ UnplacedInv
  BY DEF RInv
<1>2. IInv'
  BY <1>1, NextInv
<1>3. i \in Nat /\ Len(rus) \in Nat /\ DOMAIN rus = 1..Len(rus)
  <2>1. rus \in Seq(RUType) /\ i \in 1..Len(rus) + 1
    BY <1>1 DEF IInv, TypeOK
  <2> HIDE DEF RUType
  <2> QED BY <2>1
<1>4. CASE Accept
  <2>1. PICK c : Accepted(c)
    BY <1>1, <1>4, AcceptedCandidate
  <2>2. /\ stage = "search" /\ stage' = "du" /\ i' = i
        /\ i \in DOMAIN rus /\ DOMAIN rus' = DOMAIN rus
        /\ \A k \in DOMAIN rus : k # i => rus'[k] = rus[k]
        /\ rus'[i].path = c.path /\ rus'[i].duNode = c.duNode
        /\ c.path \in Seq(Nodes) /\ c.duNode = DUNodeOf(c.path)
    BY <1>1, <1>4, <2>1, AcceptedCandidate DEF Accepted
  <2>3. DUInv'
    BY <2>2, DUFound, NoNodeAssumption DEF DUInv
  <2>4. UnplacedInv'
    BY <1>1, <1>3, <2>2 DEF UnplacedInv
  <2> QED BY <1>2, <2>3, <2>4 DEF RInv
<1>5. CASE UNCHANGED rus /\ ~Accept
  <2>1. DUInv'
    <3>1. stage' \in {"du", "cu", "links"} => stage \in {"du", "cu", "links"} /\ i' = i
      BY <1>5 DEF Next, vars, NewPlacementBFS, NewPlacementPanics, AllocateRU, AllocateRUPanics,
                  RUsAllocated, FindPaths, FindPathsPanics, SearchStep, ValidatePanics, Reject,
                  AllocateDU, AllocateDUPanics, AllocateCU, AllocateLink, Placed, Panic, AllocateOn
    <3>2. stage' \in {"cu", "links"} => rus[i].duNode \in Nodes
      BY <1>1, <1>5 DEF Next, vars, NewPlacementBFS, NewPlacementPanics, AllocateRU, AllocateRUPanics,
                  RUsAllocated, FindPaths, FindPathsPanics, SearchStep, ValidatePanics, Reject,
                  AllocateDU, AllocateDUPanics, AllocateCU, AllocateLink, Placed, Panic, AllocateOn, DUInv
    <3> QED BY <1>1, <1>5, <3>1, <3>2 DEF DUInv
  <2>2. UnplacedInv'
    <3>1. \/ stage \in {"new", "rus"}
          \/ i' = i + 1 /\ stage' \notin {"new", "rus", "ruError"}
          \/ /\ i' = i /\ stage' \notin {"new", "rus", "ruError"}
             /\ stage' \in {"place", "search"} => stage \in {"place", "search"}
          \/ i' = i /\ stage' = stage
      BY <1>5 DEF Next, vars, NewPlacementBFS, NewPlacementPanics, AllocateRU, AllocateRUPanics,
                  RUsAllocated, FindPaths, FindPathsPanics, SearchStep, ValidatePanics, Reject,
                  AllocateDU, AllocateDUPanics, AllocateCU, AllocateLink, Placed, Panic, AllocateOn
    <3> QED BY <1>1, <1>3, <1>5, <3>1 DEF UnplacedInv
  <2> QED BY <1>2, <2>1, <2>2 DEF RInv
<1>6. UNCHANGED rus \/ Accept
  BY DEF Next, vars, NewPlacementBFS, NewPlacementPanics, AllocateRU, AllocateRUPanics,
         RUsAllocated, FindPaths, FindPathsPanics, SearchStep, ValidatePanics, Reject,
         AllocateDU, AllocateDUPanics, AllocateCU, AllocateLink, Placed, Panic
<1> QED BY <1>4, <1>5, <1>6

-------------------------------------------------------------------------------
(* One more element, one more to count. *)
LEMMA OneMore ==
  ASSUME NEW S, IsFiniteSet(S), NEW x, x \notin S, NEW T, T = S \cup {x}
  PROVE  IsFiniteSet(T) /\ Cardinality(T) = Cardinality(S) + 1
BY FS_AddElement

(* The requirement the walk takes at a hop is the one of the haul the hop is
   part of: first up to the CU, second up to the DU, third from there on. *)
LEMMA GetsOfHop ==
  ASSUME NEW c, P!IsRoute(c.path), c.cuNode = c.path[2],
         NEW d \in 3..Len(c.path) - 1, c.duNode = c.path[d],
         NEW h \in 1..Len(c.path) - 1
  PROVE  Gets(c, h) = IF h >= d THEN 3 ELSE IF h >= 2 THEN 2 ELSE 1
<1> DEFINE p == c.path
           K == {k \in 1..h : p[k] \in PlacementNodes(c)}
<1>1. /\ Len(p) \in Nat
      /\ \A j, k \in 1..Len(p) : p[j] = p[k] => j = k
  BY DEF P!IsRoute
<1>2. \A k \in 1..Len(p) : p[k] \in PlacementNodes(c) <=> k \in {1, 2, d}
  BY <1>1 DEF PlacementNodes
<1>3. K = {k \in {1, 2, d} : k <= h}
  BY <1>1, <1>2
<1>4. Gets(c, h) = Cardinality(K)
  BY DEF Gets
<1> HIDE DEF K
<1>5. /\ IsFiniteSet({1}) /\ Cardinality({1}) = 1
      /\ IsFiniteSet({1, 2}) /\ Cardinality({1, 2}) = 2
      /\ Cardinality({1, 2, d}) = 3
  <2>1. IsFiniteSet({1}) /\ Cardinality({1}) = 1
    BY FS_Singleton
  <2>2. {1, 2} = {1} \cup {2} /\ 2 \notin {1}
    OBVIOUS
  <2>3. {1, 2, d} = {1, 2} \cup {d} /\ d \notin {1, 2}
    OBVIOUS
  <2>4. IsFiniteSet({1, 2}) /\ Cardinality({1, 2}) = 2
    <3> DEFINE S == {1}
               T == {1, 2}
    <3>1. T = S \cup {2} /\ 2 \notin S /\ IsFiniteSet(S) /\ Cardinality(S) = 1
      BY <2>1, <2>2
    <3> HIDE DEF S, T
    <3>2. IsFiniteSet(T) /\ Cardinality(T) = 2
      BY <3>1, OneMore
    <3> QED BY <3>2 DEF T
  <2>5. Cardinality({1, 2, d}) = 3
    <3> DEFINE S == {1, 2}
               T == {1, 2, d}
    <3>1. T = S \cup {d} /\ d \notin S /\ IsFiniteSet(S) /\ Cardinality(S) = 2
      BY <2>3, <2>4
    <3> HIDE DEF S, T
    <3>2. Cardinality(T) = 3
      BY <3>1, OneMore
    <3> QED BY <3>2 DEF T
  <2> QED BY <2>1, <2>4, <2>5
<1>6. CASE h < 2
  <2>1. K = {1}
    BY <1>3, <1>6
  <2> QED BY <1>4, <1>5, <1>6, <2>1
<1>7. CASE h >= 2 /\ h < d
  <2>1. K = {1, 2}
    BY <1>3, <1>7
  <2> QED BY <1>4, <1>5, <1>7, <2>1
<1>8. CASE h >= d
  <2>1. K = {1, 2, d}
    BY <1>3, <1>8
  <2> QED BY <1>4, <1>5, <1>8, <2>1
<1> QED BY <1>1, <1>6, <1>7, <1>8
===============================================================================
