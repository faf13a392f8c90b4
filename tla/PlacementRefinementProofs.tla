----------------------- MODULE PlacementRefinementProofs ----------------------
(***************************************************************************)
(* Placement implements Reservation, for every topology, cluster, list of  *)
(* RUs and requirement.                                                    *)
(***************************************************************************)
EXTENDS PlacementRefinement, PlacementProofs

(* Both name the haul of a hop by where the CU and the DU are. *)
LEMMA RequirementOfHaul ==
  ASSUME NEW c, P!IsRoute(c.path), c.cuNode = c.path[2],
         NEW d \in 3..Len(c.path) - 1, c.duNode = c.path[d],
         NEW h \in 1..Len(c.path) - 1
  PROVE  Gets(c, h) = Promise!HaulOf(c, h)
<1>1. /\ Len(c.path) \in Nat
      /\ \A j, k \in 1..Len(c.path) : c.path[j] = c.path[k] => j = k
  BY DEF P!IsRoute
<1>2. /\ (\E k \in 1..h : c.path[k] = c.duNode) <=> h >= d
      /\ (\E k \in 1..h : c.path[k] = c.cuNode) <=> h >= 2
  BY <1>1
<1>3. Promise!HaulOf(c, h) = IF h >= d THEN 3 ELSE IF h >= 2 THEN 2 ELSE 1
  BY <1>1, <1>2 DEF Promise!HaulOf
<1>4. Gets(c, h) = IF h >= d THEN 3 ELSE IF h >= 2 THEN 2 ELSE 1
  BY GetsOfHop
<1> QED BY <1>3, <1>4

(* What is due: of every hop not yet charged its requirement on its own link,
   and nothing else. *)
Dues ==
  /\ Charging =>
       /\ i \in DOMAIN rus /\ stage \in {"du", "cu", "links"}
       /\ P!IsRoute(rus[i].path) /\ hop \in 1..Len(rus[i].path) - 1
       /\ Len(rus[i].path) \in Nat
       /\ rus[i].cuNode = rus[i].path[2]
       /\ rus[i].duNode \in Nodes /\ rus[i].cuNode \in Nodes
       /\ \E d \in 3..Len(rus[i].path) - 1 : rus[i].duNode = rus[i].path[d]
       /\ HopsDue = hop..Len(rus[i].path) - 1
  /\ \A h \in HopsDue :
       /\ h \in 1..Len(rus[i].path) - 1
       /\ LinkOf(rus[i], h) \in DOMAIN bandwidth
       /\ LinkDue(LinkOf(rus[i], h)) = Requirement(rus[i], h).bandwidth
       /\ \A j \in 1..Len(rus[i].path) - 1 : j # h => LinkOf(rus[i], j) # LinkOf(rus[i], h)
  /\ \A l : (\A h \in HopsDue : LinkOf(rus[i], h) # l) => LinkDue(l) = 0
  /\ ~Charging => /\ \A n : NodeDue(n) = 0
                  /\ \A l : LinkDue(l) = 0

(* See above. *)
LEMMA DuesHold == RInv => Dues
<1> SUFFICES ASSUME RInv PROVE Dues
  OBVIOUS
<1>1. CASE ~Charging
  BY <1>1 DEF Dues, HopsDue, LinkDue, NodeDue
<1>2. CASE Charging
  <2> DEFINE c == rus[i]
  <2>1. /\ i \in DOMAIN rus /\ stage \in {"du", "cu", "links"} /\ Built /\ GraphInv
        /\ P!IsRoute(c.path) /\ hop \in 1..Len(c.path) - 1 /\ Len(c.path) >= 2
        /\ c.cuNode = c.path[2]
        /\ DOMAIN bandwidth = DOMAIN topology.link
    BY <1>2 DEF Charging, RInv, IInv, ChainInv, TypeOK, Built
  <2>2. Len(c.path) \in Nat /\ c.cuNode \in Nodes
    BY <2>1 DEF P!IsRoute
  <2>3. c.duNode \in Nodes
    BY <1>2, <2>1, NamedNode DEF Charging, RInv
  <2>4. \E d \in 3..Len(c.path) - 1 : c.duNode = c.path[d]
    BY <2>1, <2>3 DEF RInv, DUInv
  <2>5. HopsDue = hop..Len(c.path) - 1 /\ HopsDue \subseteq 1..Len(c.path) - 1
    BY <1>2, <2>1, <2>2 DEF HopsDue
  <2>6. ASSUME NEW h \in HopsDue
        PROVE  /\ LinkOf(c, h) \in DOMAIN topology.link
               /\ \A j \in 1..Len(c.path) - 1 : j # h => LinkOf(c, j) # LinkOf(c, h)
    BY <2>1, <2>5, HopsUseDifferentLinks
  <2>7. ASSUME NEW h \in HopsDue
        PROVE  LinkDue(LinkOf(c, h)) = Requirement(c, h).bandwidth
    <3> DEFINE l == LinkOf(c, h)
               g == CHOOSE j \in HopsDue : LinkOf(rus[i], j) = l
    <3>1. g \in HopsDue /\ LinkOf(c, g) = l
      OBVIOUS
    <3>2. g = h
      BY <2>5, <2>6, <3>1
    <3>3. LinkDue(l) = Requirement(c, g).bandwidth
      BY DEF LinkDue
    <3> QED BY <3>2, <3>3
  <2>8. \A l : (\A h \in HopsDue : LinkOf(c, h) # l) => LinkDue(l) = 0
    BY DEF LinkDue
  <2> QED BY <1>2, <2>1, <2>2, <2>3, <2>4, <2>5, <2>6, <2>7, <2>8 DEF Dues
<1> QED BY <1>1, <1>2

(* The same of the state a step leads to. *)
LEMMA DuesHoldNext == RInv' => Dues'
BY DuesHold, PTL

(* Between two chains nothing is due: what is promised is what is left. *)
AllPromised ==
  /\ MemoryPromised = memory
  /\ CPUPromised = cpu
  /\ BandwidthPromised = bandwidth

(* See above. *)
LEMMA Settled == RInv /\ Built /\ ~Charging => AllPromised
<1> SUFFICES ASSUME RInv, Built, ~Charging PROVE AllPromised
  OBVIOUS
<1>1. (\A n : NodeDue(n) = 0) /\ (\A l : LinkDue(l) = 0)
  BY DuesHold DEF Dues
<1>2. /\ memory \in [Nodes -> Int] /\ cpu \in [Nodes -> Int]
      /\ bandwidth \in [DOMAIN topology.link -> Int]
      /\ ReqMemory \in Nat /\ ReqCPU \in Nat
  BY RequestAssumption DEF RInv, IInv, TypeOK
<1> QED BY <1>1, <1>2 DEF AllPromised, MemoryPromised, CPUPromised, BandwidthPromised

(* The same of the state a step leads to. *)
LEMMA SettledNext == RInv' /\ Built' /\ ~Charging' => AllPromised'
BY Settled, PTL

(* A step that charges nothing, between two chains, changes nothing promised. *)
LEMMA NothingPromised ==
  ASSUME Dues, Dues', ~Charging, ~Charging',
         UNCHANGED <<rus, links, memory, cpu, bandwidth>>
  PROVE  /\ UNCHANGED <<Hosts, links, MemoryPromised, CPUPromised, BandwidthPromised, Chains>>
         /\ Turn = i /\ Turn' = i'
<1>1. /\ \A n : NodeDue(n) = 0 /\ NodeDue(n)' = 0
      /\ \A l : LinkDue(l) = 0 /\ LinkDue(l)' = 0
  BY DEF Dues
<1>2. UNCHANGED <<MemoryPromised, CPUPromised, BandwidthPromised>>
  BY <1>1 DEF MemoryPromised, CPUPromised, BandwidthPromised
<1> QED BY <1>2 DEF Hosts, Chains, NoChain, Turn

-------------------------------------------------------------------------------
(* The initial states are initial states of the promise. *)
LEMMA StartsPromised == Init => Promise!Init
<1> SUFFICES ASSUME Init PROVE Promise!Init
  OBVIOUS
<1>1. stage = "new" /\ i = 1 /\ \A k \in DOMAIN rus : rus[k].duNode = NoNode
  BY DEF Init
<1>2. Phase = "new" /\ Turn = 1
  BY <1>1 DEF Phase, Turn, Charging
<1>3. Chains = [k \in DOMAIN Hosts |-> NoChain]
  BY <1>1 DEF Chains, Hosts
<1> QED BY <1>2, <1>3 DEF Promise!Init

(* NewPlacementBFS sets the nodes and the links up. *)
LEMMA SetsUp == RInv /\ RInv' /\ NewPlacementBFS => Promise!SetUp
<1> SUFFICES ASSUME RInv, RInv', NewPlacementBFS PROVE Promise!SetUp
  OBVIOUS
<1>1. /\ stage = "new" /\ stage' = "rus" /\ i' = i /\ rus' = rus
      /\ ~Charging /\ ~Charging' /\ Built'
  BY DEF NewPlacementBFS, Charging, Built
<1>2. /\ MemoryPromised' = memory' /\ CPUPromised' = cpu' /\ BandwidthPromised' = bandwidth'
  BY <1>1, SettledNext DEF AllPromised
<1>3. /\ DOMAIN links' = Nodes
      /\ memory' \in [Nodes -> Nat] /\ cpu' \in [Nodes -> Nat]
      /\ \A l \in DOMAIN bandwidth' : bandwidth'[l] \in Nat
  <2>1. /\ DOMAIN links' = Nodes
        /\ memory' \in [Nodes -> Int] /\ cpu' \in [Nodes -> Int]
        /\ bandwidth' \in [DOMAIN topology'.link -> Int]
    BY <1>1 DEF RInv, IInv, TypeOK
  <2>2. /\ \A n \in Nodes : memory'[n] >= 0 /\ cpu'[n] >= 0
        /\ \A l \in DOMAIN bandwidth' : bandwidth'[l] >= 0
    BY <1>1 DEF RInv, IInv, NoOverbooking
  <2> QED BY <2>1, <2>2
<1>4. UNCHANGED <<Hosts, Chains, Turn>> /\ Phase = "new" /\ Phase' = "hosting"
  BY <1>1 DEF Hosts, Chains, NoChain, Turn, Phase
<1> QED BY <1>2, <1>3, <1>4 DEF Promise!SetUp

(* allocateRUsResources hosts one RU per iteration. *)
LEMMA Hosting == RInv /\ RInv' /\ AllocateRU => Promise!HostRU
<1> SUFFICES ASSUME RInv, RInv', AllocateRU PROVE Promise!HostRU
  OBVIOUS
<1> DEFINE n == rus[i].ruNode
<1>1. /\ stage = "rus" /\ i <= Len(rus) /\ n \in Nodes /\ i' = i + 1
      /\ memory' = [memory EXCEPT ![n] = memory[n] - ReqMemory]
      /\ cpu' = [cpu EXCEPT ![n] = cpu[n] - ReqCPU]
      /\ stage' = IF Overdrawn(memory'[n], cpu'[n]) THEN "ruError" ELSE "rus"
      /\ UNCHANGED <<rus, links, bandwidth>>
  BY DEF AllocateRU, AllocateOn, graph
<1>2. ~Charging /\ ~Charging' /\ Built /\ Built'
  BY <1>1 DEF Charging, Built
<1>3. /\ MemoryPromised = memory /\ CPUPromised = cpu /\ BandwidthPromised = bandwidth
      /\ MemoryPromised' = memory' /\ CPUPromised' = cpu' /\ BandwidthPromised' = bandwidth'
  BY <1>2, Settled, SettledNext DEF AllPromised
<1>4. Turn = i /\ Turn' = i + 1 /\ UNCHANGED <<Hosts, Chains>>
  BY <1>1, <1>2 DEF Hosts, Chains, NoChain, Turn
<1>5. i \in DOMAIN Hosts /\ Hosts[i] = n
  <2>1. i \in DOMAIN rus
    <3>1. rus \in Seq(RUType) /\ i \in 1..Len(rus) + 1
      BY DEF RInv, IInv, TypeOK
    <3> HIDE DEF RUType
    <3> QED BY <1>1, <3>1
  <2> QED BY <2>1 DEF Hosts
<1>6. Phase = "hosting" /\ Phase' = IF Promise!Overdrawn(memory'[n], cpu'[n]) THEN "over" ELSE "hosting"
  BY <1>1 DEF Phase, Overdrawn, Value, Promise!Overdrawn, Promise!Value
<1> HIDE DEF n
<1> QED BY <1>1, <1>3, <1>4, <1>5, <1>6 DEF Promise!HostRU

(* The loop over the RUs begins. *)
LEMMA Starts == RInv /\ RInv' /\ RUsAllocated => Promise!StartPlacing
<1> SUFFICES ASSUME RInv, RInv', RUsAllocated PROVE Promise!StartPlacing
  OBVIOUS
<1>1. /\ stage = "rus" /\ stage' = "place" /\ i > Len(rus) /\ i' = 1
      /\ UNCHANGED <<rus, links, memory, cpu, bandwidth>>
      /\ ~Charging /\ ~Charging'
  BY DEF RUsAllocated, left, graph, Charging
<1>2. /\ UNCHANGED <<Hosts, links, MemoryPromised, CPUPromised, BandwidthPromised, Chains>>
      /\ Turn = i /\ Turn' = i'
  BY <1>1, NothingPromised, DuesHold, DuesHoldNext
<1>3. i \notin DOMAIN Hosts
  <2>1. rus \in Seq(RUType) /\ i \in Nat
    BY DEF RInv, IInv, TypeOK
  <2> HIDE DEF RUType
  <2> QED BY <1>1, <2>1 DEF Hosts
<1>4. Phase = "hosting" /\ Phase' = "placing"
  BY <1>1 DEF Phase
<1> QED BY <1>1, <1>2, <1>3, <1>4 DEF Promise!StartPlacing, Promise!left

(* The search is no concern of the promise. *)
LEMMA Searches == RInv /\ RInv' /\ (FindPaths \/ SearchStep) => UNCHANGED Promise!vars
<1> SUFFICES ASSUME RInv, RInv', FindPaths \/ SearchStep PROVE UNCHANGED Promise!vars
  OBVIOUS
<1>1. /\ stage \in {"place", "search"} /\ stage' = "search" /\ i' = i
      /\ UNCHANGED <<rus, memory, cpu, bandwidth>>
      /\ ~Charging /\ ~Charging'
  BY DEF FindPaths, SearchStep, left, Charging
<1>2. links' = links
  BY DEF FindPaths, SearchStep, graph, Search!Dequeue, Search!Explore, Search!StartSearch
<1>3. /\ UNCHANGED <<Hosts, links, MemoryPromised, CPUPromised, BandwidthPromised, Chains>>
      /\ Turn = i /\ Turn' = i'
  BY <1>1, <1>2, NothingPromised, DuesHold, DuesHoldNext
<1>4. Phase = "placing" /\ Phase' = "placing"
  BY <1>1 DEF Phase
<1> QED BY <1>1, <1>3, <1>4 DEF Promise!vars, Promise!left

(* An RU that no path can carry has had its turn. *)
LEMMA Rejects == RInv /\ RInv' /\ Reject => Promise!Reject
<1> SUFFICES ASSUME RInv, RInv', Reject PROVE Promise!Reject
  OBVIOUS
<1>1. /\ stage = "search" /\ stage' = "place" /\ i' = i + 1
      /\ UNCHANGED <<rus, links, memory, cpu, bandwidth>>
      /\ ~Charging /\ ~Charging'
  BY DEF Reject, Validating, left, graph, Charging
<1>2. /\ UNCHANGED <<Hosts, links, MemoryPromised, CPUPromised, BandwidthPromised, Chains>>
      /\ Turn = i /\ Turn' = i'
  BY <1>1, NothingPromised, DuesHold, DuesHoldNext
<1>3. Phase = "placing" /\ Phase' = "placing" /\ i \in DOMAIN Hosts
  BY <1>1 DEF Phase, Hosts, RInv, IInv, SearchInv
<1> QED BY <1>1, <1>2, <1>3 DEF Promise!Reject, Promise!Placing, Promise!left

(* The run ends, in order or in a panic, but never with a chain half charged:
   AllocateDU panics on a candidate that has no DU, before it charges. *)
LEMMA Stops ==
  RInv /\ RInv' /\ (Placed \/ NewPlacementPanics \/ AllocateRUPanics \/ FindPathsPanics
                      \/ ValidatePanics \/ AllocateDUPanics)
  => Promise!Stop
<1> SUFFICES ASSUME RInv, RInv', Placed \/ NewPlacementPanics \/ AllocateRUPanics
                      \/ FindPathsPanics \/ ValidatePanics \/ AllocateDUPanics
             PROVE  Promise!Stop
  OBVIOUS
<1>1. /\ stage \in {"new", "rus", "place", "search", "du"} /\ stage' \in {"done", "panic"}
      /\ i' = i /\ UNCHANGED <<rus, links, memory, cpu, bandwidth>>
      /\ stage = "du" => rus[i].duNode \notin Nodes
  BY DEF Placed, NewPlacementPanics, AllocateRUPanics, FindPathsPanics, ValidatePanics,
         AllocateDUPanics, Validating, Panic, left, graph
<1>2. ~Charging /\ ~Charging'
  <2>1. stage = "du" => i \in DOMAIN rus
    BY DEF RInv, IInv, ChainInv
  <2> QED BY <1>1, <2>1, NamedNode DEF Charging, RInv
<1>3. /\ UNCHANGED <<Hosts, links, MemoryPromised, CPUPromised, BandwidthPromised, Chains>>
      /\ Turn = i /\ Turn' = i'
  BY <1>1, <1>2, NothingPromised, DuesHold, DuesHoldNext
<1>4. Phase # "over" /\ Phase' = "over"
  BY <1>1 DEF Phase
<1> QED BY <1>1, <1>3, <1>4 DEF Promise!Stop, Promise!left

-------------------------------------------------------------------------------
(* An accepted chain crosses no link twice, what is due is what it needs, and
   all of it is there. *)
WholeChain ==
  LET c == rus[i]
  IN  /\ Promise!CrossesOnce(c)
      /\ \A n \in Nodes :
           /\ NodeDue(n) = Promise!Load(c, n)
           /\ ~Overdrawn(memory[n] - NodeDue(n) * ReqMemory, cpu[n] - NodeDue(n) * ReqCPU)
      /\ \A l \in DOMAIN bandwidth :
           LinkDue(l) = Promise!Need(c, l) /\ bandwidth[l] - LinkDue(l) >= 0

(* See above. *)
LEMMA ChainIsWhole == RInv /\ Charging /\ stage = "du" /\ hop = 1 => WholeChain
<1> SUFFICES ASSUME RInv, Charging, stage = "du", hop = 1 PROVE WholeChain
  OBVIOUS
<1> DEFINE c == rus[i]
           H == 1..Len(c.path) - 1
<1>1. /\ P!IsRoute(c.path) /\ Len(c.path) \in Nat /\ c.cuNode = c.path[2]
      /\ c.duNode \in Nodes /\ c.cuNode \in Nodes
      /\ HopsDue = H
      /\ \A h \in H :
           /\ LinkOf(c, h) \in DOMAIN bandwidth
           /\ LinkDue(LinkOf(c, h)) = Requirement(c, h).bandwidth
           /\ \A j \in H : j # h => LinkOf(c, j) # LinkOf(c, h)
      /\ \A l : (\A h \in H : LinkOf(c, h) # l) => LinkDue(l) = 0
  BY DuesHold DEF Dues
<1>2. PICK d \in 3..Len(c.path) - 1 : c.duNode = c.path[d]
  BY DuesHold DEF Dues
<1>3. /\ memory \in [Nodes -> Int] /\ cpu \in [Nodes -> Int]
      /\ bandwidth \in [DOMAIN topology.link -> Int]
      /\ \A n \in Nodes : memory[n] >= 0 /\ cpu[n] >= 0
      /\ \A l \in DOMAIN bandwidth : bandwidth[l] >= 0
  BY DEF RInv, IInv, TypeOK, NoOverbooking, Built
<1>4. \A h : Promise!LinkOf(c, h) = LinkOf(c, h)
  BY DEF Promise!LinkOf, LinkOf
<1>5. Promise!CrossesOnce(c)
  BY <1>1, <1>4 DEF Promise!CrossesOnce, Promise!Hops
<1>6. ASSUME NEW n \in Nodes
      PROVE  /\ NodeDue(n) = Promise!Load(c, n)
             /\ ~Overdrawn(memory[n] - NodeDue(n) * ReqMemory, cpu[n] - NodeDue(n) * ReqCPU)
  <2>1. NodeDue(n) = Promise!Load(c, n)
    BY DEF NodeDue, Promise!Load
  <2>2. NodeDue(n) = IF n \in {c.cuNode, c.duNode} THEN 1 ELSE 0
    BY <1>1 DEF RInv, IInv, HostInv, NodeDue
  <2>3. n \in {c.cuNode, c.duNode} => NodeHasResources(n)
    BY <1>1 DEF RInv, IInv, HostInv
  <2>4. CASE n \in {c.cuNode, c.duNode}
    <3>1. ~Overdrawn(memory[n] - ReqMemory, cpu[n] - ReqCPU)
      BY <1>3, <2>3, <2>4, EnoughLeft DEF NodeHasResources
    <3>2. NodeDue(n) * ReqMemory = ReqMemory /\ NodeDue(n) * ReqCPU = ReqCPU
      BY <2>2, <2>4, RequestAssumption
    <3> QED BY <2>1, <3>1, <3>2
  <2>5. CASE n \notin {c.cuNode, c.duNode}
    <3>1. memory[n] - NodeDue(n) * ReqMemory = memory[n] /\ cpu[n] - NodeDue(n) * ReqCPU = cpu[n]
      BY <1>3, <2>2, <2>5, RequestAssumption
    <3>2. ~Overdrawn(memory[n], cpu[n])
      BY <1>3 DEF Overdrawn, Value
    <3> QED BY <2>1, <3>1, <3>2
  <2> QED BY <2>4, <2>5
<1>7. ASSUME NEW l \in DOMAIN bandwidth
      PROVE  LinkDue(l) = Promise!Need(c, l) /\ bandwidth[l] - LinkDue(l) >= 0
  <2>1. CASE \A h \in H : LinkOf(c, h) # l
    <3>1. Promise!Need(c, l) = 0
      BY <1>4, <2>1 DEF Promise!Need, Promise!Hops
    <3> QED BY <1>1, <1>3, <2>1, <3>1
  <2>2. ASSUME NEW h \in H, LinkOf(c, h) = l
        PROVE  LinkDue(l) = Promise!Need(c, l) /\ bandwidth[l] - LinkDue(l) >= 0
    <3> DEFINE g == CHOOSE j \in H : Promise!LinkOf(c, j) = l
    <3>1. g \in H /\ LinkOf(c, g) = l
      BY <1>4, <2>2
    <3>2. g = h
      BY <1>1, <2>2, <3>1
    <3>3. Promise!Need(c, l) = Hauls[Promise!HaulOf(c, g)].bandwidth
      BY <1>4, <2>2 DEF Promise!Need, Promise!Hops
    <3>4. Gets(c, h) = Promise!HaulOf(c, h)
      BY <1>1, <1>2, RequirementOfHaul
    <3>5. LinkDue(l) = Hauls[Gets(c, h)].bandwidth
      BY <1>1, <2>2 DEF Requirement
    <3>6. bandwidth[l] >= Requirement(c, h).bandwidth /\ Requirement(c, h).bandwidth \in Nat
      <4>1. bandwidth[LinkOf(c, h)] >= Requirement(c, h).bandwidth
        BY <1>1 DEF RInv, IInv, ChainInv
      <4>2. h \in 1..Len(c.path)
        BY <1>1
      <4> QED BY <1>1, <2>2, <4>1, <4>2, GetsBound
    <3> HIDE DEF g
    <3> QED BY <1>1, <1>3, <2>2, <3>2, <3>3, <3>4, <3>5, <3>6
  <2> QED BY <2>1, <2>2
<1> QED BY <1>5, <1>6, <1>7 DEF WholeChain

(* The same of the state a step leads to. *)
LEMMA ChainIsWholeNext == RInv' /\ Charging' /\ stage' = "du" /\ hop' = 1 => WholeChain'
<1>1. (RInv /\ Charging /\ stage = "du" /\ hop = 1 => WholeChain)'
  BY ChainIsWhole, PTL
<1> QED BY <1>1

(* Validate's candidate is reserved, all of it at once; a candidate without a
   node for its DU is none. *)
LEMMA Reserves == RInv /\ RInv' /\ Accept => Promise!Reserve \/ UNCHANGED Promise!vars
<1> SUFFICES ASSUME RInv, RInv', Accept
             PROVE  Promise!Reserve \/ UNCHANGED Promise!vars
  OBVIOUS
<1>1. PICK c : Accepted(c)
  BY AcceptedCandidate DEF RInv
<1>2. /\ stage = "search" /\ stage' = "du" /\ i' = i /\ hop' = 1
      /\ i \in DOMAIN rus /\ DOMAIN rus' = DOMAIN rus
      /\ \A k \in DOMAIN rus : rus'[k].ruNode = rus[k].ruNode
      /\ \A k \in DOMAIN rus : k # i => rus'[k] = rus[k]
      /\ UNCHANGED <<links, memory, cpu, bandwidth>>
      /\ ~Charging /\ Built
  BY <1>1, AcceptedCandidate DEF Accepted, RInv, Charging
<1>3. /\ Hosts' = Hosts /\ Turn = i /\ i \in DOMAIN Hosts
      /\ Phase = "placing" /\ Phase' = "placing"
      /\ MemoryPromised = memory /\ CPUPromised = cpu /\ BandwidthPromised = bandwidth
  BY <1>2, Settled DEF AllPromised, Hosts, Turn, Phase
<1>4. rus[i].duNode = NoNode
  BY <1>2 DEF RInv, UnplacedInv, Unplaced
<1>5. CASE rus'[i].duNode = NoNode
  <2>1. ~Charging' /\ Built'
    BY <1>2, <1>5 DEF Charging, Built
  <2>2. MemoryPromised' = memory' /\ CPUPromised' = cpu' /\ BandwidthPromised' = bandwidth'
    BY <2>1, SettledNext DEF AllPromised
  <2>3. Turn' = i
    BY <1>2, <2>1 DEF Turn
  <2>4. Chains' = Chains
    BY <1>2, <1>4, <1>5 DEF Chains, NoChain
  <2> QED BY <1>2, <1>3, <2>2, <2>3, <2>4 DEF Promise!vars, Promise!left
<1>6. CASE rus'[i].duNode # NoNode
  <2> DEFINE chain == Chains'[Turn]
  <2>1. Charging' /\ Turn' = i + 1
    BY <1>2, <1>6 DEF Charging, Turn
  <2>2. chain = rus'[i] /\ chain # NoChain /\ Chains' = [Chains EXCEPT ![i] = chain]
    <3>1. Chains' = [k \in DOMAIN rus |-> IF rus'[k].duNode # NoNode THEN rus'[k] ELSE NoChain]
      BY <1>2 DEF Chains, NoChain
    <3>2. chain = rus'[i]
      BY <1>2, <1>3, <1>6, <3>1
    <3>3. chain # NoChain
      BY <1>6, <3>2 DEF NoChain
    <3>4. Chains' = [Chains EXCEPT ![i] = rus'[i]]
      BY <1>2, <1>6, <3>1 DEF Chains
    <3> QED BY <3>2, <3>3, <3>4
  <2>3. WholeChain'
    BY <1>2, <2>1, ChainIsWholeNext
  <2>4. /\ \A h : Promise!LinkOf(rus[i], h)' = Promise!LinkOf(chain, h)
        /\ Promise!Hops(rus[i])' = Promise!Hops(chain)
        /\ \A h : Promise!HaulOf(rus[i], h)' = Promise!HaulOf(chain, h)
    BY <1>2, <2>2 DEF Promise!LinkOf, Promise!Hops, Promise!HaulOf
  <2>5. /\ Promise!CrossesOnce(chain)
        /\ \A n \in Nodes :
             /\ NodeDue(n)' = Promise!Load(chain, n)
             /\ ~Overdrawn(memory[n] - NodeDue(n)' * ReqMemory, cpu[n] - NodeDue(n)' * ReqCPU)
        /\ \A l \in DOMAIN bandwidth :
             LinkDue(l)' = Promise!Need(chain, l) /\ bandwidth[l] - LinkDue(l)' >= 0
    <3>1. Promise!CrossesOnce(rus[i])' <=> Promise!CrossesOnce(chain)
      BY <2>4 DEF Promise!CrossesOnce
    <3>2. \A n : Promise!Load(rus[i], n)' = Promise!Load(chain, n)
      BY <1>2, <2>2 DEF Promise!Load
    <3>3. \A l : Promise!Need(rus[i], l)' = Promise!Need(chain, l)
      BY <2>4 DEF Promise!Need
    <3> QED BY <1>2, <2>3, <3>1, <3>2, <3>3 DEF WholeChain
  <2>6. DOMAIN memory = Nodes /\ DOMAIN cpu = Nodes
    BY <1>2 DEF RInv, IInv, TypeOK
  <2>7. /\ MemoryPromised' = [n \in Nodes |-> memory[n] - Promise!Load(chain, n) * ReqMemory]
        /\ CPUPromised' = [n \in Nodes |-> cpu[n] - Promise!Load(chain, n) * ReqCPU]
    BY <1>2, <2>5, <2>6 DEF MemoryPromised, CPUPromised
  <2>8. BandwidthPromised' = [l \in DOMAIN bandwidth |-> bandwidth[l] - Promise!Need(chain, l)]
    BY <1>2, <2>5 DEF BandwidthPromised
  <2>9. \A n \in Nodes : ~Promise!Overdrawn(MemoryPromised'[n], CPUPromised'[n])
    BY <2>5, <2>7 DEF Overdrawn, Value, Promise!Overdrawn, Promise!Value
  <2>10. \A l \in DOMAIN bandwidth : BandwidthPromised'[l] >= 0
    BY <2>5, <2>8
  <2> HIDE DEF chain
  <2>11. Promise!Placing
    BY <1>3, <2>1 DEF Promise!Placing
  <2> QED BY <1>2, <1>3, <2>1, <2>2, <2>5, <2>7, <2>8, <2>9, <2>10, <2>11
          DEF Promise!Reserve, chain
<1> QED BY <1>5, <1>6

(* Charging the DU or the CU moves what was due to what is charged. *)
LEMMA NodesCharged == RInv /\ RInv' /\ (AllocateDU \/ AllocateCU) => UNCHANGED Promise!vars
<1> SUFFICES ASSUME RInv, RInv', AllocateDU \/ AllocateCU PROVE UNCHANGED Promise!vars
  OBVIOUS
<1> DEFINE c == rus[i]
           n == IF stage = "du" THEN c.duNode ELSE c.cuNode
<1>1. /\ \/ stage = "du" /\ stage' = "cu" /\ AllocateOn(c.duNode, "cu", "allocError")
         \/ stage = "cu" /\ stage' = "links" /\ AllocateOn(c.cuNode, "links", "allocError")
      /\ stage = "du" => c.duNode \in Nodes
      /\ UNCHANGED <<rus, i, hop, links, bandwidth>>
  BY DEF AllocateDU, AllocateCU, AllocateOn, graph, RInv, IInv, NoOverbooking
<1>2. /\ memory' = [memory EXCEPT ![n] = memory[n] - ReqMemory]
      /\ cpu' = [cpu EXCEPT ![n] = cpu[n] - ReqCPU]
  BY <1>1 DEF AllocateOn
<1>3. Charging /\ Charging' /\ n \in Nodes /\ i \in DOMAIN rus
  <2>1. i \in DOMAIN rus /\ c.duNode \in Nodes
    BY <1>1 DEF RInv, IInv, ChainInv, DUInv
  <2>2. Charging /\ Charging'
    BY <1>1, <2>1, NamedNode DEF Charging, RInv
  <2> QED BY <2>1, <2>2, DuesHold DEF Dues
<1>4. /\ memory \in [Nodes -> Int] /\ cpu \in [Nodes -> Int]
      /\ ReqMemory \in Nat /\ ReqCPU \in Nat
  BY <1>1, RequestAssumption DEF RInv, IInv, TypeOK, Built
<1>5. ASSUME NEW m
      PROVE  IF m = n THEN NodeDue(m) = 1 /\ NodeDue(m)' = 0 ELSE NodeDue(m)' = NodeDue(m)
  BY <1>1, <1>3 DEF NodeDue, RInv, IInv, HostInv
<1> HIDE DEF n
<1>6. /\ MemoryPromised' = MemoryPromised
      /\ CPUPromised' = CPUPromised
  <2>1. ASSUME NEW m \in Nodes
        PROVE  /\ memory'[m] - NodeDue(m)' * ReqMemory = memory[m] - NodeDue(m) * ReqMemory
               /\ cpu'[m] - NodeDue(m)' * ReqCPU = cpu[m] - NodeDue(m) * ReqCPU
    <3>1. CASE m = n
      <4>1. NodeDue(m) = 1 /\ NodeDue(m)' = 0
        BY <1>5, <3>1
      <4>2. memory'[m] = memory[m] - ReqMemory /\ cpu'[m] = cpu[m] - ReqCPU
        BY <1>2, <1>4, <3>1
      <4> QED BY <1>4, <4>1, <4>2
    <3>2. CASE m # n
      BY <1>2, <1>4, <1>5, <3>2
    <3> QED BY <3>1, <3>2
  <2>2. DOMAIN memory' = Nodes /\ DOMAIN cpu' = Nodes
    BY <1>2, <1>4
  <2> QED BY <1>4, <2>1, <2>2 DEF MemoryPromised, CPUPromised
<1>7. BandwidthPromised' = BandwidthPromised
  <2>1. HopsDue' = HopsDue
    BY <1>1, <1>3 DEF HopsDue
  <2>2. \A h : LinkOf(rus[i], h)' = LinkOf(rus[i], h) /\ Requirement(rus[i], h)' = Requirement(rus[i], h)
    BY <1>1 DEF LinkOf, Requirement, Gets, PlacementNodes
  <2>3. \A l : LinkDue(l)' = LinkDue(l)
    BY <2>1, <2>2 DEF LinkDue
  <2> QED BY <1>1, <2>3 DEF BandwidthPromised
<1>8. UNCHANGED <<Hosts, Chains>> /\ Turn' = Turn /\ Phase' = Phase
  BY <1>1, <1>3 DEF Hosts, Chains, NoChain, Turn, Phase
<1> QED BY <1>1, <1>6, <1>7, <1>8 DEF Promise!vars, Promise!left

(* So does charging a hop: it was due on its own link, and the hops still due
   are on others. *)
LEMMA LinkCharged == RInv /\ RInv' /\ AllocateLink => UNCHANGED Promise!vars
<1> SUFFICES ASSUME RInv, RInv', AllocateLink PROVE UNCHANGED Promise!vars
  OBVIOUS
<1> DEFINE c == rus[i]
           l == LinkOf(c, hop)
           q == Requirement(c, hop).bandwidth
<1>1. /\ stage = "links"
      /\ bandwidth' = [bandwidth EXCEPT ![l] = bandwidth[l] - q]
      /\ hop' = hop + 1
      /\ \/ stage' = "place" /\ i' = i + 1 /\ hop + 1 = Len(c.path)
         \/ stage' = "links" /\ i' = i /\ hop + 1 # Len(c.path)
      /\ UNCHANGED <<rus, memory, cpu, links>>
  BY DEF AllocateLink, graph, RInv, IInv, NoOverbooking
<1>2. Charging /\ (Charging' <=> stage' = "links") /\ i \in DOMAIN rus /\ i \in Nat
  <2>1. i \in DOMAIN rus /\ c.duNode \in Nodes /\ i \in Nat
    BY <1>1 DEF RInv, IInv, TypeOK, ChainInv, DUInv
  <2> QED BY <1>1, <2>1, NamedNode DEF Charging, RInv
<1>3. /\ Len(c.path) \in Nat /\ hop \in 1..Len(c.path) - 1
      /\ HopsDue = hop..Len(c.path) - 1
      /\ \A h \in HopsDue :
           /\ LinkOf(c, h) \in DOMAIN bandwidth
           /\ LinkDue(LinkOf(c, h)) = Requirement(c, h).bandwidth
           /\ \A j \in 1..Len(c.path) - 1 : j # h => LinkOf(c, j) # LinkOf(c, h)
      /\ \A k : (\A h \in HopsDue : LinkOf(c, h) # k) => LinkDue(k) = 0
  BY <1>2, DuesHold DEF Dues
<1>4. bandwidth \in [DOMAIN bandwidth -> Int] /\ q \in Nat
  <2>1. bandwidth \in [DOMAIN topology.link -> Int] /\ P!IsRoute(c.path)
    BY <1>1, <1>2, DuesHold DEF RInv, IInv, TypeOK, Built, Dues
  <2>2. hop \in 1..Len(c.path)
    BY <1>3
  <2> QED BY <2>1, <2>2, GetsBound
<1>5. HopsDue' = HopsDue \ {hop}
  <2>1. CASE stage' = "place"
    BY <1>1, <1>2, <1>3, <2>1 DEF HopsDue
  <2>2. CASE stage' = "links"
    BY <1>1, <1>2, <1>3, <2>2 DEF HopsDue
  <2> QED BY <1>1, <2>1, <2>2
<1>6. l \in DOMAIN bandwidth /\ LinkDue(l) = q
  BY <1>3
<1>7. ASSUME NEW k PROVE LinkDue(k)' = IF k = l THEN 0 ELSE LinkDue(k)
  <2>1. CASE stage' = "place"
    <3>1. HopsDue' = {} /\ HopsDue = {hop}
      BY <1>1, <1>2, <1>3, <2>1 DEF HopsDue
    <3>2. LinkDue(k)' = 0
      BY <3>1 DEF LinkDue
    <3> QED BY <1>3, <3>1, <3>2
  <2>2. CASE stage' = "links"
    <3> DEFINE H == HopsDue \ {hop}
               g == CHOOSE h \in H : LinkOf(c, h) = k
    <3>1. \A h : LinkOf(rus[i], h)' = LinkOf(c, h) /\ Requirement(rus[i], h)' = Requirement(c, h)
      BY <1>1, <2>2 DEF LinkOf, Requirement, Gets, PlacementNodes
    <3>2. LinkDue(k)' = IF \E h \in H : LinkOf(c, h) = k THEN Requirement(c, g).bandwidth ELSE 0
      BY <1>1, <1>5, <2>2, <3>1 DEF LinkDue
    <3>3. CASE \E h \in H : LinkOf(c, h) = k
      <4>1. g \in HopsDue /\ g # hop /\ LinkOf(c, g) = k /\ g \in 1..Len(c.path) - 1
        BY <1>3, <3>3
      <4> HIDE DEF g
      <4>2. LinkDue(k) = Requirement(c, g).bandwidth /\ k # l
        BY <1>3, <4>1
      <4> QED BY <3>2, <3>3, <4>2
    <3>4. CASE ~\E h \in H : LinkOf(c, h) = k
      <4>1. k # l => LinkDue(k) = 0
        BY <1>3, <3>4
      <4> QED BY <3>2, <3>4, <4>1
    <3> QED BY <3>3, <3>4
  <2> QED BY <1>1, <2>1, <2>2
<1> HIDE DEF l, q
<1>8. BandwidthPromised' = BandwidthPromised
  <2>1. DOMAIN bandwidth' = DOMAIN bandwidth
    BY <1>1
  <2>2. ASSUME NEW k \in DOMAIN bandwidth
        PROVE  bandwidth'[k] - LinkDue(k)' = bandwidth[k] - LinkDue(k)
    BY <1>1, <1>4, <1>6, <1>7
  <2> QED BY <2>1, <2>2 DEF BandwidthPromised
<1>9. /\ MemoryPromised' = MemoryPromised
      /\ CPUPromised' = CPUPromised
  <2>1. \A n : NodeDue(n) = 0 /\ NodeDue(n)' = 0
    BY <1>1 DEF NodeDue
  <2> QED BY <1>1, <2>1 DEF MemoryPromised, CPUPromised
<1>10. UNCHANGED <<Hosts, Chains>> /\ Turn' = Turn /\ Phase' = Phase
  BY <1>1, <1>2 DEF Hosts, Chains, NoChain, Turn, Phase
<1> QED BY <1>1, <1>8, <1>9, <1>10 DEF Promise!vars, Promise!left

(* A step in which nothing happens. *)
LEMMA Stutters == UNCHANGED vars => UNCHANGED Promise!vars
<1> SUFFICES ASSUME UNCHANGED vars PROVE UNCHANGED Promise!vars
  OBVIOUS
<1>1. UNCHANGED <<rus, stage, i, hop, memory, cpu, bandwidth, links>>
  BY DEF vars, left, graph
<1>2. Charging' <=> Charging
  BY <1>1 DEF Charging
<1>3. \A n : NodeDue(n)' = NodeDue(n)
  BY <1>1, <1>2 DEF NodeDue
<1>4. HopsDue' = HopsDue
  BY <1>1, <1>2 DEF HopsDue
<1>5. \A h : LinkOf(rus[i], h)' = LinkOf(rus[i], h) /\ Requirement(rus[i], h)' = Requirement(rus[i], h)
  BY <1>1 DEF LinkOf, Requirement, Gets, PlacementNodes
<1>6. \A l : LinkDue(l)' = LinkDue(l)
  BY <1>4, <1>5 DEF LinkDue
<1>7. UNCHANGED <<MemoryPromised, CPUPromised, BandwidthPromised>>
  BY <1>1, <1>3, <1>6 DEF MemoryPromised, CPUPromised, BandwidthPromised
<1> QED BY <1>1, <1>2, <1>7 DEF Promise!vars, Promise!left, Hosts, Chains, NoChain, Turn, Phase

(* Every step is a step of the promise, or none. *)
LEMMA StepsPromised == RInv /\ RInv' /\ [Next]_vars => [Promise!Next]_Promise!vars
<1> SUFFICES ASSUME RInv, RInv', [Next]_vars PROVE Promise!Next \/ UNCHANGED Promise!vars
  OBVIOUS
<1>1. CASE NewPlacementBFS
  BY <1>1, SetsUp DEF Promise!Next
<1>2. CASE AllocateRU
  BY <1>2, Hosting DEF Promise!Next
<1>3. CASE RUsAllocated
  BY <1>3, Starts DEF Promise!Next
<1>4. CASE Accept
  BY <1>4, Reserves DEF Promise!Next
<1>5. CASE Reject
  BY <1>5, Rejects DEF Promise!Next
<1>6. CASE Placed \/ NewPlacementPanics \/ AllocateRUPanics \/ FindPathsPanics
             \/ ValidatePanics \/ AllocateDUPanics
  BY <1>6, Stops DEF Promise!Next
<1>7. CASE FindPaths \/ SearchStep
  BY <1>7, Searches
<1>8. CASE AllocateDU \/ AllocateCU
  BY <1>8, NodesCharged
<1>9. CASE AllocateLink
  BY <1>9, LinkCharged
<1>10. CASE UNCHANGED vars
  BY <1>10, Stutters
<1> QED BY <1>1, <1>2, <1>3, <1>4, <1>5, <1>6, <1>7, <1>8, <1>9, <1>10 DEF Next

(* A placement run keeps what Reservation promises, on every topology and
   cluster and for every list of RUs: a chain is reserved as if in one step, at
   both nodes and on all its links, fits when it is, and is never left half
   charged. *)
THEOREM PlacementReserves == Spec => ImplementsReservation
<1>1. Init => Promise!Init
  BY StartsPromised
<1>2. RInv /\ RInv' /\ [Next]_vars => [Promise!Next]_Promise!vars
  BY StepsPromised
<1> QED BY <1>1, <1>2, RInit, RNext, PTL DEF Spec, ImplementsReservation, Promise!Spec

===============================================================================
