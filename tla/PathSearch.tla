------------------------------ MODULE PathSearch ------------------------------
(***************************************************************************)
(* PlacementBFS.findPathsTo (controllers/algorithm/placement.go): the      *)
(* breadth-first search for paths from the core node to the node of an RU. *)
(* It differs from a textbook search in one point that everything else     *)
(* depends on: a node is marked visited when a path ending in it is taken  *)
(* OFF the queue, not when it is put on it, so several paths to one node   *)
(* are found.  Go ranges over a node's Links map in random order; that     *)
(* order is the choice of n in Explore(n).                                 *)
(***************************************************************************)
EXTENDS Naturals, SequencesExt

CONSTANT Nodes          \* the node names of the topology

ASSUME NodesAssumption == IsFiniteSet(Nodes)

VARIABLES
  root,                 \* PlacementBFS.root, the core node
  links,                \* links[n][m]: the link in nodes[n].Links[m]
  nodeToFind,           \* the parameter of the call
  queue,                \* paths still to be extended, first in first out
  visited,              \* nodes some dequeued path ends in
  pathsToNode,          \* the paths found so far, in the order found
  path,                 \* the path of the current iteration, <<>> before it
  pending               \* the neighbours its inner loop has still to range over

search == <<nodeToFind, queue, visited, pathsToNode, path, pending>>

(* The call: an empty visited set and a queue that holds the one-node path.
   cachePaths is never filled, so the lookup before it never hits. *)
StartSearch(node) ==
  /\ nodeToFind' = node
  /\ queue' = << <<root>> >>
  /\ visited' = {}
  /\ pathsToNode' = <<>>
  /\ path' = <<>>
  /\ pending' = {}

(* Mutant: a stack in place of the queue. *)
DequeueLIFO ==
  /\ pending = {}
  /\ queue # <<>>
  /\ path' = Last(queue)
  /\ queue' = Front(queue)
  /\ visited' = visited \cup {Last(path')}
  /\ pathsToNode' = IF Last(path') = nodeToFind
                    THEN Append(pathsToNode, path') ELSE pathsToNode
  /\ pending' = DOMAIN links[Last(path')]
  /\ UNCHANGED <<root, links, nodeToFind>>

(* Mutant: the inner loop ranges over the links, not over the names. *)
DequeueValues ==
  /\ pending = {}
  /\ queue # <<>>
  /\ path' = Head(queue)
  /\ queue' = Tail(queue)
  /\ visited' = visited \cup {Last(path')}
  /\ pathsToNode' = IF Last(path') = nodeToFind
                    THEN Append(pathsToNode, path') ELSE pathsToNode
  /\ pending' = Range(links[Last(path')])
  /\ UNCHANGED <<root, links, nodeToFind>>

(* One iteration of the outer loop up to its inner loop. *)
Dequeue ==
  /\ pending = {}
  /\ queue # <<>>
  /\ path' = Head(queue)
  /\ queue' = Tail(queue)
  /\ visited' = visited \cup {Last(path')}
  /\ pathsToNode' = IF Last(path') = nodeToFind
                    THEN Append(pathsToNode, path') ELSE pathsToNode
  /\ pending' = DOMAIN links[Last(path')]
  /\ UNCHANGED <<root, links, nodeToFind>>

(* Mutant: visited nodes are queued again. *)
ExploreUnchecked(n) ==
  /\ n \in pending
  /\ pending' = pending \ {n}
  /\ queue' = Append(queue, Append(path, n))
  /\ UNCHANGED <<root, links, nodeToFind, visited, pathsToNode, path>>

(* Mutant: a node is marked when it is put on the queue. *)
ExploreMarking(n) ==
  /\ n \in pending
  /\ pending' = pending \ {n}
  /\ queue' = IF n \in visited THEN queue ELSE Append(queue, Append(path, n))
  /\ visited' = visited \cup {n}
  /\ UNCHANGED <<root, links, nodeToFind, pathsToNode, path>>

(* Mutant: the loop does not get past a visited neighbour. *)
ExploreUnvisited(n) ==
  /\ n \in pending \ visited
  /\ pending' = pending \ {n}
  /\ queue' = Append(queue, Append(path, n))
  /\ UNCHANGED <<root, links, nodeToFind, visited, pathsToNode, path>>

(* One iteration of the inner loop, for the neighbour n. *)
Explore(n) ==
  /\ n \in pending
  /\ pending' = pending \ {n}
  /\ queue' = IF n \in visited THEN queue ELSE Append(queue, Append(path, n))
  /\ UNCHANGED <<root, links, nodeToFind, visited, pathsToNode, path>>

(* The loop has ended and pathsToNode is returned. *)
Returned == queue = <<>> /\ pending = {}

-------------------------------------------------------------------------------
(* The search alone: one call, on any graph over Nodes.  What a
   link is called does not matter here; it is named by its two ends. *)
Graphs == { [n \in Nodes |-> [m \in {x \in Nodes : {n, x} \in g} |-> {n, m}]] :
              g \in SUBSET {e \in SUBSET Nodes : Cardinality(e) = 2} }

Init ==
  /\ root \in Nodes
  /\ links \in Graphs
  /\ nodeToFind \in Nodes
  /\ queue = << <<root>> >>
  /\ visited = {}
  /\ pathsToNode = <<>>
  /\ path = <<>>
  /\ pending = {}

Next == Dequeue \/ \E n \in Nodes : Explore(n)

vars == <<root, links, nodeToFind, queue, visited, pathsToNode, path, pending>>

(* The search is one sequential call: it never pauses between iterations. *)
Spec == Init /\ [][Next]_vars /\ WF_vars(Next)

-------------------------------------------------------------------------------
(* p runs from the core along links and passes no node twice. *)
IsRoute(p) ==
  /\ p \in Seq(Nodes)
  /\ p # <<>>
  /\ p[1] = root
  /\ \A k \in 1..Len(p) - 1 : p[k + 1] \in DOMAIN links[p[k]]
  /\ \A j, k \in 1..Len(p) : p[j] = p[k] => j = k

(* Routes of at most Cardinality(Nodes) nodes: all there are. *)
Routes == {p \in SeqOf(Nodes, Cardinality(Nodes)) : IsRoute(p)}

RoutesTo(n) == {p \in Routes : Last(p) = n}

(* No route to the last node of p is shorter than p. *)
IsShortest(p) == \A q \in RoutesTo(Last(p)) : Len(p) <= Len(q)

TypeOK ==
  /\ root \in Nodes
  /\ DOMAIN links = Nodes
  /\ \A n \in Nodes : DOMAIN links[n] \subseteq Nodes
  /\ nodeToFind \in Nodes
  /\ queue \in Seq(Seq(Nodes) \ {<<>>})
  /\ visited \subseteq Nodes
  /\ pathsToNode \in Seq(Seq(Nodes) \ {<<>>})
  /\ path \in Seq(Nodes)
  /\ pending \subseteq Nodes

(* Every path findPathsTo returns starts at the core, follows links, ends at
   the node asked for and passes no node twice: dsg8 walks it hop by hop,
   looking up node.Links[next] and taking one requirement per placement node,
   and both go wrong on a path that is not one (placement.go:135-154). *)
FoundPathsAreRoutes ==
  \A k \in DOMAIN pathsToNode : /\ IsRoute(pathsToNode[k])
                                /\ Last(pathsToNode[k]) = nodeToFind

(* The call returns every shortest path from the core to the node, whatever
   the order of the Links maps: marking on dequeue loses none of them
   (placement.go:140, 146-151). *)
AllShortestPathsFound ==
  Returned => \A p \in RoutesTo(nodeToFind) :
                IsShortest(p) => p \in Range(pathsToNode)

(* The price of marking on dequeue is bounded: a path found is at most one
   hop longer than the shortest, and none is returned twice
   (placement.go:146-151). *)
FoundPathsNearlyShortest ==
  Returned => /\ \A p \in RoutesTo(nodeToFind), q \in Range(pathsToNode) :
                   Len(q) <= Len(p) + 1
              /\ IsInjective(pathsToNode)

(* The search ends: no cycle of links keeps the queue filled for ever
   (placement.go:135). *)
SearchTerminates == <>Returned
===============================================================================
