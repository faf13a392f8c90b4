------------------------------ MODULE MCPlacement -----------------------------
(***************************************************************************)
(* Small topologies for Placement.  The node c is the core.                *)
(***************************************************************************)
EXTENDS PlacementRefinement, TLC

CONSTANTS c, a, b, d, r, m, l1, l2, l3, l4, l5

Link(from, to, mbps, ms) ==
  [source |-> from, destination |-> to, capacity |-> mbps, delay |-> ms]

(* c - a - b - r and c - d - b - r, with the capacities and one delay varied. *)
Diamonds ==
  { [core |-> {c}, link |-> (l1 :> Link(c, a, 6, 1) @@ l2 :> Link(a, b, k, 1) @@
       l3 :> Link(c, d, 6, 1) @@ l4 :> Link(d, b, 3, t) @@ l5 :> Link(b, r, 4, 1))] :
     k \in {2, 3}, t \in {1, 4} }

(* c - a - b - d - r with two links from a to b; r may be isolated.  The two
   last hops are the fronthaul and take 2 or 3 together. *)
Lines ==
  { [core |-> {c}, link |-> (l1 :> Link(c, a, 9, 1) @@ l2 :> Link(a, b, k, 2) @@
       l3 :> Link(a, b, 4, 1) @@ l4 :> Link(b, d, 6, 1) @@ l5 :> Link(d, e, 6, t))] :
     k \in {1, 4}, e \in {r, d}, t \in {1, 2} }

(* No core, two cores, a link to a node that is not there. *)
Oddities ==
  { [core |-> k, link |-> (l1 :> Link(c, a, 9, 1) @@ l2 :> Link(a, b, 9, 1) @@
       l3 :> Link(b, d, 9, 1) @@ l4 :> Link(d, e, 9, 1))] :
     k \in {{}, {c, d}}, e \in {r, NoNode} }

MCTopologies == Diamonds \cup Lines \cup Oddities

(* The node m is a node of the cluster that the topology does not have. *)
MCClusterNodes == Nodes \cup {m}

Item(n, millis) == [name |-> n, cpu |-> millis, memory |-> 5]

(* The last node listed is the one whose resources count.  With 250 one RU
   fits on a node and leaves no room, with 1150 room for nothing after it by
   the strict comparison of rounded values; 4000 is ample. *)
Listed(last) ==
  << Item(c, 2000), Item(a, 2000), Item(b, 2000), Item(d, 2000), Item(r, 2000), Item(m, last) >>

MCNodeLists ==
  {Listed(last) : last \in {250, 1150, 1600, 4000}} \cup {SubSeq(Listed(2000), 1, 4), <<>>}

MCRUNodeLists == {<<x, y>> : x, y \in Nodes} \cup {<<r, r, d>>, <<d, r, r>>, <<NoNode>>, <<>>}

MCHauls == << [bandwidth |-> 1, latency |-> 0], [bandwidth |-> 2, latency |-> 3],
              [bandwidth |-> 3, latency |-> 2] >>

-------------------------------------------------------------------------------
(* Input with nothing wrong with it: one core, all nodes listed with ample
   resources, RUs on nodes of the topology. *)
AmpleNodeLists == {Listed(4000)}
RUPerNode == {<<x>> : x \in Nodes}

(* The CU's node a has no CPU to spare, the node listed last has. *)
PoorCUNode ==
  { << Item(c, 4000), Item(a, 100), Item(b, 4000), Item(d, 4000), Item(r, 4000) >> }
TwoFarRUs == {<<r, d>>, <<d, d>>}
===============================================================================
